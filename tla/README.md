# A TLA+ model of ml-kem-ml-dsa-lab

The repository is a study implementation of ML-KEM (FIPS 203) and ML-DSA
(FIPS 204): a header-only C++20 library (`cpp/include/pqcore`), a Rust crate
that derives the same arithmetic and runs vectors (`rust/pqcore`), and the
Python gates of CI (`scripts`). This directory models its algorithms and
gates, checks them with TLC on small instances, and proves the properties that
matter most with TLAPS.

The library keeps no state between calls and starts no threads. What is hard
about it is not concurrency: it is loops whose indices and rejection bounds
move together, arithmetic at the edge of a modulus or a word, byte strings that
travel between parties who may disagree, and gates that two programs evaluate
over files that people edit.

## Inventory

| Component | State while it runs | Operations | Hard parts | Correct means |
|---|---|---|---|---|
| field, polynomial | none | add, subtract, multiply, negate, centre, schoolbook product | C++'s remainder of negative values, wrap at X^n + 1 | arithmetic modulo q; reference product |
| ntt | coefficient array, level, block, zeta index | transform, inverse, pairwise product | one zeta index running through all levels | product in the ring, inverse |
| encoding | byte and coefficient arrays, index | ByteEncode, ByteDecode, Compress, Decompress | fields across bytes, aliases at 12 bits, rounding at q | round trips, error bound |
| sampling | stream position, array, fill index | SampleNTT, CBD, RejBoundedPoly, SampleInBall | rejection, exhaustion, in-place moves | exact weight, uniformity, each byte used once |
| sha3 | sponge state, offsets | SHA3, SHAKE | padding bits meeting in one byte, block ends | injective padding, prefix outputs |
| pke | none between calls | keygen, encrypt, decrypt | noise, transposed matrix, nonces of the expansion, compression | decryption finds the message, no stream used twice |
| kem_internal | key pairs and ciphertexts at their holders | keygen, encaps, decaps, masked compare and select | implicit rejection, mixed-up keys, aliases | only the ciphertext sent opens |
| dsa_helpers | none | Power2Round, Decompose, hints | the wrap interval, ties | hints recover the high bits |
| dsa_internal | attempt, witness, nonces | keygen, sign, verify, format | rejection loop, masks under constant randomness, concatenation | what was signed is accepted; a challenge is for one call; masks are not shared |
| kem, dsa, entropy, vector_harness | none | public calls, entropy requests, placeholder cases | sizes written down three times, strings of six sets | refuses other sets' strings, never its own |
| check-vector-manifest.py | set index, pending list, count of vendored sets | validate_manifest | stale hashes and counts, what Python's JSON lets through | a manifest that passes describes the files |
| vector_runner.rs | set index, reports, summaries | run_manifest, exit status | joins by group and test number, typed JSON | totals add up, agrees with the gate, names every parameter set |
| check-side-channel-manifest.py | finding ids, blocker count | plain and strict validation | cross references, status fields | reviews tracked |
| params | none | tables, sizes computed beside them | two sources for one size | a set accepts its own strings and no other's |
| secret_data, text gates, tests | none | formatting, phrase searches | - | not modelled |

Calls go downwards: kem_internal calls pke, which calls ntt, encoding,
sampling and sha3; dsa_internal calls sha3 and dsa_helpers calls the sampler of
challenges. The gate and the runner share `test-vectors/manifest.json` and the
files it names, and run in parallel CI jobs on one commit.

## Modules

| Module | Code | Its actions are |
|---|---|---|
| Field | field.hpp, encoding.hpp 86-111 | (operators) C++'s remainder, normalisation, ModQ's operators; codes of residues |
| SampleInBall | sampling.hpp 197-227 | turns of the do/while loop: reject a byte, or place a sign |
| RejectionSampler | (abstract) | accept or reject one candidate |
| SampleNtt | sampling.hpp 68-98 | reading three bytes, each of the two `if`s |
| RejBoundedPoly | sampling.hpp 147-195 | each of the two `if`s per byte |
| CenteredBinomial | sampling.hpp 105-131 | one coefficient |
| Samplers | sampling.hpp | one call of one of the four samplers |
| Ntt | ntt.hpp, polynomial.hpp 66-79 | one turn over `start` of either transform, the product |
| ByteCodec | encoding.hpp 19-84 | one coefficient encoded or decoded, a refusal |
| Compression | encoding.hpp 86-111 | compress, decompress, noise in between |
| Coefficients | encoding.hpp, dsa_helpers.hpp | the codec, compression, or rounding |
| KeccakSponge | sha3.hpp 87-133 | absorb a block, pad, squeeze a block |
| KeccakPermutation | sha3.hpp 18-85 | one step (theta, rho and pi, chi, iota) of one of the 24 rounds, on lanes of 64 bits |
| Hashing | sha3.hpp | the sponge, or the permutation |
| MlKemPke | pke.hpp, polynomial.hpp, expansion in sampling.hpp | keygen, encrypt, decrypt, refusals |
| MlKem | kem_internal.hpp 69-193 | keygen, encaps, decaps, refusals; the network |
| Selection, MaskSelect | kem_internal.hpp 40-67 | abstract: one selection; detailed: one byte of either loop |
| MlDsaRounding | dsa_helpers.hpp | make a hint, use it |
| MlDsa | dsa_internal.hpp | one attempt of the signing loop, return, verify, refusals; signatures altered, or composed without a key |
| VectorManifest | test-vectors/ | edits of the checkout |
| VectorGate | check-vector-manifest.py | one vector set, the verdict |
| VectorRunner | vector_runner.rs, rust-vector-runner.rs | one vector set, the exit |
| VectorCi | ci.yml, both jobs | composes the three |
| SideChannelGate | check-side-channel-manifest.py | one finding, one review, the verdict; reviewers' edits |
| Gates | CI | CI's vector jobs, or the side-channel gate |
| Parameters | params.hpp, sizes in encoding.hpp, dsa_internal.hpp, pke.hpp, kem_internal.hpp | (operators) the tables, the sizes pke.hpp writes out again, and those the code computes |
| ByteStrings | byte slices and concatenation | (operators) strings as parts with what they hold |
| PublicApi | kem.hpp, dsa.hpp, entropy.hpp, vector_harness.hpp | (operators) what each call ends in |
| TestHooks | kem_internal.hpp, dsa_internal.hpp, pke.hpp | (operators) layouts made, and where parts are looked for |
| ApiBoundary | all of these | one call, by callers that keep and pass on what they got |

`*Proofs` modules hold theorems about the modules they extend, NaturalFacts the
facts about numbers they share. `MC*` modules give the constants their values
for TLC; MlKem and ApiBoundary need none. PROJECT.json maps every definition to
its lines.

Samplers, Hashing, Coefficients and Gates put small components side by side,
each in variables of its own: a behaviour calls one of them and leaves the
others idle. They let one run check several components, and give their
properties names that the proofs and the runs share.

How data is abstracted:

- **Hashes and expansions** (H, G, J, SHAKE, the deterministic test
  expansion, SHA-256 of files) are free constructors or the identity on
  content: equal outputs mean equal inputs. Collisions are outside the model.
- **K-PKE** has its arithmetic in MlKemPke. There, polynomials are held by
  their coefficients, since multiplying transforms is multiplying in the ring
  (`TransformMultiplies`); encodings are sequences of fields, since the
  coefficients run has the packing; and the expansion is a function of exactly
  the bytes the code absorbs. In MlKem it is a term
  `[seed, message, coins]` that decrypts to its message under its own key and
  to a fresh term under another. A public key may be re-encoded with coefficients not below q, which decodes to the same key
  but hashes differently: form `alias`.
- **Strings at the boundary** (ByteStrings) are sequences of parts, each with
  what it holds and its size: cutting one anywhere but between parts gives
  garbage, so an offset that is off shows.
- **Bytes** are integers where arithmetic is done on them, sets of bit
  positions where only bit operations are (MaskSelect, KeccakSponge).
- **Files** are members of a small set of contents that differ in what the
  checks look at: numbering, counts, parameter sets, header, sample flag.
- **JSON** keeps what its two readers take differently. `strict` is FALSE of a
  text that Python's json module reads and serde_json does not (a key given
  twice, NaN, a lone surrogate). `unread_typed` says that the fields the gate has
  no use for, given a set's kind and status, have the types of the runner's
  structs. The schema version is 1, the 1.0 that Python finds equal to it, or
  another; a pending reason is missing, a text, or a number; ids are integers, of
  which the runner reads those up to `MaxU64`.
- The `_test` hooks are the only callers of the internal algorithms in the
  repository. They have the shape of the production functions and differ in
  the expansion they use, which the terms abstract from.

## Runs

| Run | Question | Bounds, and why they are enough |
|---|---|---|
| samplers | SampleInBall: weight, signs, uniformity, exhaustion; the loops of SampleNTT and RejBoundedPoly refine the abstract sampler; spread of RejBoundedPoly and SamplePolyCBD | 4 coefficients; SampleInBall: 2-bit bytes, all streams of up to 6: every pattern of rejects and collisions of up to three placements; SampleNTT: candidates 0..7 with three rejected, streams of up to three groups, full after either half and exhausted; RejBoundedPoly: half bytes on both sides of both limits; CBD: all bit streams for two coefficients |
| ntt | residues at every turn, product; the code's constants are what the proofs assume | all pairs of monomials of degree 8 (products are bilinear), dense polynomials of the largest residues |
| coefficients | round trips, aliases, refusals; error bound, codes survive noise; hints, recomposition | codec: 2-bit bytes, two coefficients of 0 to 5 bits, fields inside and across bytes, all strings of the right length; compression: the real modulus, every value, width and tolerated noise; rounding: two small moduli in full, both real gamma2 at the ends of intervals |
| hashing | injective padding, prefix outputs of the right length; the rounds are those of FIPS 202 | sponge: rates of 2 and 4 with lanes of 2, messages that end before, at and past a block's end; permutation: real size, from the zero state and padded blocks: one of which the tests give the digest |
| pke | decryption finds the message, no stream is used twice | four coefficients at the real modulus, rank, noise and code widths; expansions of the largest noise of either sign and scrambled ones; every message; keys, messages and ciphertexts cut short |
| ml_kem | agreement, only the ciphertext opens | two seeds, two encapsulations, two openings, one tampering, mixed stored keys: the smallest in which two secrets can be confused |
| mask_select | masks and loops refine one selection | all strings of up to two 2-bit bytes in 4-bit words |
| ml_dsa | what was signed is accepted; a challenge is for one call; masks | two sets, one with fewer hints allowed than rows; seeds, messages, contexts that concatenate alike; two calls with constant randomness; one signature altered or composed without a key |
| ci_gates | vector gate and runner on one commit; side-channel gate in both modes | three edits of two official sets and the placeholder: one to break, one to cover it up, one to get past the other job; three edits of the reviews. About 1.8 million states, the largest run |
| api_boundary | sets told apart; parts read back where they were stored | all six parameter sets at their real sizes, two seeds, up to three hook calls before any call, which is one more than the longest chain a call needs (key, then ciphertext or signature) |

DecryptionFindsMessage holds for every noise the sampler can return because of
the small degree: up to degree 17, even noise of the largest size in every term
stays within what the codes tolerate. At degree 256 it may exceed that, with a
probability that is negligible and outside the model.

Named bounds: MaxKeys, MaxSent, MaxOpened, MaxErrors, MaxTampered (MlKem);
MaxSigned, MaxAltered, MaxVerified (MlDsa); MaxSent, MaxKeys, MaxDecrypted
(MlKemPke); MaxMade (ApiBoundary); MaxEdits (VectorManifest, SideChannelGate). They limit how many calls or edits a behaviour has, never what
a call does. `Attempts` is the code's own 8.

Most models stop when a call has returned or the bounds are used up; deadlock
checking is off for those: a call that returns is no deadlock.

**Fairness.** None is assumed, and no liveness is claimed. Every loop of the
library, of the gates and of the runner is bounded by an index that each turn
advances or by a stream that it uses up; that they end is plain from the code,
and they are checked for what they compute.

## What acceptance means

`ml_dsa_sign_internal_test` and `ml_dsa_verify_internal_test` are a test flow
(docs/ml-dsa-signature.md says so): the challenge is a hash of public inputs and
of the witness, and verification compares hashes. Anyone can compute a challenge
over a witness of their own, and the model lets them (`ComposeWithoutKey`): a
signature that verifies need not have been signed. What does hold, and is checked
against such signatures too: whatever signing returns is accepted
(`SignedIsAccepted`); an accepted challenge belongs to one parameter set, key,
witness, message and context, however context and message divide the same bytes
(`ChallengeFixesTheCall`); and no mask is used for two messages
(`MasksNotShared`).

In the code the first attempt of the rejection loop is always rejected and the
second always accepted, so the loop is never left by its bound of eight;
`Return` covers that way out all the same, and the proof shows it is not taken
with a witness out of order.

## Where the two vector jobs part

The gate (Python) and the runner (Rust) read one manifest with different JSON
readers and checks. `JobsReadAlike` lists everything the gate lets pass and the
runner does not read:

- a source id listed twice, which only the runner looks for;
- a schema version that is equal to 1 in Python without being the integer 1;
- text that Python's json module reads and serde_json refuses, in the manifest,
  in a placeholder file or in a vendored file;
- values of another type in fields the gate does not look at, and a pending
  reason that is no text on a set that is not pending;
- group or test ids that are integers in Python (negative ones, booleans) but no
  u64.

`RunnerAgreesWithGate` states that the list is complete and sharp: on a manifest
the gate passes, the runner fails with an error exactly if something on the list
is there. Every entry of it was seen to occur on a manifest that passes.

With `--require-official` the gate fails only if no official set is vendored
(check-vector-manifest.py:332). A set may thus be returned to pending while
others stay, with a pending reason that the gate insists on (line 303).
`NoParameterSetUnreported` says what is left to see of it: the runner's report
then names each parameter set of that set, as PENDING.

## Seen on the way

No run shows the code to contradict its documents. Worth knowing all the same:

- The side-channel gate takes `gate_status` at its word, so with
  `--require-complete` it passes a manifest marked complete whose findings are
  open, and never one without an open production blocker
  (check-side-channel-manifest.py:183, 195).
- Decoding a public key reduces coefficients modulo q, so several byte strings
  are one key, and a sender given an alias ends with a secret the holder rejects
  (`OnlyTheCiphertextOpens` holds).
- pke.hpp:19-22 writes out the sizes of ML-KEM-512 a second time, and the hooks
  check against those. They agree with the tables, and `SetsKeptApart` would fail
  if they did not.

## Proofs

Every safety property of the runs but two is proved for every value of the
constants that the assumptions of its module allow; so are the three
refinements. PROJECT.json lists the theorems.

**What is assumed.** Constants are as the code has them, no narrower: sizes are
naturals, streams are sequences of bytes, and so on. Those that say more:

- MlKem, MlDsa: terms of hashes are free, as the abstractions above say.
- CodecAssumption: the coefficients fill whole bytes, and the modulus of the
  widest encoding is at most its power of two.
- CompressionAssumption: Q is odd and larger than the number of codes of every
  width.
- RootAssumption (Ntt): Root is a root of -1 of order N / 2 and Scale the inverse
  of N / 2, modulo Q. MCNtt has TLC compute both for the constants of the code,
  17, 3303 and 3329 (`CodeConstants`).
- ParametersAssumption (rounding): q - 1 is a multiple of 2 gamma2, at least
  three times; for ML-DSA it is 16 or 44 times.
- ManifestAssumption: the manifest starts out with lists of vector sets,
  parameter sets, files, groups and tests, and at least one source. Ids need not
  be distinct nor parameter sets known. Edits may then break any hash, count,
  status, id or file, and the theorems are about what they leave behind.

**Arguments.**

- **NaturalFacts.** Quotient and remainder, the least number of a set, and
  induction on a *set* of naturals (`SetInduction`): the library's induction
  theorem takes an operator as its parameter, which no installed prover can
  instantiate, but a set it can. `RecursionExists` and `EndlessRecursionExists` are
  then what lets the proofs unfold a function defined by recursion, over an
  interval or all naturals, which TLA+ defines as a CHOOSE.
  The provers do not evaluate `^`: that each exponent doubles a power
  (`PowersDouble`) is proved by counting the subsets of 1 .. n and of 1 .. n + 1,
  and that exponents add up (`PowersMultiply`) follows from it.
- **SamplingProofs.** SampleInBall: the weight at the end is not inductive; the
  invariant (`IInv`) says that after `offset` placements there are `offset`
  nonzero coefficients, all below the index filled next, so the move to that
  index overwrites nothing. `CountInv` adds two counts: of the -1s placed, which
  are the ones among the sign bits read, and of the bytes read that any index
  would accept, which are at most `offset`. `ChallengesAreEquallyLikely` counts the
  choices of indices and sign bits that lead to one challenge (`Ways`), by
  induction on the placements (`WaysAreFactorial`): the last index drawn is a
  nonzero coefficient of the challenge, and any of them it may have been; each
  leaves one array and one bit to the earlier placements (`Before`, `BitFor`), so
  k + 1 placements have k + 1 times the choices of k (`FibresMultiply`).
  `RejBoundedPolyImplements` and `SampleNttImplements` are step by step refinements
  of RejectionSampler: reading a group is a stutter, each `if` is one candidate
  taken. `BoundedEvenlySpread` counts the half bytes of each value,
  `BinomialBitsCountOnce` follows one flipped bit. The sponge: `SpongeInv` relates the absorbed blocks to the input and the
  output to squeezes and places; the padding theorem reads the blocks back, and
  `KeccakPaddingIsUnambiguous` adds that no sequence of blocks can be read two ways.
- **MlKemPkeProofs.** `StreamsNeverReused`: domain names tell the samplers apart,
  column and row the matrix entries, and the starting nonces of the groups (0 and
  2; 0, 2 and 4) leave room for the K nonces of each. Compression: a code is the nearest
  multiple of Q to `x * 2^d` and a decompressed value the nearest one back, so
  both roundings together stay in the bound, around the circle, and noise below
  half a code's width is rounded away. The codec: adding a power of two flips its
  own bit and, where that was clear, no other (`OwnBitFlips`, `LowBitsStay`,
  `HighBitsStay`), so a sum of bits holds those bits (`SumHoldsBits`); numbers and
  strings with the same bits are the same (`BitsTellNumbers`, `BitsTellStrings`);
  and the places of the coefficients' bits are all places of the string, each of
  them once (`PlacesOfCoefficients`, `CoefficientsFillStrings`). `CodecInv` says
  which bits either call has written or read after so many coefficients, and that
  what was decoded is in the encoder's range.
- **NttProofs.** ModQ's constructor and operators are arithmetic modulo Q and stay
  below its square on the way: the licence for writing `% Q` elsewhere. The rest
  computes with integers and compares them modulo Q (`Same`); sums over indices
  and powers are functions on the naturals (`Sums`, `Powers`), so identities about
  them are inductions. The square-and-multiply loop keeps result * factor^exponent
  (`TurnKeepsValue`). The zeta of a block is a square root of the block's own root
  (`ZetasAreRoots`), because bit reversal moves the bottom bit to the top; so
  X^(2l) - root splits into X^l - zeta and X^l + zeta, and one turn of ml_kem_ntt
  takes a block to its two halves (`BlockIsSplit`). The inverse runs through the
  zetas downwards: the index it is at and the one the forward level had for that
  block have reversals that add up to N / 2 (`ReversalsAddUp`), so the two zetas
  have the product -1 (`ZetasCancel`), and a turn puts the halves together, doubled
  (`HalvesAreMerged`). `Splitting` says which level each block of the array has
  reached; `Merging` adds the weight, 2 to the number of levels undone, which the
  scale undoes. In between, multiplying in pairs is multiplying modulo X^2 - gamma:
  every gamma is a root of -1 of order N / 2 (`GammasAreRoots`), at which the
  schoolbook product, wrapped at X^N + 1, has the value of the pair's product
  (`ProductValues`).
- **MlKemProofs.** The invariant says where every string came from: the coins of
  a circulating ciphertext are those G derives for its own key and message or a
  third party's; every recorded secret is that of the call recorded.
  `ValidOpening` is the heart: a re-encryption that matches used the message
  inside the ciphertext, the right key, and the hash of that key. The masks and
  the two loops inside a decapsulation (module MaskSelect) refine one-step
  selection: `ComparisonInv` adds what each loop has done so far, and
  `MaskOfDifference` is the argument about the sign bit of `diff | -diff`.
- **MlDsaProofs.** Formatting is injective because of the length byte, so the
  signing seed and the challenge each determine the call they were made for
  (`SigningSeedBindsCall`, `CommitmentInjective`): the first keeps masks apart,
  the second gives one direction of `ChallengeFixesTheCall` for any signature, and
  verification recomputes the challenge, which gives the other. That what is
  returned is accepted needs to know how the loop is left (`IInv`): past the first
  attempt the witness is in order, and the hints set are at most omega and k.
  Rounding: Decompose is the unique splitting with its bounds (`SplitIsDecompose`),
  so adding z moves the high part by one interval at most, in the direction the
  low part's sign tells.
- **GateProofs.** `Shape` is what edits keep of the manifest. `GateInv`: every set
  the walk went past satisfied its checks; since files do not change once the
  jobs run, that still holds at the verdict. `RunnerInv`: the head was read
  (`HeadRead`), the reports so far are those of the sets walked, and summaries
  count them, per set where the id is its own. `JobsReadAlike` falls into a part
  about the head, which is the runner's own test of it (`HeadsAlike`; as many
  sources as entries means none twice, `NoSourceTwice`), and one about each set,
  which on a set the gate accepted is the runner's test of that set (`SetsAlike`):
  with one file per role (`OneFilePerRole`) both jobs look at the same files, and
  with a test in every group the ids of groups are ids of cases (`ReadsByCases`).
  The cases reported are those of the prompt, group by group
  (`CaseReportsCoverPrompt`), which the gate counted and whose parameter sets it
  compared with the set's. `ReviewInv` does the same for the review gate, whose
  finding ids only grow.
- **ApiBoundaryProofs.** `BoundaryInv` says that every string a hook made has the
  layout of its set and role (`WellMade`). Its size is then the one in the tables
  (`MadeHasRightSize`), and so is that of a string of zeros; the sizes pke.hpp
  writes out again and those the code computes are the tables' (`WrittenTwice`,
  `KemSizes`, `DsaSizes`), no two sets share a size in any column
  (`SizesTellSets`), and so the checks refuse exactly the wrong sets. A part ends
  where the sizes up to it add up (`EndsUnfolds`), and a slice from one end to
  another is the parts in between (`SliceBetweenEnds`): with the numbers of the
  tables, every offset and length in the code lands on such ends, also in the
  encapsulation key inside a decapsulation key and in the witness inside a
  signature. It covers every sequence of calls, in both builds.

**Model-checked only.**

- `RoundsFollowFips202`: five permutations of 1600 bits, a computation.
- `DecryptionFindsMessage`: it holds for the small degree and for chosen
  expansions; at degree 256 it is a matter of probability, and no theorem.

The type invariants (`TypeOK` of SampleInBall and MlKem, `ComparisonTypeOK` of
MaskSelect) and `MaskDecides` are proved as parts of the inductive invariants
and no longer checked by the runs.

## Not modelled

- Redaction (`secret_data.hpp`) and the text gates: wording, no state.
- The Rust copies of field, polynomial and parameter tables: the same
  definitions again, compared with the C++ ones by unit tests.
- The mixing inside the deterministic test expansion: arithmetic on 64-bit words
  that nothing but distinct outputs is asked of; what it absorbs is modelled.
- The production forms of the expansions and hashes (SHA3-512, SHAKE128 and
  SHAKE256 in `pke.hpp` and `dsa_internal.hpp`): no key generation or signing
  function calls them yet. The sponge they run on is modelled.
- `ml_dsa_coeff_from_three_bytes`: no caller.
- Refusals that no call in the library can reach: a bad width or code in
  Compress and Decompress (encoding.hpp:87, 104), a bad modulus or gamma2 in the
  rounding helpers, an index out of range in polynomials.
- A property of the release build's hooks: each is one `throw`, which the model
  has hook by hook (`Throws`), and nothing but that line could be restated.
- Timing and memory access, except that the comparison reads to the end
  (`NoEarlyExit`).

## Plan

1. (done) Samplers, transform, encoding, sponge, KEM with its selection, DSA
   rounding and signing, the vector gate with its runner, the side-channel gate;
   proofs for SampleInBall, MlKem, MaskSelect.
2. (done) Lattice arithmetic of K-PKE; the Keccak permutation; the boundary of
   public API, entropy, harness and hooks; field arithmetic; proofs for MlKemPke,
   ApiBoundary and Field.
3. (done) Proofs for the samplers, the sponge, compression, the codec, rounding,
   ML-DSA and the gates; the sizes and layouts at the boundary; facts about
   numbers and recursion they share.
4. (done) Proofs for the transform, one turn of its loops at a time.

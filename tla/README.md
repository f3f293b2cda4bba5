# guild-zk in TLA+

A verification project for the repository: TLA+ models of its proof system and of
the library beside it, the TLC runs that check them on small instances, and
theorems proved with TLAPS for every instance.  Paths are relative to the
repository; those without a crate are under `tom256/src/`, and `curv/` stands for
`curv/src/`, with `cryptographic_primitives/` and `elliptic/curves/` left out.

## 1. The system

guild-zk lets a member of a guild prove "one of these Ethereum keys, whose list
you hold, signed the guild's join message" without saying which.  `tom256` is
the program.  `prototypes`, `merkle-tree-example` and `ecdsa-zkp` are earlier
attempts, and `curv` is a fork of a library of curves, proofs and two-party
protocols.  Nothing in it is concurrent: every function is one thread from call
to return.  What makes it hard is arithmetic at its edges, parties that must
compute the same thing from different data (prover and verifier, dealer and share
holders, two parties of an exchange; what they hold may have changed in between),
and randomness nobody can enumerate in a test.

### Components

| Component | Code | State | Operations | What makes it correct |
|---|---|---|---|---|
| batch verifier | `arithmetic/multimult.rs` | `pairs`, `known`; a `Relation`'s pairs; the heap of `evaluate` | `add_known`, `insert`, `Relation::insert`, `drain`, `evaluate` | the sum is never changed; the heap is never empty at the `unwrap`; the loop ends |
| projective points | `arithmetic/point/*`, `curve.rs` | a triple (x, y, z) | add, double, negate, subtract, `==`, `to_affine`, `scalar_mul`, `double_mul` | the triple stands for the right group element, after any sequence of calls |
| modular arithmetic | `arithmetic/{modular,scalar,field}.rs` | a `U256` below the modulus | add, sub, mul, negate, inverse, pow, random, decoding | values stay reduced and are the right residues |
| interpolation, padding | `proofs/utils.rs` | the vectors `s` and `coeffs` | `interpolate`, `pad_ring_to_2n` | the polynomial passes through the points |
| membership proof | `proofs/membership.rs` | commitments and answers | `construct`, `verify` | honest proofs verify, other rings are refused |
| exponentiation proof | `proofs/exp.rs` | the repetitions | `construct`, `verify` | a wrong statement survives only if no even bit is opened |
| Pedersen commitments, sum, product and equality proofs | `pedersen.rs`, `proofs/{point_add,multiplication,equality}.rs` | commitments and answers | `construct`, `aggregate`/`verify` | both ends derive the same commitments |
| attestation | `proofs/mod.rs`, `lib.rs` | the proof; the backend's ring | `construct`, `verify` | an accepted proof implies a valid signature by a key of the ring |
| parsing | `parse.rs` | text to numbers | `parse_ring`, `parse_pubkey`, `parse_signature` | ring and member read the same key alike |
| transcripts, randomness | `hasher.rs`, `rng.rs` | hasher state | `insert_point`, `finalize` | equal points hash alike |
| examples, benches, browser test | `tom256/{examples,benches,wasm-test}` | - | - | the shapes of the inputs |
| ring signatures | `prototypes/` | challenges, responses, key image | sign, verify, linked variants | the ring closes for every position, for what was signed only |
| Merkle circuit | `merkle-tree-example/` | circuit parameters, proof | parameters, prove, verify | a proof verifies exactly for a key at its place |
| ECDSA draft | `ecdsa-zkp/` | - | unfinished | - |
| curv secret sharing | `curv/secret_sharing` | polynomial, commitments, shares | share, share at points, validate, reshare, reconstruct, map | the shares in force give the secret, fewer do not |
| curv two-party protocols | `curv/twoparty` | the sessions of two parties, messages | coin flip, two Diffie-Hellman exchanges | a common result, which neither chose after the fact, or an error |
| curv sigma proofs | `curv/proofs` | statement, commitments, answers | prove and verify of seven proofs | complete; two answers give a witness away |
| curv hashing, commitments | `curv/hashing`, `curv/commitments` | HMAC state, tree | codes, hash to scalar, build and verify Merkle proofs | only what was hashed verifies |
| curv integers | `curv/arithmetic` | `BigInt` | egcd, modular operations, samplers, prime test, next prime, bytes | the residues; the range; primes |
| curv curves | `curv/mod.rs`, `secp256_k1.rs`, `bls12_381`, `wrappers` | points and scalars, `None` for some zeros | operators, conversions, serialization | the right element, in the prime order subgroup |

### How they interact

The backend hands out a ring (texts).  `lib.rs` parses it (`parse.rs`) and the
member's key and signature.  `ZkAttestProof::construct` computes R from the
signature, commits to the key's coordinates and to s/r, makes a
`MembershipProof` of the x coordinate in the padded ring, and an `ExpProof`
that s1 * R = P + q_point; that one makes a `PointAddProof` for every even bit of
its challenge, and each of these makes products and equalities.  `verify` is
called by the backend with *its* ring, recomputes q_point from R, and calls the
two verifications.  Each of them collects its equations as `Relation`s into a
`MultiMult` and asks whether `evaluate()` is the identity.

Within curv, the curves' wrappers stand on two libraries and on `BigInt`; the
sigma proofs, commitments and sharing on the wrappers and the hash extensions;
the two-party protocols exchange commitments and sigma proofs.  Sharing's dealer
and holders share only the VSS and the shares: nothing numbers the generations.

### Hazards

The full list, each at its line with the properties aimed at it, is in
`PROJECT.json`.  The ones that shaped the models:

- the reduction of `evaluate` works in place on a heap whose order among equal
  scalars is unspecified, and stops at the first zero;
- registers without a spare bit above the modulus, and decoding that does not reduce;
- complete addition formulas without branches, run on the inputs that are
  special for textbook formulas; `to_affine` of the identity;
- digit strings of different lengths zipped together;
- random values that hit a special case with negligible probability in the real
  group, hence in no test: a zero factor in a polynomial, an alpha that leads to
  the identity or to the committed point itself, a code with a leading zero byte;
- the verifier's ring and security level need not be the prover's;
- commitments that both ends derive from others, each in code of its own, and
  statements hashed in an order that is written down twice;
- text handling of keys that happen to begin with the tag byte;
- neither end verifies the ECDSA signature: the attestation must imply it;
- shares of several generations, dealt at other points than 1..n;
- messages of two sessions taken for one another, altered or repeated;
- negative remainders, and prime tests whose branches few numbers reach;
- operators that macros generate for owned and borrowed operands, and fields
  of a document that come in any order, or twice.

## 2. The modules

| Module | Models | Notes |
|---|---|---|
| `MultiMult` | `multimult.rs` | one action per call and per loop turn |
| `LinearCombination` | what a MultiMult promises | abstract: collect terms, return their sum |
| `ModularArith` | `modular.rs`, `scalar.rs`, `field.rs` | registers of a fixed width; one action per turn of `exp_mod_u256` |
| `Curve` | `point/*`: triples and formulas | plus the chord-and-tangent law as reference |
| `CurveGroup` | the generator and its multiples | `PointOf(k)`, used by the proofs' models |
| `PointArith` | any sequence of calls on two points | a history variable says which multiples they should be |
| `ScalarMul` | `scalar_mul`, `double_mul`, digit strings | points as discrete logarithms, justified by `PointArith` |
| `Polynomials` | the loops of `interpolate`, inverse, powers | pure operators |
| `Interpolation` | `interpolate` turn by turn | |
| `Membership` | `membership.rs`, `pad_ring_to_2n` | construct split at its hash |
| `Parse` | `parse_ring` against `parse_pubkey` | texts as bytes |
| `ExpProof` | `exp.rs` | one action per repetition, on both sides |
| `CommitmentProofs` | `pedersen.rs`, `equality.rs`, `multiplication.rs`, `point_add.rs` | a proof, then a verifier with the same commitments or others |
| `ZkAttest` | `proofs/mod.rs` | composes what `Membership`, `ExpProof` establish |
| `RingSignature` | `prototypes/src` | the signer's and the verifier's way round, hash by hash |
| `MerkleCircuit` | `merkle-tree-example/src` | parameters, proof and tree change independently |
| `DensePolynomial` | `secret_sharing/polynomial.rs` | degree, evaluation, operators; pure |
| `Sharing` | `feldman_vss.rs` | dealer, holders, whoever reconstructs |
| `DealtSecret` | what sharing promises | abstract: reveal the secret dealt or refuse |
| `SigmaProofs` | `curv/proofs` | all seven, with one random oracle |
| `TwoParty` | `curv/twoparty` | two sessions of each party and a network |
| `Hashing` | `ext.rs`, `merkle_tree.rs` | codes, hash to scalar, trees |
| `BigIntegers` | `big_native.rs`, `ring_algorithms.rs`, `samplable.rs`, byte forms | the num-bigint build |
| `Primes` | `big_native/primes.rs` | one action per round, squaring, step of the Lucas chain |
| `CurveWrappers` | `wrappers/*`, `secp256_k1.rs`, `bls12_381/g1.rs` | registers of a caller, over either library |
| `CurveSerde` | `wrappers/serde_support.rs` | documents of other authors, field by field |
| `ByteForm` | `to_bytes`, `from_bytes` of `big_native.rs` | the bytes that `BigIntegers`, `Hashing` share |
| `Outcomes` | - | `None`, `Err` and `Panic`, which curv's components share |
| `Iteration`, `Scalars` | - | partial sums and loops as recursive functions; the scalars of a group |
| `MultiMultProofs`, `ArithmeticProofs`, `TomProofs`, `MembershipProofs`, `ProtocolProofs`, `CurvProofs` | - | the theorems (section 4) |
| `NatTheorems`, `PolynomialTheorems` | - | the lemmas they share |
| `MCMultiMult`, `MCArithmetic`, `MCAttestation`, `MCCurv`, `MCProtocols` | - | the passing runs |
| `MCExpProof`, `MCPrimes`, `MCCurveSerde` | - | constants for the runs of section 6 |

**Composition.**  The four large runs put components of one layer into one
module: a variable `part` says which of them runs in a behaviour, each component
keeps its own initial states and actions, and the variables of the others keep still.
Components with theorems are EXTENDed, so that a run checks the very
definitions that the theorems are about; because several stand side by side their
definitions have names of their own (`MulSpec`, `ExpVerify`, `RingInit`...).  One that
does not run stays in an initial state.  The other components are instances: their
constants are substituted by `INSTANCE ... WITH` there, and their properties
begin with the part they are about.
Components that do exchange data are composed inside their modules: `ZkAttest` on
the statements of `Membership` and `ExpProof`, `TwoParty` on `SigmaProofs`'.

**Correspondence.**  `PROJECT.json`'s `map` names the lines of each definition.
The abstractions that recur:

- *Groups.*  Where coordinates do not matter (`MultiMult`, `ScalarMul`, `Sharing`,
  `TwoParty`, `RingSignature`) a point is its discrete logarithm, and
  addition is addition: `PointArith` checks that on the triples.  Where they do
  (`ExpProof`, `CommitmentProofs`, `ZkAttest`) points are multiples of the
  generator of a small curve and their coordinates are computed.  Where there are
  two generators (`Membership`, `CommitmentProofs`, `SigmaProofs`) a commitment
  is the pair of its exponents, because nobody knows a relation between them.
- *Hashing.*  A hash is a random oracle: a challenge is any value, the same at
  both ends when both hash the same, and unrelated when they do not.  Hashes
  in trees are free: equal only if what was hashed is.
- *Randomness.*  Every random scalar the code draws is a nondeterministic choice,
  zero and other degenerate values included where the code admits them
  (`Scalar::random` of curv is never zero; tom256's may be).
- *Errors.*  `Err`, `Ok` and a panic are three outcomes, and a panic is reached
  where the code indexes, slices, subtracts or unwraps out of range.

**State and actions**, by module:

- `MultiMult`: `pairs`, `known`, `relation` as in the code; `live` is the set of
  slots in the heap, and `Reduce(a, b)` takes *any* greatest a and any greatest
  of the rest as b, which covers every layout of the binary heap.  `total` is a
  history of what was handed in.
- `ModularArith`: `regs` are values of `Scalar` or `FieldElement`, `means` a
  history of the residues they stand for, `read` which came from `Deserialize`;
  `loop` holds the locals of `exp_mod_u256`, with `Exponentiate` its turn.
- `PointArith`: `lhs`, `rhs` are triples, driven by `AddAssign`, `Sub`, `Double`,
  `Normalise` (to affine and back) and `Swap`.  The reachable triples are all the
  representatives the code can produce from the generator.
- `ScalarMul`: `ScalarMul`/`DoubleMul` are calls, `ScalarMulDigit`/
  `DoubleMulDigit` a loop turn with four doublings and the table lookups.
- `Interpolation`: `Start` (panics without points), `MasterStep` is a turn of the
  loop over `x`, `TermStep` one of the loop over the values.  `Interpolate` of
  `Polynomials` is the whole call, for `Membership`; `TermsInterpolate` says that
  it is what the turns come to.
- `Membership`: `ConstructMembership` (up to the hash; panics on a ring of one),
  `HashMembership`, `ChangeKeyRing` (the backend's ring is not the prover's, and may
  be empty, which `verify` answers with an error),
  `VerifyMembership`; `Verdict` is what `verify` would answer to a challenge.
- `Parse`: `Store` puts a member's key into the ring as a whole key, as an x
  coordinate alone or damaged: cut off anywhere, with a byte too many, or with a
  byte of x lost; `ParseEntry` is a turn of `parse_ring`'s loop.
- `ExpProof`: `DrawAlpha`, `Hash`, `RespondOdd`, `RespondEven`, `ReturnProof` are
  `construct`, `ExpVerify`, `Open`, `Evaluate` are `verify`; indices opened are any
  the code's shuffle can produce.  What a `PointAddProof` establishes is one
  operator there.
- `CommitmentProofs`: `EqualityConstruct`, `MultiplicationConstruct`,
  `PointAddConstruct`, each with its secrets, draws and challenge; `CommitVerify`
  takes the same commitments or others.
- `ZkAttest`: `Construct`, `ChangeRing`, `Verify`, the checks in their order.
- `RingSignature`: `Sign` up to the first challenge, `SignTurn` a hash of the
  signer's loop, `Close` the response at its own place, `Alter` what may change on
  the way, `Verify`, `VerifyTurn` and `Answer` the verifier's; `asked` and `told`
  are what each had hashed.
- `MerkleCircuit`: `Setup`, `ProveMembership`, `VerifyMembership`, and `Rebuild` of the tree
  in between.
- `Sharing`: `vss` is the sequence of VSS, one per generation, `share[i]` what
  party i holds, `gen[i]` of which generation (0 once damaged).  `Share`,
  `ShareAtIndices` and `Reshare` are the dealer's calls, `Follow(i)` adds party i's
  part, so that some have followed and others not when `Reconstruct` is called,
  by reconstruct, by reconstruct after validation, or by mapped shares.
- `TwoParty`: `one[i]`, `two[j]` are sessions, `msgs` all messages sent, from
  which a party may take any of the right kind at any time, or none: loss,
  repetition, delay, reordering and mixing of sessions.  `Change` alters one.
  The actions bear the names of the code's functions.
- `SigmaProofs`: one `...Prove` per proof; `Verify` by someone who holds that
  statement or a neighbouring one; `oracle` is what was hashed, with its answers.
- `Hashing`: `Code`/`VerifyBigint`, `ScalarTurn` a turn of `result_scalar`'s loop,
  `CreateTree`, `BuildProof`, `AlterProof`, `VerifyProof`.
- `BigIntegers`: `Start`, `EuclidTurn`, `EuclidReturn`; `Sampler` and its `Draw`s;
  the modular operations and byte forms are operators compared with their
  definitions on all operands.
- `Primes`: `Screen` (small factors), `Round`, `Square`, `RoundsDone`, `SearchP`,
  `Chain`, `ChainDone`, `Doublings` are `is_probable_prime`; `Candidate` is a step
  of `next_prime`'s sieve.
- `CurveWrappers`: `points`, `scalars` are variables of a caller, `logs` and
  `residues` histories; one action per operator or conversion, with the ways to
  hand over operands (owned, borrowed, generator) as parameters.
- `CurveSerde`: `Extend` adds an entry to somebody's document while it is read;
  `Visit...` is a visit of a field, `End` the end of the map or sequence.

## 3. The runs

Passing runs, with the modules whose actions they take:

| Run | Modules | Properties |
|---|---|---|
| `multimult` | `MultiMult`, `LinearCombination` | `TypeOK`, `KnownCoalesced`, `HeapHoldsTheRest`, `SumPreserved`, `ReductionProgress`, `ImplementsNaiveSum`, `CallsReturn` |
| `arithmetic` | `ModularArith`, `PointArith`, `ScalarMul` | `ResiduesAgree`, `PowersAgree`, `PointsCorrect`, `ComparisonsDecide`, `ScalarMulCorrect` |
| `attestation` | `ZkAttest`, `Membership`, `Interpolation`, `Parse`, `ExpProof`, `CommitmentProofs` | `AttestsSignature`, `MemberAccepted`, `InterpolationCorrect`, `MembersProve`, `OtherRingsRefused`, `RingsAreTheKeys`, `ExponentsProve`, `EvenBitsDecide`, `CommitmentProofsDecide` |
| `curv` | `BigIntegers`, `Primes`, `CurveWrappers`, `CurveSerde`, `SigmaProofs`, `Hashing`, `MerkleCircuit` | `BezoutHolds`, `NumbersAgree`, `SamplesTheRange`, `TestsDecide`, `NextIsPrime`, `WrappersAgree`, `DocumentsDecide`, `HonestProofsVerify`, `TwoAnswersGiveWitness`, `HashesDecide`, `CircuitsDecide`, `Returns` |
| `protocols` | `Sharing`, `DealtSecret`, `TwoParty`, `RingSignature` | `SharesReconstruct`, `SharesValidate`, `ThresholdHides`, `FirstMessageBinds`, `PartiesAgree`, `SignaturesDecide`, `ImplementsDealtSecret` |

The runs with an expected violation are in section 6.

**What they show.**

- `multimult`: whatever the order of the calls, the batch is the plain linear
  combination of the terms; every turn of the reduction makes the sum of the
  scalars smaller, and the calls return.
- `arithmetic`: *Registers.*  No operation loses a carry, although the modulus
  fills the register; an unreduced value, which only decoding makes, is harmless
  but as a subtrahend, negated, or when both summands are.  The square and multiply
  loop keeps its invariant for every base and exponent.  *Points.*  The
  formulas agree with the chord-and-tangent law for all pairs of reachable
  triples, and p + q and q + p are the same *triple*, on which the transcripts of
  `PointAddProof` rely (it adds in one order when it proves and in the other when
  it verifies).  *Multiplication.*  `double_mul` is right for scalars of different
  lengths, zero (the empty string) included.
- `attestation`: *Interpolation.*  The polynomial passes through the points; one
  that occurs twice is left out in silence, as its denominator is zero.  *Membership.*  Honest proofs verify for every position, a_j and
  challenge, *except* when one of the f_0j is zero: its "inverse" is 0 and the
  coefficients are wrong.  The property has that provision (`NoZeroFactor`); it
  does not hold without.  `OtherRingsRefused` counts challenges: a proof is
  accepted with a ring that has another key at its place for at most log2(n) of
  them, the soundness error of the protocol; with an empty ring it is for none.
  *Parsing.*  `RingsAreTheKeys`: an entry that has all of its member's x, be it a
  whole key, a key cut off behind x, or x alone, is that key, unless x begins with
  the tag's byte.  An entry with the same provision that is too long makes
  `parse_ring` return an error, one with less than x left makes its slice panic
  (section 6), whichever comes first, and nothing else ends it: a key that has
  lost a byte of x is long enough and is read as another number.  *Exponentiation.*  A wrong
  statement passes only if every opened bit is odd.  A true one verifies unless a
  repetition adds equal or opposite points.  *Commitments.*  The verifier of an
  equality, product or sum derives the prover's commitments, and what is not true,
  or was proved of others, is refused but by one challenge (commitments that are all
  the identity bind to nothing, and the property excepts them); all triples of points
  of the curve but the identity are tried, those with P = Q and P = -Q among them.
  *Attestation.*  Acceptance implies a valid ECDSA signature, unless the message
  hash is 0 as a scalar, in which case r drops out of the equation: the hash of a
  guild is what it is, so this has negligible probability, but it is a provision
  the property needs.
- `curv`: *Integers.*  Euclid's loop on operands of either sign, residues,
  bytes; the samplers stay in their range and reach all of it, and return
  (`Returns`).  *Primes.*  `TestsDecide` says that no composite passes *after a
  round with base two*: a round whose squares end in -1 leaves all the rounds that
  remain (section 6).  It also bounds what that gives away (`RoundsHold`): a number
  that passes is a strong probable prime to every base tried, and base two is missing only after
  one whose power had to be squared into -1.  *Wrappers.*  A register always holds the library's one
  form of its element, the prime order subgroup is never left, and no `expect`
  panics.  `from_coords` gives the point with the coordinates or an error, with two
  provisions: coordinates longer than the buffer overwrite each other in secp256k1's, and
  the number with the flag of infinity gives BLS12-381's zero point.  *Documents.*  Only a document of the own
  curve, each field once, is read.  *Sigma proofs.*  Each is complete and has
  special soundness (any two answers that verify give the witness, for the low degree
  proof a polynomial of at most that degree although answers of a higher one are
  tried), of a statement fixed before the hash: the proof of low degree
  does not hash its alphas and its degree, and that of ElGamal encryption of a
  discrete logarithm not its Q, so that a statement chosen afterwards is not
  covered.  *Hashing, circuit.*  Codes and Merkle proofs verify for what they
  were made of only, and a hash made a scalar is the first counted one below the order.
- `protocols`: *Sharing.*  Any threshold + 1 shares of the generation in force
  give the secret, while other parties have not followed or hold damaged ones;
  a share validates against its own generation's VSS and no other; with each share
  validated first, sharing is a `DealtSecret` whatever is mixed.  `ThresholdHides`
  bounds what threshold shares tell: `Scalar::random` draws no zero, so a few
  secrets are excluded, at most as many as the threshold.  *Two parties.*  Party 2
  is bound by the first message, and two sessions that finish with each other
  agree, unless one of the messages that nothing protects was altered: party 2's
  seed, a share of the plain exchange, or the share sent *beside* the proof of
  knowledge, which is not compared with the proof's.  *Ring signatures.*  The ring
  closes for every place of the signer, and an altered or misplaced signature makes
  the verifier hash something the signer did not, unless a challenge is zero or two
  alterations cancel (`OthersAskAnew`).

**Instances and bounds, and why they are enough.**  The group and field sizes are
small primes for which all the relations between exponents that the properties
distinguish occur (equal, opposite, zero, larger than the order).

- `multimult`: order 3, two points, three slots, relations of two.  Three pairs are
  the least for which the reduction makes several turns with ties and a leftover.
- `arithmetic`: modulus 13 in registers of 4 bits (two residues of 13 add up beyond
  the register, and 13..15 are unreduced values), two registers; y^2 = x^3 + 3 over
  F_7 of order 13; a group of order 31, whose scalars have none, one or two
  hexadecimal digits, as windows are of four bits.
- `attestation`: y^2 = x^3 + 7 over F_13 of order 7, so that x coordinates exceed
  the order or are 0 as scalars; rings of none to three, of which three need padding,
  one and two do not; messages that are not the guild's of one member only
  (`OthersMessages`), and membership proofs verified with the prover's ring or with
  rings of one key, repeated or not, and none (`OneKeyInTheirs`; `OtherRingsRefused` is
  evaluated for every ring); all a_j, hence all zero factors; security levels 1, where
  `verify` panics, 2 and 3; alphas that make every degenerate case; up to three points
  of F_7, the repeated ones included; rings of two entries with two-byte coordinates,
  one value of a byte being the tag, and a modulus that one coordinate exceeds, each
  entry of any length from none to one byte more than a key's.
- `curv`: operands -13..13, sizes and lengths up to 4 and bytes of two bits (four values), so that ranges lie on
  both sides of a byte's edge; numbers that reach each branch of the prime test;
  curves of 7 and of 21 elements, the latter with a subgroup of 7, and coordinates
  (`Given`) of all of them, of the zero point's flag and of no point; witnesses, bases and polynomials over
  F_3, and answers of up to three coefficients (`MaxAnswer`), more than any degree claimed allows; two-byte codes; trees of 1..5 leaves, full and not; circuits of depth one, two.
- `protocols`: three parties, thresholds 0..2, points up to 4, one reshare, one damaged
  share, every polynomial over F_5; two sessions of each party and one altered
  message; rings of one to three with a repeated key.

`MaxPairs`, `MaxRelation`, `MaxPoints`, `MaxRing`, `MaxMembers`, `MaxEntries`, `MaxAnswer`, `MaxParties`, `MaxThreshold`,
`MaxReshares`, `MaxChanged`, `MaxCounter`, `MaxLeaves`, `MaxDepth`, the two bounds above and the sets of
inputs in the `MC` modules are the only bounds; they are in the guards or in `Init`.
`CHECK_DEADLOCK` is off because a call simply ends.

**Fairness.**  `MultiMult` states weak fairness of `DrainPair` and `ReduceStep`, the
bodies of two loops of a single thread.  `BigIntegers` states it of the turns of
Euclid's loop, and of `Draw`: a sampler's loop is run by a single thread, and a
random generator that is asked again and again some time gives a number that is
accepted.  (`Draw` is enabled only while there is one: for
`strict_sample_range(l, l + 1)` there is not, and `Returns` excludes it.)  Nothing
obliges a caller to make a call, or the network to deliver, so nothing else
has fairness.

## 4. The theorems

They are proved for every value of the constants that meets the assumptions
named, all of which a passing run evaluates on its instance.  Below, "TLC" after an
invariant says that it was checked as an invariant of its component before it
was proved.

| Module | Theorem | Statement |
|---|---|---|
| `MultiMultProofs` | `TypeCorrect` | `Spec => []TypeOK` |
| | `KnownCorrect` | `Spec => []KnownCoalesced` |
| | `HeapCorrect` | `Spec => []HeapHoldsTheRest` |
| | `SumCorrect` | `Spec => []SumPreserved` |
| | `ReductionDescends` | `Spec => ReductionProgress` |
| | `Refinement` | `Spec => ImplementsNaiveSum` |
| `ArithmeticProofs` | `TypeCorrect` | `Spec => []TypeOK` of `ModularArith` |
| | `ResiduesCorrect` | `Spec => []ResiduesAgree` |
| | `InversesCorrect` | `Spec => []PowersAgree` |
| | `MultiplicationCorrect` | `MulSpec => []ScalarMulCorrect` |
| `TomProofs` | `AttestationSound` | `Spec => [](TypeOK /\ AttestsSignature)` |
| | `AttestationComplete` | `Spec => []MemberAccepted` |
| | `CommitmentsDecide` | `CommitSpec => []CommitmentProofsDecide` |
| | `ExponentsAreProved` | `ExpSpec => []ExponentsProve` |
| | `EvenBitsSettle` | `ExpSpec => []EvenBitsDecide` |
| `MembershipProofs` | `InterpolationIsCorrect` | `PolySpec => []InterpolationCorrect` |
| | `MembersAreProved` | `MemberSpec => []MembersProve` |
| | `OtherRingsAreRefused` | `MemberSpec => []OtherRingsRefused` |
| | `RingsAreReadRight` | `ParseSpec => []RingsAreTheKeys` |
| `ProtocolProofs` | `FirstMessageSettles` | `PartiesSpec => []FirstMessageBinds` |
| | `BothEndWithTheSame` | `PartiesSpec => []PartiesAgree` |
| | `OnlyTheSignersCloses` | `RingSpec => []SignaturesDecide` |
| | `SharingTypes` | `Spec => []TypeOK` of `Sharing` |
| | `SharesValidated` | `Spec => []SharesValidate` |
| | `SharesReconstructed` | `Spec => []SharesReconstruct` |
| | `ThresholdSharesHide` | `Spec => []ThresholdHides` |
| | `SharingRefinement` | `Spec => ImplementsDealtSecret` |
| `CurvProofs` | `EuclidCorrect` | `Spec => []BezoutHolds` of `BigIntegers` |
| | `NumbersCorrect` | `Spec => []NumbersAgree` |
| | `SamplersCorrect` | `Spec => []SamplesTheRange` |
| | `HonestProofs` | `SigmaSpec => []HonestProofsVerify` |
| | `WitnessExtracted` | `SigmaSpec => []TwoAnswersGiveWitness` |
| | `HashesVerify` | `HashSpec => []HashesDecide` |
| | `CircuitsVerify` | `CircuitSpec => []CircuitsDecide` |
| | `DocumentsRead` | `SerdeSpec => []DocumentsDecide` |
| | `WrappersCorrect` | `WrapSpec => []WrappersAgree` |

**Shared lemmas.**  `NatTheorems` has what every module needs: induction over the
natural numbers as a *set* (the library's theorems with operator parameters cannot
be instantiated), the existence of functions defined by recursion over them, loops
and partial sums (`Iteration`), uniqueness of remainders, congruence as a
relation `Same`, inverses modulo a prime.  `PolynomialTheorems` has what is true of
the polynomials of `DensePolynomial` for every prime order (`PrimeOrder`): that their
value is the sum of their terms, hence linear in the coefficients (`EvaluateSum`,
`EvaluateCombined`), and interpolation at zero at distinct points
(`InterpolatedAtZero`).  The latter is proved without dividing polynomials, on intervals of points:
if the weights of the points lo..hi-1 and those of lo+1..hi give the constant terms of
the powers they should, so do those of lo..hi of one power more (`MorePoints`), because
dropping a point changes each weight by a factor that the code's products show
(`WeightFacts`).

**`MultiMult`.**  *Assumptions*: `OrderAssumption` (a positive order),
`PointsAssumption`, `NoResultAssumption`, `BoundsAssumption`.  The invariants are
not inductive one by one: that `evaluate` returns the sum needs that what the heap
no longer holds has scalar zero, which needs that the sum was right before, and
types throughout.  `IInv` conjoins the four, and adds that a drain in progress has
pairs left, that a relation holds points the callers may hand in (for the
refinement), and that there is no result before the end.  The arithmetic is in
`InsertedFacts` (what coalescing does to the sum), `ReduceFacts` (one turn of
Bos-Coster keeps the sum modulo the order), `ReturnFacts`, `SmallFacts`.
`Refinement` maps the three outcomes of a step to collecting a term, evaluating, or
stuttering.

**`ModularArith`.**  *Assumption*: `ModularAssumption`, whose primality serves
`InversesCorrect` only.  `IInv` conjoins `TypeOK`, `ResiduesAgree` and `PowerKept`:
the register that `ExpReturn` writes has the right residue because the power was
kept at every turn, which needs the locals to be reduced and the registers to be
left alone meanwhile.  `ApplyFacts` and `ResidueFacts` are about one operation (it
wraps where the code's register does, and depends on residues only if the operands
stand it), `TurnFacts` about one turn of the loop.  That the exponent p - 2 leaves
the inverse is `Fermat`: the multiples of a residue permute the residues.

**`Interpolation`.**  *Assumptions*: `OrderAssumption` of `Scalars` (a prime order), and
`BoundsAssumption`, for any number of points.  `PolyIInv` (TLC) says that `s` and
`coeffs` are what `MasterLoop` and `TermLoop` make of the points done.  The rest is
about these two functions.  One turn over `x` multiplies the polynomial in `s` by
(v - x[i]), so that it is a product of roots (`MasterHasTheRoots`).  `Phi` is its
derivative, which at a point that occurs once is the value of the synthetic
quotient there, and not zero, and at a point that occurs twice is zero, so that its
"inverse" is 0 and the term falls out.  The quotient times (v - x[k]) is the master
polynomial, so it vanishes at the other points.  Each of these is an
induction over `Horner`'s loop, with the equations of one turn put into lemmas of
their own.

**`Membership`.**  *Assumptions*: a prime order, keys among the scalars, rings of at
most as many members as the order (`MaxMembersAssumption`: the indices at which
construct interpolates are distinct scalars), masks that are scalars.  `MemberIInv`
(TLC) says what was committed, and that an answer is `Verdict`'s.  The verifier's `Weight` of a
place k is the product of the prover's factors at k, a polynomial in the challenge;
its degree is the number of bits in which k is the index, so that only the index
has the full degree m, with the coefficient 1.  `MembersAreProved`: the weights of all
2^m places sum to c^m, hence the weighted distances from the key are a polynomial
of a degree below m, whose m coefficients the interpolation has found as long as
no factor is zero: two polynomials of that degree which agree at m points agree.
`OtherRingsAreRefused`: with another key at the index the leading coefficient of what
is accepted only if zero is the difference of two keys, and a polynomial that is not
zero has no more roots than its degree (`RootBound`, from the factor theorem); with a
longer ring `verify` panics, with a shorter one the mask of the key's commitment is
in the leading coefficient of the second component, whence that provision.

**`Parse`.**  *Assumptions*: coordinates of at least one byte, and bytes, moduli
and lengths that are such.  `ParseIInv` (TLC) says that the entries read so far were found good,
that their numbers are those of the stripped texts, and that the loop was left early
only at an entry with that verdict.  The lemmas are about `Stripped`: what
`trim_start_matches` takes from every form of an entry, cut, too long or gapped, whose
coordinate does not begin with the tag, and hence how long the rest is.

**`ScalarMul`.**  *Assumption*: `MulAssumption`, a positive order, points of the group,
and strings long enough for the scalars.  `MulIInv` says that the accumulator is the
multiple by the digits read so far, that the two strings are aligned, and that the
second is empty for `scalar_mul`.  `PrefixFacts` gives the value of a string its
recursion, `UnpaddedFacts` that skipping zeros does not change it.

**`ZkAttest`.**  *Assumption*: `AttestAssumption` (a prime order, members with keys);
of the curve, only that its points have coordinates.  `IInv` says that the proof
is the one made of the input, and exists only if the input lets it be made.
Soundness is then the equation of ECDSA: the statement of the exponentiation proof
solved for s, with the inverse of r; and that padded rings are equal only if their
members are.

**`CommitmentProofs`.**  *Assumption*: `CommitAssumption` (a prime field, draws and values in
it).  `CommitIInv` (TLC) says of each kind which commitments, masks and responses
were made, and that a verdict is the check of those, perhaps altered.  The lemmas
are the algebra of pairs of exponents: `AnswerOpens`, `OtherValue` and
`TwoChallenges` turn each relation into a linear equation in the challenge, which has
all challenges as solutions or one; `AdditionMade`'s slope is the chord's.

**`ExpProof`.**  *Assumptions*: `ExpAssumption`, and `GroupLaw`: the multiples of the
generator lie on the curve and add up by chord and tangent as their multipliers do.
This is the associativity of the group law, a classical fact about every elliptic
curve and a polynomial identity far beyond the SMT solver; TLC evaluates it on the
instance.  `ExpIInv` (TLC) has four parts, for the secrets, the repetitions made so far,
those opened, and the end.  `MultiplesDiffer`, `ZeroIsNoMultiple` (the order is odd)
and `OppositePoints` say what coordinates tell of multiples, `SumShown` and
`OnlySumsShown` what a `PointAddProof` establishes.  To `EvenBitsDecide` they give
that one even bit opened settles the statement.

**`TwoParty`.**  *Assumption*: `PartiesAssumption` (a positive order, seeds among the
scalars), for any number of sessions and of altered messages.  `PartiesIInv` says
of every message in the network that what it claims is its sender's own secret, as long as
the sender has not given up and the message was not altered where that can pass (a
commitment stays bound, and an altered one to a share opens to none); and of every
session that has ended that its result was computed from its secret and from a message
in the network of the kind it waited for.

**`RingSignature`.**  *Assumption*: `SignatureAssumptions` (a prime order, of use for
misplaced signers only).  `RingIInv` (TLC) is in parts after the phases: what the
signer has hashed at each place visited, the signature made of it, what the verifier
has hashed, the verdict.  `RingCloses` follows as both compute one challenge at
every place; `OthersAskAnew` by cancelling: an altered response or image leaves
an unequal query, unless the challenge is zero.

**`BigIntegers`.**  *Assumptions*: `BigIntAssumption` (operands that are integers) and
`ByteAssumption` (a byte of some number of bits).  `Steps`, the invariant of Euclid's
loop, says that both triples combine the operands, have their common divisors, and
are zero together only if the operands are.  `AbsFacts` and the lemmas after it are
about division that rounds towards zero, where remainders may be negative.
`NumbersCorrect` reads digits, leading zeros or not, by induction over the loop of
`from_bytes` (`DigitsRead`): after i of k bytes the value is the number without its last
k - i digits.  `SamplersIInv` says what a sampler in its loop was asked for;
`SamplersCorrect` follows as the bytes hold the bits (`BytesForFacts`), shifting them
reaches every number of that many bits (`SamplesFacts`), and the range has no more
(`LengthFacts`).  That it some time returns is `Returns`, a liveness property.

**`SigmaProofs`.**  *Assumption*: `SigmaAssumption` (a prime order, degrees that are
finite).  `SigmaIInv` (TLC) says that what was proved belongs to its witness, that the
proof verifies with the challenge the oracle gave for what was hashed, and that
a verdict is that of the check.  The points are a module over the integers
(`PlaneFacts` and its kin): completeness is distributivity.  Extraction multiplies
the difference of two answers by the inverse of the difference of the
challenges; for the proof of low degree this takes place coefficient by coefficient,
with `EvaluateCombined`, for answers of any two lengths; `CombinedBelow` says that the
result has no coefficient above those that the check of the degree let through.

**`Sharing`.**  *Assumptions*: `PrimeOrder`, `SharingAssumption` (points below the order,
at most as many parties as points; values that are no scalars for failures), for any
threshold, choice of points and number of reshares.  `SharingIInv` (TLC, with two
reshares) is `Undealt`, or the conjunction of `Generations` (every VSS commits to a
polynomial of threshold + 1 coefficients whose first is the secret), `Holders` (each
party is of the generation in force, of the one before, or damaged),
`SharesHeld` (an undamaged share is its generation's polynomial at its party's point,
of the first generation or at the points 1..n), `PartsLead` (the parts of the last
reshare are the differences between the two generations) and `AnswersKept` (what was
reconstructed was computed from the shares as they are).  `PartsLead` is what makes it
inductive: a part added to a share that was valid makes it valid for the next VSS
(`ReshareValue`).  `SharesValidated` adds that a part is zero if it changes nothing;
`SharesReconstructed` puts `InterpolatedAtZero` under the two ways the code has of
combining shares (`InterpolateGives`, `MappedGives`).  For `SharingRefinement` the
history of a share does not matter: what passes validation is the polynomial's
value, so that checked shares give the secret, or are refused.

`ThresholdSharesHide` counts.  At most threshold parties are a polynomial's roots that is not zero at
zero (`RootsMade`, one root at a time); the sampled polynomial, moved along any multiple
of that one, keeps all the shares they hold (`MovedKeeps`) and gets another constant
term (`MovesApart`).  It is one that could have been sampled unless the move makes a
coefficient zero, which for each of the threshold others one multiple does at
most, because the coefficient was drawn from nonzero scalars (`MostAreLeft`).  The invariant
that this needs besides `SharingIInv` is `Sampled` (TLC): as long as there
was no reshare, what is committed to is what was sampled.

**`Hashing`.**  *Assumptions*: `ByteAssumption`, `HashAssumption` (lengths that are
such, inputs that are integers) and `OutcomesDiffer`.  `HashInv` (TLC) is `TreeInv`
(the tree is of the leaves given, the proof is that of a leaf or an altered one of the
same kinds of parts, and the answer is the check of it), `CodeInv` (every code is
the answer to what was asked) and `ScalarInv` (every count before the present one
was hashed, to no less than the order).  The heap of hashes is filled from its end:
`NodesFill` is the induction over it.  `ClimbsUp` follows the lemmas of a
leaf's proof to the root.  `ClimbsDown` goes the other way: hashes are free, so that
what leads to the root at one level is the node and its sibling at the one below, up to the
leaf.

**`MerkleCircuit`.**  *Assumption*: `CircuitAssumption` (trees of at most some depth, keys that
are not the default leaf's byte, and a name for "no path" that is no path).  `CircuitInv` (TLC) says that parameters and proof are those of a tree,
perhaps not of the same, and that the verdict is the circuit's constraints with
the public input.  `PathLeads` and `NoPathLeads` are `Hashing`'s two directions for a tree
with levels; `RootsDiffer` adds that unequal trees, of whatever depths, have
unequal roots.

**`CurveSerde`.**  *Assumption*: `SerdeAssumption` (lengths, of which the compressed form's is
less; numbers as valid elements; a name of the own curve that is no outcome).  `SerdeInv` (TLC) is `SerdeTypes`, `Visited` (the name and
the value held are those of entries already visited, and no field was visited twice)
and `Ended`.  The document grows while it is read, so `Visited` speaks of the prefix.
What was written reads back by `WrittenReads`, with the provision that
`scalar_reads_back` (section 6) shows to be needed.

**`CurveWrappers`.**  *Assumptions*: `WrapAssumption` (the order is prime, the cofactor any
positive number; coordinates of two bytes are those of one element of a library at
most; where there is a flag the coordinates are below it), `ByteAssumption` and `OutcomesDiffer`.
Coordinates are an assumption, as the curve's equation is the library's business.
The group of all points is taken to be cyclic, which the libraries' need not be:
what matters is that only the multiples of the generator vanish when they are multiplied by the
order, and of points outside them only that they are refused.
`WrapInv` (TLC) is `WrappersAgree` with the histories below the order.
The argument is one about the two forms of a library: `KeySum`, `KeyProduct` and
their like say that keys which are never zero, with `None` beside them, compute as
residues do, and `PointSum`, `ScalarsCompute` and their like that both libraries do.
`OfElement` says that `from_raw` accepts exactly the multiples of the generator: an
element whose multiple by the order is zero is one, whatever the cofactor (it need not be
prime to the order).  `CoordinatesFound` follows the bytes of `from_coords`, however
short, into the buffer; `ScalarInverted` has the reciprocal of a prime order.
Every way to pass operands is covered by `CalledWith`: only a subtraction is
never called with its operands exchanged.

*Only model-checked*, and why:

- `CallsReturn` and `Returns`: liveness is beyond the prover (the variant of the first is
  `ReductionDescends`).
- `PointsCorrect`, `ComparisonsDecide`: that the complete formulas agree with chord and
  tangent is a set of polynomial identities of high degree.
- `TestsDecide`, `NextIsPrime`: the theory of the strong and the Lucas test; the first is
  true below bounds only that computations have established.

## 5. Not modelled, and why

- `ecdsa-zkp`: a draft that ends before the proof begins.
- Borsh and hex output, `Display`, the WASM glue, address derivation and the
  signature's v byte in `parse.rs`: conversions without state.
- How points become bytes for a hash, and the loop of `hash_to_curve`: left to the
  oracle.
- Levels above 256 (`padded_bits` has no more bits): SEC_PARAM is 60, 10 in tests.
- The zero randomizer of `drain`, with which a relation is not checked: its
  probability is one in the order.
- `big_gmp.rs`, the default build of curv: it hands every operation to GMP, so
  that there is nothing of its own to check.  `BigIntegers` and `Primes` are about the
  build with num-bigint.
- `bls12_381`'s G2, whose code is G1's with other lengths, and the pairing, which is
  the library's.
- Cryptographic hardness: discrete logarithms and hashes are ideal.

## 6. Disagreements found

Seven have a run that TLC must find violated:

- `every_entry_is_the_key`: `trim_start_matches("04")` strips repeatedly, so a key
  whose x begins with byte 04 is another number in the ring than for its owner.
- `lower_levels_verify`: `ExpProof::verify` at a level below that of the proof
  hashes fewer commitments than `construct` did and refuses it, although only a
  higher level is "security level not achieved".
- `reshare_matches`: `reshare` evaluates its polynomial at 1..n, so that shares dealt
  by `share_at_indices` at other points no longer match the new commitments, as
  `feldman_vss.rs:81` says they do.
- `primes_pass`: before it gives up on a P, the Lucas test asks whether n is a
  perfect square by squaring n and taking the root of that.  Each n is one then,
  and the prime 3818929 is refused, although a prime "always returns true".
- `next_skips_none`: the sieve of `next_prime` is filled with quotients where it
  needs remainders; `next_prime(9)` is 13.
- `scalar_reads_back`: a scalar is written to human readable formats as a text and
  read as bytes (`serde_support.rs:432`).
- `codes_verify`: `verify_bigint` compares the code with the bytes of a number, which
  have lost the leading zeros: one code in 256 is refused.

Met on the way, without a run of their own:

- `to_affine` gives the identity z = 1, against the comment of
  `arithmetic/point/mod.rs:16-17`; `AffinePoint::is_identity` is never true and the
  checks at `proofs/exp.rs:142, 287, 334` and `proofs/mod.rs:115` never fire.
  `ExponentsProve` and `EvenBitsDecide` show what still guards the protocol.
- `parse.rs:65` says of the check of an entry's length that it "avoids explicit panics
  by `from_be_hex`".  It compares with the longest form only: an entry with fewer than
  64 digits after the tag is stripped panics in the slice of `parse.rs:69`, and a key
  that has lost a byte of x (126 digits) passes and enters the ring as another number.
  `Parse` reproduces both (`FirstBadEntryDecides`).
- `membership.rs:178-179` calls its unwraps fine; they panic when the verifier's
  ring needs more bits than the proof has.  `Membership` reproduces it.
- `construct` panics for a ring of one member (`proofs/utils.rs:36`), whose padding
  a test accepts; `Membership` reproduces it.
- `primes.rs:168` leaves with `break 'nextrandom` all the rounds that remain, the
  one with base two among them, against "one of the rounds is forced to use base 2"
  (115) and the "100% accurate for inputs less than 2^64" of line 68.  `RoundsHold`
  says what is left.
- `strict_sample_range(l, l + 1)` passes its assertion and never returns.
- Both `g1.rs:69` and `g2.rs:76` of `bls12_381` have the `CURVE_NAME` "bls12_381_1",
  the "canonical name for this curve" by which documents are told apart.
- A doc of `elliptic/curves/traits.rs:176-189` asks that qP is not O where the code
  checks that it is.

## 7. Plan

Done, in this order: `MultiMult` with its proofs; `Curve`/`PointArith`;
`ScalarMul`; `Interpolation`; `Membership`; `Parse`; `ExpProof`; `ZkAttest`;
`CommitmentProofs`; `ModularArith` with its proofs; `Sharing` with `DealtSecret`; `SigmaProofs`;
`TwoParty`; `RingSignature`; `BigIntegers`; `Primes`; `CurveWrappers`; `CurveSerde`;
`Hashing`; `MerkleCircuit`; the composing modules.

Then the theorems of section 4, from the arithmetic upwards: `ScalarMul`, `ModularArith`,
`ZkAttest`, `TwoParty`, `RingSignature`, `CommitmentProofs`, `ExpProof`, `BigIntegers`,
`SigmaProofs`, `Sharing` with its refinement of `DealtSecret`; `Parse`, `Interpolation` and
`Membership`; `Hashing`, `MerkleCircuit`, `CurveSerde`, `CurveWrappers`; what threshold
shares hide.

Left: commutativity of `GeometricAdd` as triples (`SumsHashAlike`).

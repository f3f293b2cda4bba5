------------------------------ MODULE Membership ------------------------------
(***************************************************************************)
(* The membership proof (tom256/src/proofs/membership.rs): one of the keys *)
(* of a ring is the one committed to.  construct is cut in two where it    *)
(* hashes its commitments, because the challenge is not known before;      *)
(* verify gets the ring from the backend, which may hold another one by    *)
(* then ("the ring ... is not explicitly part of this proof",              *)
(* proofs/mod.rs:33-35).                                                   *)
(*                                                                         *)
(* A point of the commitment group is written <<v, w>>, for v * GENERATOR  *)
(* + w * pedersen_generator: nobody knows a relation between the two.      *)
(* Keccak is a random oracle: any scalar can be the challenge of a list of *)
(* commitments, and it is the same at both ends.  drain's randomizers do   *)
(* not cancel: MultiMult shows that evaluate is the sum of the relations   *)
(* scaled by them.                                                         *)
(***************************************************************************)
EXTENDS Polynomials, Sequences, FiniteSets

CONSTANTS Keys,        \* keys of the rings, as scalars
          MaxMembers,  \* bound of the model: members of a ring
          KeyMasks     \* bound of the model: the random masks of the
                       \* commitments, [key, r, s, t, rho]

ASSUME KeysAssumption == Keys \subseteq Scalar
\* No ring has more members than the group, so that the positions of the bits
\* are different scalars.
ASSUME MaxMembersAssumption == MaxMembers \in 1 .. Order
ASSUME KeyMasksAssumption ==
  \A m \in KeyMasks : /\ m.key \in Scalar
                      /\ \A f \in {m.r, m.s, m.t, m.rho} : f \in [0 .. MaxMembers -> Scalar]

VARIABLES keyRing, index, key, \* the prover's arguments; key is the one committed to
          a, masks,            \* its random choices
          commitments,         \* the vectors it publishes
          hashed,              \* what they hash to, the challenge
          theirKeyRing,        \* the ring verify is called with
          stage,               \* "start", "committed", "proved", "verified", "end"
          answer               \* of the last call: "none", "ok", "err", "panic"

memberVars == <<keyRing, index, key, a, masks, commitments, hashed, theirKeyRing, stage, answer>>

\* Rings are indexed from 0 like the vectors of the code.
KeyRings == UNION {[0 .. m - 1 -> Keys] : m \in 1 .. MaxMembers}
EmptyRing == <<>>
TheirRings == KeyRings \cup {EmptyRing}   \* what the backend may hold
Size(rg) == Cardinality(DOMAIN rg)

\* pad_ring_to_2n, of a ring that is not empty: the logarithm it returns and the
\* ring filled up with its first key.
Log2(m) == CHOOSE l \in 0 .. m : TwoTo[l] <= m /\ m < TwoTo[l + 1]
RingLog(rg) == IF Size(rg) # TwoTo[Log2(Size(rg))] THEN Log2(Size(rg)) + 1 ELSE Log2(Size(rg))
PaddedRing(rg) ==
  [j \in 0 .. TwoTo[RingLog(rg)] - 1 |-> IF j \in DOMAIN rg THEN rg[j] ELSE rg[0]]

Bit(k, j) == (k \div TwoTo[j]) % 2

\* The bits of a position in the padded ring.
Bits(rg) == 0 .. RingLog(rg) - 1

\* commit_with_randomness.
CommitWith(secret, randomness) == <<secret % Order, randomness % Order>>

\* Linear combinations of points.
NO_POINT == <<0, 0>>
PlusPoint(p, q)  == <<(p[1] + q[1]) % Order, (p[2] + q[2]) % Order>>
TimesPoint(c, p) == <<(c * p[1]) % Order, (c * p[2]) % Order>>
SumPoints(ps, m) == <<ScalarSum([j \in DOMAIN ps |-> ps[j][1]], m),
                      ScalarSum([j \in DOMAIN ps |-> ps[j][2]], m)>>

-----------------------------------------------------------------------------
\* f_j = l_j * omega + a_j, and what the other value of bit j would give.
F1(l, aj, omega) == (l * omega + aj) % Order
F0(l, aj, omega) == ((1 - l) * omega - aj) % Order
F1s(idx, av, m, omega) == [j \in 0 .. m - 1 |-> F1(Bit(idx, j), av[j], omega)]
F0s(idx, av, m, omega) == [j \in 0 .. m - 1 |-> F0(Bit(idx, j), av[j], omega)]

\* prod_vec: entry k is the product over the bits of k.  It is computed by
\* multiplying the product of all the f0j by the ratios f1j / f0j, whose
\* inverse is 0 when f0j is.  Mutant: the list of ratios taken in reverse order.
ProdVecReversed(m, f0, f1) ==
  [k \in 0 .. TwoTo[m] - 1 |->
     Iterate(ScalarProduct(f0, m),
             [j \in Nat |-> [v \in Scalar |->
                IF Bit(k, m - j) = 1 THEN (v * f1[j - 1] * ScalarInverse(f0[j - 1])) % Order
                                     ELSE v]])[m]]
ProdVec(m, f0, f1) ==
  [k \in 0 .. TwoTo[m] - 1 |->
     Iterate(ScalarProduct(f0, m),
             [j \in Nat |-> [v \in Scalar |->
                IF Bit(k, j - 1) = 1 THEN (v * f1[j - 1] * ScalarInverse(f0[j - 1])) % Order
                                     ELSE v]])[m]]

\* The value at omega of the polynomial whose coefficients cd commits to.
PolyVal(rg, idx, av, omega) ==
  LET m == RingLog(rg)
      full == PaddedRing(rg)
      prod == ProdVec(m, F0s(idx, av, m, omega), F1s(idx, av, m, omega))
  IN  ScalarSum([k \in 0 .. TwoTo[m] - 1 |-> (full[idx] - full[k]) * prod[k]], TwoTo[m])

Coefficients(rg, idx, av) ==
  Interpolate([j \in Bits(rg) |-> j], [j \in Bits(rg) |-> PolyVal(rg, idx, av, j)], RingLog(rg))

\* The four vectors of commitments.
Commitments(rg, idx, av, m) ==
  LET coeffs == Coefficients(rg, idx, av)
  IN  [cl |-> [j \in Bits(rg) |-> CommitWith(Bit(idx, j), m.r[j])],
       ca |-> [j \in Bits(rg) |-> CommitWith(av[j], m.s[j])],
       cb |-> [j \in Bits(rg) |-> CommitWith(Bit(idx, j) * av[j], m.t[j])],
       cd |-> [j \in Bits(rg) |-> CommitWith(coeffs[j], m.rho[j])]]

\* zb, which shows that l_j * (c - f_j) + l_j * a_j is 0.
MaskBit(r, t, c, f) == (r * (c - f) + t) % Order

\* The answers to the challenge.
Responses(rg, idx, av, m, c) ==
  LET f == F1s(idx, av, RingLog(rg), c)
  IN  [fi |-> f,
       za |-> [j \in Bits(rg) |-> (m.r[j] * c + m.s[j]) % Order],
       zb |-> [j \in Bits(rg) |-> MaskBit(m.r[j], m.t[j], c, f[j])],
       zd |-> (m.key * Pow(c, RingLog(rg)) - Horner(m.rho, RingLog(rg), c)) % Order]

-----------------------------------------------------------------------------
\* total: the keys weighted by the products of the answers over the bits.
Weight(fi, c, m, k) ==
  ScalarProduct([j \in 0 .. m - 1 |-> IF Bit(k, j) = 0 THEN c - fi[j] ELSE fi[j]], m)
Total(fi, c, m, full) ==
  ScalarSum([k \in 0 .. TwoTo[m] - 1 |-> full[k] * Weight(fi, c, m, k)], TwoTo[m])

\* The equations verify collects, for a proof that answers challenge c, a
\* commitment to the key and a ring of 2^m keys.
BitRelation(pf, re, c, j) ==
  PlusPoint(PlusPoint(TimesPoint(c, pf.cl[j]), pf.ca[j]), <<-re.fi[j], -re.za[j]>>)
ProductRelation(pf, re, c, j) ==
  PlusPoint(PlusPoint(TimesPoint(c - re.fi[j], pf.cl[j]), pf.cb[j]), <<0, -re.zb[j]>>)
FinalRelation(pf, re, c, keyCommitment, m, full) ==
  PlusPoint(PlusPoint(TimesPoint(Pow(c, m), keyCommitment),
                      SumPoints([j \in DOMAIN pf.cd |-> TimesPoint(-Pow(c, j), pf.cd[j])],
                                Size(pf.cd))),
            <<-Total(re.fi, c, m, full), -re.zd>>)

\* What verify answers: pad_ring_to_2n refuses an empty ring, and the unwraps panic
\* when the ring has more bits than the proof.  Mutant: the relation on the key is
\* never drained.
AnswerWithoutKey(pf, re, c, keyCommitment, rg) ==
  IF rg = EmptyRing THEN "err"
  ELSE IF RingLog(rg) > Size(pf.cl) THEN "panic"
  ELSE IF \A j \in Bits(rg) : /\ BitRelation(pf, re, c, j) = NO_POINT
                              /\ ProductRelation(pf, re, c, j) = NO_POINT
    THEN "ok" ELSE "err"
Answer(pf, re, c, keyCommitment, rg) ==
  IF rg = EmptyRing THEN "err"
  ELSE IF RingLog(rg) > Size(pf.cl) THEN "panic"
  ELSE IF /\ \A j \in Bits(rg) : /\ BitRelation(pf, re, c, j) = NO_POINT
                                 /\ ProductRelation(pf, re, c, j) = NO_POINT
          /\ FinalRelation(pf, re, c, keyCommitment, RingLog(rg), PaddedRing(rg)) = NO_POINT
    THEN "ok" ELSE "err"

-----------------------------------------------------------------------------
MemberInit ==
  /\ keyRing \in KeyRings /\ index = 0 /\ key \in Keys
  /\ a = <<>> /\ masks \in KeyMasks /\ commitments = <<>> /\ hashed = 0
  /\ theirKeyRing = keyRing /\ stage = "start" /\ answer = "none"

\* construct up to the hash, for some position of the ring and a vector a drawn
\* at random.  Of a ring with one member interpolate gets no points and panics.  (An
\* empty ring has no positions: it ends with the same error.)
ConstructMembership(idx, av) ==
  /\ stage = "start"
  /\ index' = idx /\ a' = av
  /\ IF idx \notin DOMAIN keyRing
       THEN answer' = "err" /\ stage' = "end" /\ UNCHANGED commitments
     ELSE IF RingLog(keyRing) = 0
       THEN answer' = "panic" /\ stage' = "end" /\ UNCHANGED commitments
     ELSE /\ commitments' = Commitments(keyRing, idx, av, masks)
          /\ stage' = "committed" /\ UNCHANGED answer
  /\ UNCHANGED <<keyRing, key, masks, hashed, theirKeyRing>>

\* The hash of the commitments.
HashMembership(c) ==
  /\ stage = "committed" /\ stage' = "proved"
  /\ hashed' = c
  /\ UNCHANGED <<keyRing, index, key, a, masks, commitments, theirKeyRing, answer>>

\* The backend replaces the ring it will verify against.
ChangeKeyRing(rg) ==
  /\ stage = "proved" /\ theirKeyRing = keyRing
  /\ theirKeyRing' = rg
  /\ UNCHANGED <<keyRing, index, key, a, masks, commitments, hashed, stage, answer>>

\* The answer of verify to the finished proof, were c the challenge.
Verdict(c, rg) == Answer(commitments, Responses(keyRing, index, a, masks, c), c,
                         CommitWith(key, masks.key), rg)

\* construct returns the proof, and verify is called with it.
VerifyMembership ==
  /\ stage = "proved" /\ stage' = "verified"
  /\ answer' = Verdict(hashed, theirKeyRing)
  /\ UNCHANGED <<keyRing, index, key, a, masks, commitments, hashed, theirKeyRing>>

MemberNext ==
  \/ \E idx \in 0 .. MaxMembers, av \in [Bits(keyRing) -> Scalar] : ConstructMembership(idx, av)
  \/ \E c \in Scalar : HashMembership(c)
  \/ \E rg \in TheirRings : ChangeKeyRing(rg)
  \/ VerifyMembership

MemberSpec == MemberInit /\ [][MemberNext]_memberVars

-----------------------------------------------------------------------------
MemberTypeOK ==
  /\ keyRing \in KeyRings /\ theirKeyRing \in TheirRings /\ key \in Keys /\ hashed \in Scalar
  /\ index \in 0 .. MaxMembers
  /\ stage \in {"start", "committed", "proved", "verified", "end"}
  /\ answer \in {"none", "ok", "err", "panic"}
  /\ stage \in {"committed", "proved", "verified"} =>
       \A v \in {commitments.cl, commitments.ca, commitments.cb, commitments.cd} :
         v \in [Bits(keyRing) -> Scalar \X Scalar]

\* None of the random a_j makes a factor f0j vanish at an interpolation point.
NoZeroFactor ==
  \A omega, j \in Bits(keyRing) : F0(Bit(index, j), a[j], omega) # 0

\* A proof made for the key it is about verifies against the prover's ring,
\* whatever the challenge and the position, padded rings and repeated keys
\* included (tests valid_membership_proof, valid_membership_proof_long), except
\* that a random a_j can make a factor zero, which has no inverse
\* (membership.rs:99).
HonestMembersVerify ==
  /\ stage = "verified" /\ key = keyRing[index] /\ theirKeyRing = keyRing
  /\ NoZeroFactor
  => answer = "ok"

\* A membership proof verifies against the ring it was made for, whatever the
\* position, the challenge and the padding (membership.rs:27-130, 162-231).
MembersProve == MemberTypeOK /\ HonestMembersVerify

\* A proof does not verify against a ring that has another key at its position
\* (test invalid_membership_proof), whose padded length is another, unless the
\* hash happens to be one of at most log2(ring.len()) challenges, or the key's
\* commitment has no mask and the ring is shorter.
OtherRingsRefused ==
  stage = "committed" =>
    \A rg \in TheirRings :
      \/ rg # EmptyRing /\ RingLog(rg) = RingLog(keyRing) /\ PaddedRing(rg)[index] = key
      \/ rg # EmptyRing /\ RingLog(rg) < RingLog(keyRing) /\ masks.key = 0
      \/ Cardinality({c \in Scalar : Verdict(c, rg) = "ok"}) <= RingLog(keyRing)
=============================================================================

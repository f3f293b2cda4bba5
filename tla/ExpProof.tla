------------------------------- MODULE ExpProof -------------------------------
(***************************************************************************)
(* The proof of knowledge of a discrete logarithm on a committed point     *)
(* (tom256/src/proofs/exp.rs): exp * base_gen = point + q_point.  Its      *)
(* repetitions answer one bit of the challenge each: on an odd bit the     *)
(* random exponent alpha is opened, on an even bit alpha - exp, with a     *)
(* proof that the remaining points add up.                                 *)
(*                                                                         *)
(* Points of the base curve are multiples of base_gen = GENERATOR; their   *)
(* affine coordinates are those of a small curve, computed by Curve.  A    *)
(* commitment on the base curve is <<v, w>>, for v * base_gen              *)
(* + w * pedersen.base().generator(); a commitment to coordinates is the   *)
(* coordinates, its opening being sent along.  Keccak is a random oracle.  *)
(***************************************************************************)
EXTENDS CurveGroup, Sequences, Iteration

CONSTANTS Exps,      \* bound of the model: exponents of the callers
          Qs,        \* and their q_point; 0 stands for None as well
          Alphas,    \* and the random alpha of a repetition
          Offsets,   \* how far the committed point is from the right one
          Levels,    \* the security_param construct is called with
          Masks,     \* the randomness of the commitments a
          ExpMask    \* and of the commitment to the exponent

ExpAssumption ==
  /\ Exps \subseteq Scalar /\ Qs \subseteq Scalar /\ Alphas \subseteq Scalar
  /\ Offsets \subseteq Scalar /\ ExpMask \in Scalar
  /\ Masks \in Seq(Scalar) /\ Levels \subseteq 0 .. Len(Masks)

VARIABLES exp, q, point,    \* the secrets and q_point, as multiples of base_gen
          level, alphas,    \* security_param and alpha_vec of construct
          challenge,        \* the bits of the hash construct computes
          proofs,           \* all_exp_proofs
          step,             \* "commit", "respond", "proved", "verify", "end"
          indices, bits,    \* what verify opens, and the bits it computes
          opened,           \* how many of them it has
          valid,            \* all the relations collected so far are zero
          verdict           \* of the last call: "none", "ok", "err", "panic"

expVars == <<exp, q, point, level, alphas, challenge, proofs, step, indices, bits,
             opened, valid, verdict>>

CommitOnBase(v, w) == <<v % Order, w % Order>>

\* to_affine(), which gives the identity coordinates too.
Affine(k) == ToAffine(PointOf(k))

\* PointAddProof: what its four products and two equalities establish of the
\* coordinates committed to (point_add.rs); the slope comes from an inverse, so
\* equal x coordinates are refused.  Mutant: the equality of y is left out.
AddHoldsX(u, v, w) ==
  LET slope == (Inverse((v.x - u.x) % Prime) * (v.y - u.y)) % Prime
  IN  /\ (v.x - u.x) % Prime # 0
      /\ (slope * slope) % Prime = (w.x + u.x + v.x) % Prime
AddHolds(u, v, w) ==
  LET slope == (Inverse((v.x - u.x) % Prime) * (v.y - u.y)) % Prime
  IN  /\ (v.x - u.x) % Prime # 0
      /\ (slope * slope) % Prime = (w.x + u.x + v.x) % Prime
      /\ (slope * (u.x - w.x)) % Prime = (w.y + u.y) % Prime

\* generate_indices: all the vectors its shuffle can leave, cut to idx_num, for a
\* limit of 2 at least: the loop makes limit - 2 swaps, and a difference below
\* zero panics.
Swapped(v, i, k) == [v EXCEPT ![i] = v[k], ![k] = v[i]]
IndexVectors(idxNum, limit) ==
  LET Vector == [1 .. limit -> 1 .. limit]
      shuffled == Iterate({[i \in 1 .. limit |-> i]},
                          [i \in Nat |-> [vs \in SUBSET Vector |->
                             {Swapped(v, i, k) : v \in vs, k \in i .. limit}]])[limit - 2]
  IN  {SubSeq(v, 1, idxNum) : v \in shuffled}

\* The mask of an answer to an even bit.  Mutant: the exponent's stays
\* in it.
EvenMaskKept(i) == Masks[i]
EvenMask(i) == (Masks[i] - ExpMask) % Order

-----------------------------------------------------------------------------
\* The caller's arguments; a public key is not the identity.
ExpInit ==
  /\ exp \in Exps /\ q \in Qs /\ level \in Levels
  /\ \E off \in Offsets : point = (exp - q + off) % Order
  /\ point # 0
  /\ alphas = <<>> /\ challenge = <<>> /\ proofs = <<>> /\ step = "commit"
  /\ indices = <<>> /\ bits = <<>> /\ opened = 0 /\ valid = TRUE /\ verdict = "none"

\* One turn of the first loop of construct.
DrawAlpha(alpha) ==
  /\ step = "commit" /\ Len(alphas) < level
  /\ alphas' = Append(alphas, alpha)
  /\ IF IsIdentity(Affine(alpha)) THEN step' = "end" /\ verdict' = "err"
                                  ELSE UNCHANGED <<step, verdict>>
  /\ UNCHANGED <<exp, q, point, level, challenge, proofs, indices, bits, opened, valid>>

Hash(cs) ==
  /\ step = "commit" /\ Len(alphas) = level
  /\ challenge' = cs /\ step' = "respond"
  /\ UNCHANGED <<exp, q, point, level, alphas, proofs, indices, bits, opened, valid, verdict>>

\* One turn of the second loop, on an odd bit.
RespondOdd ==
  LET i == Len(proofs) + 1
  IN  /\ step = "respond" /\ i <= level /\ challenge[i]
      /\ proofs' = Append(proofs, [odd |-> TRUE, a |-> CommitOnBase(alphas[i], Masks[i]),
                                   t |-> Affine(alphas[i]), z |-> alphas[i], r |-> Masks[i]])
      /\ UNCHANGED <<exp, q, point, level, alphas, challenge, step, indices, bits, opened, valid, verdict>>

\* And on an even one: t1 = z * base_gen + q_point must not be the identity.
RespondEven ==
  LET i == Len(proofs) + 1
      z == (alphas[i] - exp) % Order
  IN  /\ step = "respond" /\ i <= level /\ ~ challenge[i]
      /\ IF IsIdentity(PointOf((z + q) % Order))
           THEN step' = "end" /\ verdict' = "err" /\ UNCHANGED proofs
           ELSE /\ proofs' = Append(proofs, [odd |-> FALSE, a |-> CommitOnBase(alphas[i], Masks[i]),
                                             t |-> Affine(alphas[i]), z |-> z, r |-> EvenMask(i)])
                /\ UNCHANGED <<step, verdict>>
      /\ UNCHANGED <<exp, q, point, level, alphas, challenge, indices, bits, opened, valid>>

ReturnProof ==
  /\ step = "respond" /\ Len(proofs) = level
  /\ step' = "proved"
  /\ UNCHANGED <<exp, q, point, level, alphas, challenge, proofs, indices, bits, opened, valid, verdict>>

\* verify up to its loop, called with a security_param of its own.  It hashes
\* that many repetitions, so that it computes the prover's challenge only if
\* these are all of them.
ExpVerify(securityParam) ==
  /\ step = "proved"
  /\ IF securityParam > Len(proofs)
       THEN step' = "end" /\ verdict' = "err" /\ UNCHANGED <<indices, bits>>
     ELSE IF Len(proofs) < 2
       THEN step' = "end" /\ verdict' = "panic" /\ UNCHANGED <<indices, bits>>
       ELSE /\ indices' \in IndexVectors(securityParam, Len(proofs))
            /\ bits' \in IF securityParam = Len(proofs) THEN {challenge}
                                                        ELSE [1 .. level -> BOOLEAN]
            /\ step' = "verify" /\ UNCHANGED verdict
  /\ UNCHANGED <<exp, q, point, level, alphas, challenge, proofs, opened, valid>>

\* The relations of one repetition are zero.
OddHolds(pr) == CommitOnBase(pr.z, pr.r) = pr.a /\ Affine(pr.z) = pr.t
EvenHolds(pr) == /\ CommitOnBase(pr.z + exp, pr.r + ExpMask) = pr.a
                 /\ AddHolds(Affine((pr.z + q) % Order), Affine(point), pr.t)

\* One turn of the loop of verify.
Open ==
  /\ step = "verify" /\ opened < Len(indices)
  /\ LET i == indices[opened + 1]
         pr == proofs[i]
         sum == IF pr.odd THEN pr.z ELSE (pr.z + q) % Order
     IN  IF pr.odd # bits[i] \/ IsIdentity(Affine(sum))
           THEN step' = "end" /\ verdict' = "err" /\ UNCHANGED valid
           ELSE /\ valid' = (valid /\ IF pr.odd THEN OddHolds(pr) ELSE EvenHolds(pr))
                /\ UNCHANGED <<step, verdict>>
  /\ opened' = opened + 1
  /\ UNCHANGED <<exp, q, point, level, alphas, challenge, proofs, indices, bits>>

\* The two evaluations.
Evaluate ==
  /\ step = "verify" /\ opened = Len(indices)
  /\ verdict' = IF valid THEN "ok" ELSE "err"
  /\ step' = "end"
  /\ UNCHANGED <<exp, q, point, level, alphas, challenge, proofs, indices, bits, opened, valid>>

ExpNext ==
  \/ \E alpha \in Alphas : DrawAlpha(alpha)
  \/ \E cs \in [1 .. level -> BOOLEAN] : Hash(cs)
  \/ RespondOdd \/ RespondEven \/ ReturnProof
  \/ \E securityParam \in level - 1 .. level + 1 : ExpVerify(securityParam)
  \/ Open \/ Evaluate

ExpSpec == ExpInit /\ [][ExpNext]_expVars

-----------------------------------------------------------------------------
ExpTypeOK ==
  /\ exp \in Scalar /\ q \in Scalar /\ point \in Scalar /\ valid \in BOOLEAN
  /\ alphas \in Seq(Scalar) /\ challenge \in Seq(BOOLEAN) /\ bits \in Seq(BOOLEAN)
  /\ proofs \in Seq([odd : BOOLEAN, a : Scalar \X Scalar, t : Point, z : Scalar, r : Scalar])
  /\ indices \in Seq(DOMAIN proofs) /\ opened \in 0 .. Len(indices)
  /\ step \in {"commit", "respond", "proved", "verify", "end"}
  /\ verdict \in {"none", "ok", "err", "panic"}

\* What the proof is about.
Honest == point = (exp - q) % Order

Verified == step = "end" /\ bits # <<>>   \* verify went past its first check

\* Repetition i hides a sum that PointAddProof cannot show: t1 = point or -point.
Unprovable(i) == ~ proofs[i].odd /\ (proofs[i].z + q) % Order \in {point, (-point) % Order}

\* A proof of a true statement verifies at the level it was made for, whichever
\* bits the challenge asks for, unless an opened repetition adds equal or opposite
\* points (tests exp_proof_valid_with_q, exp_proof_valid_without_q).
HonestProofsVerify ==
  Verified /\ Honest /\ bits = challenge /\ (\A i \in DOMAIN proofs : ~ Unprovable(i))
    => verdict = "ok"

\* A proof made for another exponent or another point verifies only if none of
\* the repetitions opened shows a sum, whatever points the random alphas lead to,
\* the identity included: one even bit suffices (test exp_proof_invalid).
EvenBitsDecide ==
  Verified /\ verdict = "ok" /\ ~ Honest =>
    \A j \in DOMAIN indices : proofs[indices[j]].odd

\* construct gives up on the identity exactly where an even bit would have to
\* show a sum with it: the point it tests is t1, not one already made affine.
GivesUpOnIdentity ==
  step = "end" /\ verdict = "err" /\ Len(proofs) < level =>
    LET i == Len(proofs) + 1
    IN  challenge # <<>> /\ ~ challenge[i] /\ (alphas[i] - exp + q) % Order = 0

\* What holds of the two functions: true proofs verify, and construct gives up
\* nowhere else (exp.rs:131-225, 228-370).
ExponentsProve == ExpTypeOK /\ HonestProofsVerify /\ GivesUpOnIdentity

\* verify refuses a level only if it is above the number of repetitions, "security
\* level not achieved" (exp.rs:237-239): below it, it opens as many of them as it
\* was asked for (exp.rs:262).
LowerLevelsVerify ==
  Verified /\ Honest /\ (\A i \in DOMAIN proofs : ~ Unprovable(i)) => verdict = "ok"
=============================================================================

--------------------------- MODULE CommitmentProofs ---------------------------
(***************************************************************************)
(* What tom256 proves of Pedersen commitments (pedersen.rs,                *)
(* proofs/equality.rs, proofs/multiplication.rs, proofs/point_add.rs):     *)
(* that two hide the same value, that one hides the product of two others, *)
(* and, out of four of the one and two of the other, that six hide the     *)
(* coordinates of points P + Q = R.  A verifier hashes the commitments it  *)
(* knows of, which may not be the prover's, so that its challenge is       *)
(* another.                                                                *)
(*                                                                         *)
(* A point of the cycle curve is <<a, b>>: a times its GENERATOR (BASE)    *)
(* and b times the PedersenGenerator, between which nobody knows a         *)
(* relation; its scalars are the elements of the base curve's field        *)
(* (curve.rs).                                                             *)
(***************************************************************************)
EXTENDS Curve, Sequences

CONSTANTS Values,   \* bound: values committed to
          Draws,    \* bound: what Scalar::random gives in one construct
          Sums      \* bound: <<p, q, r>>, the points of a PointAddSecrets

CommitAssumption ==
  /\ Values \subseteq Field
  /\ \A d \in Draws : d \in Seq(Field) /\ Len(d) >= 10
  /\ Sums \subseteq (Field \X Field) \X (Field \X Field) \X (Field \X Field)

VARIABLES kind,    \* the proof constructed, "none" before
          over,    \* the commitments it was made for, as points
          truth,   \* whether their values are what is proved of them
          shown,   \* the proof; parts, for the addition, of its own
          e,       \* the challenge of construct
          checked  \* [over, e, outcome] of the verifier

commitVars == <<kind, over, truth, shown, e, checked>>

BASE     == <<1, 0>>
PEDERSEN == <<0, 1>>
NOTHING  == <<0, 0>>
Plus(p, q)  == <<(p[1] + q[1]) % Prime, (p[2] + q[2]) % Prime>>
Times(p, k) == <<(p[1] * k) % Prime, (p[2] * k) % Prime>>
Minus(p, q) == Plus(p, Times(q, -1))

\* PedersenGenerator::commit, with its randomness; the operators on commitments
\* are those on their points, the randomness being the second coordinate.
Commit(secret, randomness) == <<secret % Prime, randomness % Prime>>

\* A relation of two or three points and a negated one is zero.
Opens(mask, random, com, c, a) ==
  Plus(Plus(Times(BASE, mask), Times(PEDERSEN, random)), Times(com, c)) = a

-----------------------------------------------------------------------------
\* EqualityProof::construct, of commitments c1, c2 and random draws d, and the
\* relations of aggregate.
Equality(c1, c2, secret, d, c) ==
  [a1 |-> Commit(d[1], d[2]), a2 |-> Commit(d[1], d[3]),
   mask |-> d[1] - c * secret, random1 |-> d[2] - c * c1[2], random2 |-> d[3] - c * c2[2]]
EqualityHolds(pr, cs, c) == /\ Opens(pr.mask, pr.random1, cs[1], c, pr.a1)
                            /\ Opens(pr.mask, pr.random2, cs[2], c, pr.a2)

\* MultiplicationProof::construct, of commitments cx, cy, cz: c4 commits to x * y
\* and is opened twice, as a commitment to z and as x times cy.
Multiplication(cx, cy, cz, x, y, z, d, c) ==
  [c4 |-> Times(cy, x),
   a1 |-> Commit(d[1], d[4]), a2 |-> Commit(d[2], d[5]), a3 |-> Commit(d[3], d[6]),
   a4_1 |-> Commit(d[3], d[7]), a4_2 |-> Times(cy, d[1]),
   x |-> d[1] - c * x, y |-> d[2] - c * y, z |-> d[3] - c * z,
   random_x |-> d[4] - c * cx[2], random_y |-> d[5] - c * cy[2], random_z |-> d[6] - c * cz[2],
   r4 |-> d[7] - c * cy[2] * x]
MultiplicationHolds(pr, cs, c) ==
  /\ Opens(pr.x, pr.random_x, cs[1], c, pr.a1)
  /\ Opens(pr.y, pr.random_y, cs[2], c, pr.a2)
  /\ Opens(pr.z, pr.random_z, cs[3], c, pr.a3)
  /\ Opens(pr.z, pr.r4, pr.c4, c, pr.a4_1)
  /\ Plus(Times(cs[2], pr.x), Times(pr.c4, c)) = pr.a4_2

-----------------------------------------------------------------------------
\* PointAddSecrets::commit, and commit_p_only, which is given all but px and py.
Coordinates(p, q, r, d) ==
  [px |-> Commit(p[1], d[1]), py |-> Commit(p[2], d[2]), qx |-> Commit(q[1], d[3]),
   qy |-> Commit(q[2], d[4]), rx |-> Commit(r[1], d[5]), ry |-> Commit(r[2], d[6])]

\* The commitments that both ends compute, as <<qx - px, qy - py, px - rx, and the
\* sums that equal the square of the slope and the slope times px - rx>>.
\* Mutant: the first sum lacks qx.
DerivedShort(cs) ==
  [c7 |-> Minus(cs.qx, cs.px), c9 |-> Minus(cs.qy, cs.py), c12 |-> Minus(cs.px, cs.rx),
   x |-> Plus(cs.rx, cs.px), y |-> Plus(cs.ry, cs.py)]
Derived(cs) ==
  [c7 |-> Minus(cs.qx, cs.px), c9 |-> Minus(cs.qy, cs.py), c12 |-> Minus(cs.px, cs.rx),
   x |-> Plus(Plus(cs.rx, cs.px), cs.qx), y |-> Plus(cs.ry, cs.py)]

\* What a part of the proof is over, and whether the secrets handed in are the
\* values committed to and fit.
Product(cx, cy, cz, x, y, z) ==
  [over |-> <<cx, cy, cz>>,
   fits |-> <<x, y, z>> = <<cx[1], cy[1], cz[1]>> /\ (x * y) % Prime = z]
Equal(c1, c2, secret) == [over |-> <<c1, c2>>, fits |-> c1[1] = secret /\ c2[1] = secret]

\* PointAddProof::construct
PointAdd(p, q, r, cs, d) ==
  LET aux7  == (q[1] - p[1]) % Prime
      aux8  == Inverse(aux7)
      aux9  == (q[2] - p[2]) % Prime
      aux10 == (aux8 * aux9) % Prime
      aux11 == (aux10 * aux10) % Prime
      aux12 == (p[1] - r[1]) % Prime
      aux13 == (aux10 * aux12) % Prime
      c8  == Commit(aux8, d[1])   c10 == Commit(aux10, d[2])
      c11 == Commit(aux11, d[3])  c13 == Commit(aux13, d[4])
      c   == Derived(cs)
  IN  [c8 |-> c8, c10 |-> c10, c11 |-> c11, c13 |-> c13,
       mult8  |-> Product(c.c7, c8, BASE, aux7, aux8, 1),
       mult10 |-> Product(c8, c.c9, c10, aux8, aux9, aux10),
       mult11 |-> Product(c10, c10, c11, aux10, aux10, aux11),
       mult13 |-> Product(c10, c.c12, c13, aux10, aux12, aux13),
       equalX |-> Equal(c11, c.x, aux11),
       equalY |-> Equal(c13, c.y, aux13)]

\* PointAddProof::aggregate: every part against the commitments of this side.
PointAddHolds(pr, cs) ==
  LET c == Derived(cs)
      Checked(part, known) == part.fits /\ part.over = known
  IN  /\ Checked(pr.mult8, <<c.c7, pr.c8, BASE>>)
      /\ Checked(pr.mult10, <<pr.c8, c.c9, pr.c10>>)
      /\ Checked(pr.mult11, <<pr.c10, pr.c10, pr.c11>>)
      /\ Checked(pr.mult13, <<pr.c10, c.c12, pr.c13>>)
      /\ Checked(pr.equalX, <<pr.c11, c.x>>)
      /\ Checked(pr.equalY, <<pr.c13, c.y>>)

-----------------------------------------------------------------------------
CommitInit == /\ kind = "none" /\ over = <<>> /\ truth = FALSE /\ shown = <<>> /\ e = 0
              /\ checked = [over |-> <<>>, e |-> 0, outcome |-> "none"]

Constructed(k, cs, holds, pr, c) ==
  /\ kind' = k /\ over' = cs /\ truth' = holds /\ shown' = pr /\ e' = c
  /\ UNCHANGED checked

EqualityConstruct ==
  /\ kind = "none"
  /\ \E v, w \in Values, d \in Draws, c \in Field :
       LET c1 == Commit(v, d[8])
           c2 == Commit(w, d[9])
       IN  Constructed("equality", <<c1, c2>>, v = w, Equality(c1, c2, v, d, c), c)

MultiplicationConstruct ==
  /\ kind = "none"
  /\ \E x, y, z \in Values, d \in Draws, c \in Field :
       LET cx == Commit(x, d[8])
           cy == Commit(y, d[9])
           cz == Commit(z, d[10])
       IN  Constructed("multiplication", <<cx, cy, cz>>, (x * y) % Prime = z,
                       Multiplication(cx, cy, cz, x, y, z, d, c), c)

PointAddConstruct ==
  /\ kind = "none"
  /\ \E s \in Sums, d \in Draws :
       LET cs == Coordinates(s[1], s[2], s[3], SubSeq(d, 5, 10))
       IN  Constructed("addition", cs, s[1][1] # s[2][1] /\ ChordTangent(s[1], s[2]) = s[3],
                       PointAdd(s[1], s[2], s[3], cs, d), 0)

Neighbours ==
  {over} \cup {[over EXCEPT ![i] = Plus(@, p)] : i \in DOMAIN over, p \in {BASE, PEDERSEN}}

\* The relations are zero when they are drained into a MultiMult, for
\* commitments a verifier has in mind and the challenge it comes to.
Holds(k, pr, cs, c) == CASE k = "equality"       -> EqualityHolds(pr, cs, c)
                         [] k = "multiplication" -> MultiplicationHolds(pr, cs, c)
                         [] k = "addition"       -> PointAddHolds(pr, cs)
CommitVerify ==
  /\ kind # "none" /\ checked.outcome = "none"
  /\ \E cs \in Neighbours : \E c \in IF cs = over \/ kind = "addition" THEN {e} ELSE Field :
       checked' = [over |-> cs, e |-> c,
                   outcome |-> IF Holds(kind, shown, cs, c) THEN "ok" ELSE "refused"]
  /\ UNCHANGED <<kind, over, truth, shown, e>>

CommitNext == \/ EqualityConstruct \/ MultiplicationConstruct \/ PointAddConstruct \/ CommitVerify

CommitSpec == CommitInit /\ [][CommitNext]_commitVars

-----------------------------------------------------------------------------
\* A proof of what is true verifies, at whichever challenge: the masks of both
\* sides take the same randomness, and prover and verifier derive the same
\* commitments (tests equality, multiplication and point_add).
TrueProofsVerify ==
  checked.outcome # "none" /\ checked.over = over /\ truth => checked.outcome = "ok"

\* What is not true, or was proved of other commitments, is refused, but by the
\* one challenge in Prime that happens to fit: a verifier that hashes other
\* commitments, or values that do not multiply, cannot be answered by a proof
\* made before.  (Commitments that are all the identity bind to nothing: the
\* challenge drops out.)  Additions of points with equal x are refused always.
OthersRefused ==
  checked.outcome = "ok" =>
    \/ truth /\ checked.over = over
    \/ /\ kind # "addition"
       /\ IF checked.over = over
            THEN e = 0
            ELSE \/ \A i \in DOMAIN checked.over : checked.over[i] = NOTHING
                 \/ \A c \in Field : Holds(kind, shown, checked.over, c) => c = checked.e

\* Equality, multiplication and addition proofs of what is true verify, prover
\* and verifier deriving the same commitments, and any others are refused but by
\* one challenge (equality.rs, multiplication.rs, point_add.rs).
CommitmentProofsDecide == TrueProofsVerify /\ OthersRefused
===============================================================================

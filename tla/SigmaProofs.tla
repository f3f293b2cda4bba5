----------------------------- MODULE SigmaProofs -----------------------------
(***************************************************************************)
(* The non-interactive proofs of curv (cryptographic_primitives/proofs):   *)
(* a prover commits, hashes its statement and commitments to a challenge   *)
(* and answers it; whoever verifies hashes again, the statement it knows   *)
(* of with the commitments it was sent, which may be another statement.    *)
(*                                                                         *)
(* A point is <<a, b>>, for a times the generator and b times base_point2, *)
(* between which nobody knows a relation.                                  *)
(***************************************************************************)
EXTENDS DensePolynomial, FiniteSets

CONSTANTS Bases,      \* bound: discrete logarithms of the callers' bases
          Witnesses,  \* bound: the witnesses' scalars
          Polys,      \* bound: the polynomials of an LdeiWitness
          Alphas,     \* bound: the sequences alpha of an LdeiStatement
          Generators, \* bound: the discrete logarithms of its g
          Degrees,    \* bound: the degrees d of an LdeiStatement, each a u16
          MaxAnswer   \* bound: coefficients of a polynomial handed in as z

ASSUME SigmaAssumption ==
  /\ Bases \subseteq Scalar /\ Witnesses \subseteq Scalar
  /\ Polys \cup Alphas \cup Generators \subseteq Seq(Scalar)
  /\ Degrees \subseteq Nat /\ \A d \in Degrees : d < Infinity
  /\ MaxAnswer \in Nat

VARIABLES kind,   \* which proof, "none" before there is one
          wit,    \* the prover's witness
          stmt,   \* the statement it was proved for
          proof,  \* [a, z]: commitments and responses
          oracle, \* what has been hashed, with the challenges
          answer  \* [stmt, e, outcome]: the answer of prove or verify

sigmaVars == <<kind, wit, stmt, proof, oracle, answer>>

G  == <<1, 0>>
H2 == <<0, 1>>
Add(p, q) == <<(p[1] + q[1]) % Order, (p[2] + q[2]) % Order>>
Mul(p, k) == <<(p[1] * k) % Order, (p[2] * k) % Order>>
Neg(p) == Mul(p, -1)
Com(m, r) == Add(Mul(G, m), Mul(H2, r))

Nonzero == Scalar \ {0}

-----------------------------------------------------------------------------
(* Of each proof the statement a witness belongs to, the commitments to the   *)
(* random s, what is hashed, and the check of verify.                          *)

\* sigma_dlog
DLogStatement(w) == [pk |-> Mul(G, w[1])]
DLogCommit(s) == <<Mul(G, s[1])>>
DLogHashed(d, a) == <<a[1], G, d.pk>>
DLogVerify(d, a, e, z) == Add(Mul(G, z[1]), Mul(d.pk, e)) = a[1]

\* sigma_ec_ddh
DdhStatement(g1, g2, w) == [g1 |-> g1, h1 |-> Mul(g1, w[1]), g2 |-> g2, h2 |-> Mul(g2, w[1])]
DdhCommit(d, s) == <<Mul(d.g1, s[1]), Mul(d.g2, s[1])>>
DdhHashed(d, a) == <<d.g1, d.h1, d.g2, d.h2>> \o a
\* Mutant: the second equation is left out.
DdhVerifyFirst(d, a, e, z) == Mul(d.g1, z[1]) = Add(a[1], Mul(d.h1, e))
DdhVerify(d, a, e, z) == /\ Mul(d.g1, z[1]) = Add(a[1], Mul(d.h1, e))
                         /\ Mul(d.g2, z[1]) = Add(a[2], Mul(d.h2, e))

\* sigma_valid_pedersen, of a pair (m, r)
PedersenStatement(w) == [com |-> Com(w[1], w[2])]
PedersenCommit(s) == <<Mul(G, s[1]), Mul(H2, s[2])>>
PedersenHashed(d, a) == <<G, H2, d.com>> \o a
PedersenVerify(d, a, e, z) == Com(z[1], z[2]) = Add(Add(a[1], a[2]), Mul(d.com, e))

\* sigma_valid_pedersen_blind, of r for a known m
BlindingStatement(m, w) == [m |-> m, com |-> Com(m, w[1])]
BlindingCommit(s) == <<Mul(H2, s[1])>>
BlindingHashed(d, a) == <<G, H2, d.com>> \o a \o <<d.m>>
BlindingVerify(d, a, e, z) ==
  Add(Mul(H2, z[1]), Mul(Mul(G, d.m), e)) = Add(Mul(d.com, e), a[1])

\* sigma_correct_homomorphic_elgamal_enc, of a pair (x, r); T is the sum of the
\* commitments to both.
ElGamalStatement(g, h, y, w) ==
  [g |-> g, h |-> h, y |-> y, d |-> Add(Mul(h, w[1]), Mul(y, w[2])), e |-> Mul(g, w[2])]
ElGamalCommit(d, s) == <<Add(Mul(d.h, s[1]), Mul(d.y, s[2])), Mul(d.g, s[2])>>
ElGamalHashed(d, a) == a \o <<d.g, d.h, d.y, d.d, d.e>>
ElGamalVerify(d, a, e, z) ==
  /\ Add(Mul(d.h, z[1]), Mul(d.y, z[2])) = Add(a[1], Mul(d.d, e))
  /\ Mul(d.g, z[2]) = Add(a[2], Mul(d.e, e))

\* sigma_correct_homomorphic_elgamal_encryption_of_dlog, of a pair (x, r); q is
\* not hashed.
ElGamalDlogStatement(g, y, w) ==
  [g |-> g, y |-> y, q |-> Mul(g, w[1]), d |-> Add(Mul(g, w[1]), Mul(y, w[2])), e |-> Mul(g, w[2])]
ElGamalDlogCommit(d, s) == <<Mul(d.g, s[1]), Mul(d.y, s[2]), Mul(d.g, s[2])>>
ElGamalDlogHashed(d, a) == a \o <<d.g, d.y, d.d, d.e>>
ElGamalDlogVerify(d, a, e, z) ==
  /\ Mul(d.g, z[1]) = Add(a[1], Mul(d.q, e))
  /\ Mul(d.g, z[2]) = Add(a[3], Mul(d.e, e))
  /\ Mul(d.y, z[2]) = Add(a[2], Mul(Add(d.d, Neg(d.q)), e))

\* low_degree_exponent_interpolation, of a polynomial w.  LdeiStatement::new
\* refuses before it evaluates; alpha and d are not hashed.
Distinct(alpha) == \A i, j \in DOMAIN alpha : i # j => alpha[i] # alpha[j]
InvalidStatement(alpha, g, d, w) ==
  IF Len(alpha) # Len(g) THEN "AlphaLengthDoesntMatchG"
  ELSE IF Degree(w) > d THEN "PolynomialDegreeMoreThanD"
  ELSE IF ~Distinct(alpha) THEN "AlphaNotPairwiseDistinct" ELSE "valid"
Values(g, alpha, w) == [i \in DOMAIN g |-> Mul(g[i], Evaluate(w, alpha[i]))]
LdeiStatement(alpha, g, d, w) == [alpha |-> alpha, g |-> g, x |-> Values(g, alpha, w), d |-> d]
InvalidProof(t, w) ==
  LET why == InvalidStatement(t.alpha, t.g, t.d, w)
  IN  IF why = "valid" /\ t.x # Values(t.g, t.alpha, w) THEN "ListOfXDoesntMatchExpectedValue"
      ELSE why
LdeiHashed(t, a) == t.g \o t.x \o a
\* Mutant: z may have any degree.
LdeiVerifyAny(t, a, e, z) ==
  a = [i \in DOMAIN t.g |-> Add(Mul(t.g[i], Evaluate(z, t.alpha[i])), Mul(t.x[i], e))]
LdeiVerify(t, a, e, z) ==
  /\ Degree(z) <= t.d
  /\ a = [i \in DOMAIN t.g |-> Add(Mul(t.g[i], Evaluate(z, t.alpha[i])), Mul(t.x[i], e))]

-----------------------------------------------------------------------------
SigmaInit == /\ kind = "none" /\ wit = <<>> /\ stmt = <<>> /\ proof = <<>>
             /\ oracle = <<>> /\ answer = [by |-> "none", stmt |-> <<>>, e |-> 0, outcome |-> "none"]

Answer(by, d, e, outcome) == answer' = [by |-> by, stmt |-> d, e |-> e, outcome |-> outcome]

\* The challenge of what is hashed: the same for the same, any for another.
Challenges(hashed) == IF hashed \in DOMAIN oracle THEN {oracle[hashed]} ELSE Scalar

\* The responses, to which the challenge's part is added, or from which it is
\* taken (sigma_dlog).  Mutant: the sign.
Added(w, s, e) == [i \in DOMAIN s |-> (s[i] + e * w[i]) % Order]
TakenSigned(w, s, e) == [i \in DOMAIN s |-> (s[i] + e * w[i]) % Order]
Taken(w, s, e) == [i \in DOMAIN s |-> (s[i] - e * w[i]) % Order]

\* What every prove does once it has committed.
Proved(k, w, d, a, hashed, z(_)) ==
  \E e \in Challenges(hashed) :
    /\ kind' = k /\ wit' = w /\ stmt' = d /\ proof' = [a |-> a, z |-> z(e)]
    /\ oracle' = [h \in {hashed} |-> e]
    /\ Answer("prove", d, e, "proved")

One == [1 .. 1 -> Witnesses]
Two == [1 .. 2 -> Witnesses]
Random(n) == [1 .. n -> Nonzero]
BasePoints == {Mul(G, b) : b \in Bases}

DLogProve ==
  \E w \in One, s \in Random(1) :
    LET d == DLogStatement(w)
        a == DLogCommit(s)
        z(e) == Taken(w, s, e)
    IN  Proved("dlog", w, d, a, DLogHashed(d, a), z)

DdhProve ==
  \E w \in One, g1, g2 \in BasePoints, s \in Random(1) :
    LET d == DdhStatement(g1, g2, w)
        a == DdhCommit(d, s)
        z(e) == Added(w, s, e)
    IN  Proved("ddh", w, d, a, DdhHashed(d, a), z)

PedersenProve ==
  \E w \in Two, s \in Random(2) :
    LET d == PedersenStatement(w)
        a == PedersenCommit(s)
        z(e) == Added(w, s, e)
    IN  Proved("pedersen", w, d, a, PedersenHashed(d, a), z)

BlindingProve ==
  \E m \in Witnesses, w \in One, s \in Random(1) :
    LET d == BlindingStatement(m, w)
        a == BlindingCommit(s)
        z(e) == Added(w, s, e)
    IN  Proved("blinding", w, d, a, BlindingHashed(d, a), z)

ElGamalProve ==
  \E w \in Two, g, h, y \in BasePoints, s \in Random(2) :
    LET d == ElGamalStatement(g, h, y, w)
        a == ElGamalCommit(d, s)
        z(e) == Added(w, s, e)
    IN  Proved("elgamal", w, d, a, ElGamalHashed(d, a), z)

ElGamalDlogProve ==
  \E w \in Two, g, y \in BasePoints, s \in Random(2) :
    LET d == ElGamalDlogStatement(g, y, w)
        a == ElGamalDlogCommit(d, s)
        z(e) == Added(w, s, e)
    IN  Proved("elgamal_dlog", w, d, a, ElGamalDlogHashed(d, a), z)

\* LdeiStatement::new with one polynomial, LdeiProof::prove with the same or
\* another.
LdeiRefused(by, why) ==
  /\ kind' = "refused" /\ Answer(by, <<>>, 0, why)
  /\ UNCHANGED <<wit, stmt, proof, oracle>>
LdeiProve ==
  \E w0 \in Polys, alpha \in Alphas, logs \in Generators, d \in Degrees :
    LET g   == [i \in DOMAIN logs |-> Mul(G, logs[i])]
        why == InvalidStatement(alpha, g, d, w0)
    IN  \/ why # "valid" /\ LdeiRefused("new", why)
        \/ /\ why = "valid"
           /\ \E w \in Polys :
                LET t   == LdeiStatement(alpha, g, d, w0)
                    no  == InvalidProof(t, w)
                IN  \/ no # "valid" /\ LdeiRefused("prove", no)
                    \/ /\ no = "valid"
                       /\ \E u \in Random(d + 1) :
                            LET a == Values(g, alpha, u)
                                z(e) == Minus(u, Times(w, e))
                            IN  Proved("ldei", w, t, a, LdeiHashed(t, a), z)

-----------------------------------------------------------------------------
Hashed(k, d, a) ==
  CASE k = "dlog"         -> DLogHashed(d, a)
    [] k = "ddh"          -> DdhHashed(d, a)
    [] k = "pedersen"     -> PedersenHashed(d, a)
    [] k = "blinding"     -> BlindingHashed(d, a)
    [] k = "elgamal"      -> ElGamalHashed(d, a)
    [] k = "elgamal_dlog" -> ElGamalDlogHashed(d, a)
    [] k = "ldei"         -> LdeiHashed(d, a)

Satisfied(k, d, a, e, z) ==
  CASE k = "dlog"         -> DLogVerify(d, a, e, z)
    [] k = "ddh"          -> DdhVerify(d, a, e, z)
    [] k = "pedersen"     -> PedersenVerify(d, a, e, z)
    [] k = "blinding"     -> BlindingVerify(d, a, e, z)
    [] k = "elgamal"      -> ElGamalVerify(d, a, e, z)
    [] k = "elgamal_dlog" -> ElGamalDlogVerify(d, a, e, z)
    [] k = "ldei"         -> LdeiVerify(d, a, e, z)

\* The statements a verifier may have in mind: the prover's, or one that differs
\* in a point or a scalar.
Shifted(f, v) == IF f = "m" THEN (v + 1) % Order ELSE Add(v, G)
Neighbours(k, d) ==
  {d} \cup
  (IF k = "ldei"
     THEN {[d EXCEPT !.x[i] = Add(@, G)] : i \in DOMAIN d.x}
            \cup {[d EXCEPT !.alpha[i] = (@ + 1) % Order] : i \in DOMAIN d.alpha}
     ELSE {[d EXCEPT ![f] = Shifted(f, @)] : f \in DOMAIN d})

\* verify: the challenge of a transcript that was not hashed before is any; the
\* one LdeiProof carries must be the one that comes out.
Verify(d) ==
  /\ LET hashed == Hashed(kind, d, proof.a)
     IN  \E e \in Challenges(hashed) :
           /\ oracle' = [h \in DOMAIN oracle \cup {hashed} |-> IF h = hashed THEN e ELSE oracle[h]]
           /\ Answer("verify", d, e,
                     IF /\ kind = "ldei" => e = answer.e
                        /\ Satisfied(kind, d, proof.a, e, proof.z) THEN "ok" ELSE "err")
  /\ UNCHANGED <<kind, wit, stmt, proof>>

SigmaNext ==
  \/ /\ kind = "none"
     /\ \/ DLogProve \/ DdhProve \/ PedersenProve \/ BlindingProve
        \/ ElGamalProve \/ ElGamalDlogProve \/ LdeiProve
  \/ /\ kind \notin {"none", "refused"} /\ answer.by = "prove"
     /\ \E d \in Neighbours(kind, stmt) : Verify(d)

SigmaSpec == SigmaInit /\ [][SigmaNext]_sigmaVars

-----------------------------------------------------------------------------
\* What a statement claims of a witness; of a polynomial its values and that it
\* has no coefficient above the degree d.
Holds(k, d, w) ==
  CASE k = "dlog"         -> d = DLogStatement(w)
    [] k = "ddh"          -> d = DdhStatement(d.g1, d.g2, w)
    [] k = "pedersen"     -> d = PedersenStatement(w)
    [] k = "blinding"     -> d = BlindingStatement(d.m, w)
    [] k = "elgamal"      -> d = ElGamalStatement(d.g, d.h, d.y, w)
    [] k = "elgamal_dlog" -> d = ElGamalDlogStatement(d.g, d.y, w)
    [] k = "ldei"         -> /\ d = LdeiStatement(d.alpha, d.g, d.d, w)
                             /\ \A i \in DOMAIN w : w[i] # 0 => i <= d.d + 1

\* A proof verifies for the statement it was made for, and prove gives one for
\* every witness of a statement that new has let through: the signs of the
\* responses, the order of what is hashed and the sums of commitments agree on
\* both sides (the test of each proof).  Only a z that happens to be zero, whose
\* degree counts as infinite, is refused.
HonestProofsVerify ==
  /\ answer.by = "verify" /\ answer.stmt = stmt =>
       (answer.outcome = "ok" <=> ~(kind = "ldei" /\ Degree(proof.z) = Infinity))
  /\ kind \notin {"none", "refused"} => Holds(kind, stmt, wit)

\* Whatever statement a verifier has in mind, two answers of anyone's to different
\* challenges after the same commitments give a witness of it away, a polynomial
\* of the claimed degree included, however many coefficients the answers have.  So
\* verify lacks no equation and no bound on a degree, and no base of it cancels.
\* (Of two answers to one challenge, or commitments made after it, it says nothing.)
Answers(k) ==
  CASE k \in {"dlog", "ddh", "blinding"} -> [1 .. 1 -> Scalar]
    [] k = "ldei" -> UNION {[1 .. n -> Scalar] : n \in 1 .. MaxAnswer}
    [] OTHER -> [1 .. 2 -> Scalar]
Extracted(k, e1, z1, e2, z2) ==
  Times(Minus(z1, z2), Invert((IF k \in {"dlog", "ldei"} THEN e2 - e1 ELSE e1 - e2) % Order))
TwoAnswersGiveWitness ==
  answer.by = "verify" =>
    LET d == answer.stmt
    IN  \A e1 \in Scalar, z1 \in Answers(kind) :
          Satisfied(kind, d, proof.a, e1, z1) =>
            \A e2 \in Scalar \ {e1}, z2 \in Answers(kind) :
              Satisfied(kind, d, proof.a, e2, z2) => Holds(kind, d, Extracted(kind, e1, z1, e2, z2))
==============================================================================

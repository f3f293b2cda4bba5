------------------------------ MODULE PointArith ------------------------------
(***************************************************************************)
(* Sequences of legal calls on points (tom256/src/arithmetic/point): two   *)
(* registers lhs and rhs hold whatever projective triples the operations   *)
(* produce, and a history variable says which multiple of GENERATOR each   *)
(* of them ought to be.                                                    *)
(***************************************************************************)
EXTENDS CurveGroup, Sequences

VARIABLES lhs, rhs,  \* Point or AffinePoint values of a caller
          log        \* history: log.lhs * GENERATOR = lhs, log.rhs likewise

vars == <<lhs, rhs, log>>

Init == lhs = GENERATOR /\ rhs = GENERATOR /\ log = [lhs |-> 1, rhs |-> 1]

Swap == lhs' = rhs /\ rhs' = lhs /\ log' = [lhs |-> log.rhs, rhs |-> log.lhs]

\* lhs += &rhs
AddAssign == /\ lhs' = GeometricAdd(lhs, rhs)
             /\ log' = [log EXCEPT !.lhs = (@ + log.rhs) % Order]
             /\ UNCHANGED rhs

\* lhs = lhs - rhs, which is lhs + (-rhs)
Sub == /\ lhs' = GeometricAdd(lhs, Neg(rhs))
       /\ log' = [log EXCEPT !.lhs = (@ - log.rhs) % Order]
       /\ UNCHANGED rhs

\* lhs = lhs.double()
Double == /\ lhs' = GeometricAdd(lhs, lhs)
          /\ log' = [log EXCEPT !.lhs = (@ + @) % Order]
          /\ UNCHANGED rhs

\* lhs = Point::from(lhs.to_affine()), by callers who know that lhs is not the
\* identity: to_affine loses it (point/mod.rs:37).
Normalise == /\ ~ IsIdentity(lhs)
             /\ lhs' = ToAffine(lhs)
             /\ UNCHANGED <<rhs, log>>

\* What PointHasher takes of a point: the triple as it is, one after the other.
Inserted(points) == [i \in 1 .. Len(points) |-> <<points[i].x, points[i].y, points[i].z>>]

Next == Swap \/ AddAssign \/ Sub \/ Double \/ Normalise

Spec == Init /\ [][Next]_vars

-----------------------------------------------------------------------------
TypeOK == lhs \in Point /\ rhs \in Point /\ log \in [{"lhs", "rhs"} -> 0 .. Order - 1]

\* geometric_add agrees with the chord-and-tangent law on every pair of triples a
\* caller can produce, equal, opposite and identity included, without a case
\* distinction, and to_affine does not change the point (impl_macro.rs:145-200).
RegistersCorrect == Represents(lhs, Multiple[log.lhs]) /\ Represents(rhs, Multiple[log.rhs])

\* No triple leaves the curve, or degenerates to (0, 0, 0), however the calls
\* follow each other: is_on_curve holds of every result (test on_curve_check).
StaysOnCurve == /\ IsOnCurve(lhs) /\ IsOnCurve(rhs)
                /\ lhs # [x |-> 0, y |-> 0, z |-> 0]

\* == on points is equality of group elements, whatever the z coordinates and
\* the identity included: MultiMult::add_known and insert rely on it.
EqualityDecides == PointEq(lhs, rhs) <=> log.lhs = log.rhs

\* Both ends of a proof hash the triple of a sum that they form in different
\* orders (ry + py in point_add.rs:226, py + ry in point_add.rs:303), so the
\* triples must agree, not only the points they stand for.
SumsHashAlike == Inserted(<<GeometricAdd(lhs, rhs)>>) = Inserted(<<GeometricAdd(rhs, lhs)>>)

\* is_identity recognises exactly the identity: every verifier's answer is
\* `evaluate().is_identity()`.
IdentityDecides == IsIdentity(lhs) <=> log.lhs = 0
===============================================================================

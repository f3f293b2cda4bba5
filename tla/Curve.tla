-------------------------------- MODULE Curve --------------------------------
(***************************************************************************)
(* The points of tom256/src/arithmetic/point as the code represents them:  *)
(* projective triples over the prime field, added with the complete        *)
(* formulas of geometric_add, compared by cross multiplication, and        *)
(* converted to AffinePoint.                                               *)
(***************************************************************************)
EXTENDS Integers

CONSTANTS Prime,    \* Curve::PRIME_MODULUS
          CoeffA,   \* Curve::COEFF_A
          CoeffB    \* Curve::COEFF_B

ASSUME PrimeAssumption ==
  /\ Prime \in Nat /\ Prime > 3
  /\ \A d \in 2 .. Prime - 1 : Prime % d # 0
ASSUME CoeffAssumption ==
  /\ CoeffA \in 0 .. Prime - 1 /\ CoeffB \in 0 .. Prime - 1
  /\ (4 * CoeffA * CoeffA * CoeffA + 27 * CoeffB * CoeffB) % Prime # 0

Field == 0 .. Prime - 1

\* Point and AffinePoint have the same fields.
Point == [x : Field, y : Field, z : Field]

IDENTITY == [x |-> 0, y |-> 1, z |-> 0]

\* Modular::inverse is the power MODULUS - 2, which is 0 at 0.
Inverse(a) == IF a = 0 THEN 0 ELSE CHOOSE b \in Field : (a * b) % Prime = 1

IsIdentity(p) == p.x = 0 /\ p.y # 0 /\ p.z = 0

IsOnCurve(p) ==
  (p.y * p.y * p.z - (p.x * p.x * p.x + CoeffA * p.x * p.z * p.z
                        + CoeffB * p.z * p.z * p.z)) % Prime = 0

\* PartialEq for Point.  Mutant: the y coordinates are not compared.
PointEqByX(p, q) == (p.x * q.z) % Prime = (q.x * p.z) % Prime
PointEq(p, q) == /\ (p.x * q.z) % Prime = (q.x * p.z) % Prime
                 /\ (p.y * q.z) % Prime = (q.y * p.z) % Prime

Neg(p) == [p EXCEPT !.y = (-@) % Prime]

\* geometric_add: the formulas complete on curves of odd order, with b3 three
\* times COEFF_B.
AddFormulas(p, q, b3) ==
  LET t0 == p.x * q.x
      t1 == p.y * q.y
      t2 == p.z * q.z
      t3 == ((p.x + p.y) * (q.x + q.y) - t0 - t1) % Prime
      t4 == ((p.x + p.z) * (q.x + q.z) - t0 - t2) % Prime
      t5 == ((p.y + p.z) * (q.y + q.z) - t1 - t2) % Prime
      s  == (CoeffA * t4 + b3 * t2) % Prime
      u  == (3 * t0 + CoeffA * t2) % Prime
      v  == (b3 * t4 + CoeffA * (t0 - CoeffA * t2)) % Prime
  IN  [x |-> ((t1 - s) * t3 - v * t5) % Prime,
       y |-> ((t1 - s) * (t1 + s) + u * v) % Prime,
       z |-> ((t1 + s) * t5 + u * t3) % Prime]

GeometricAdd(p, q) == AddFormulas(p, q, (3 * CoeffB) % Prime)

\* Point::to_affine, and From<AffinePoint> for Point, which copies the fields.
\* Mutant: y is not divided by z.
ToAffineXOnly(p) == [x |-> (p.x * Inverse(p.z)) % Prime, y |-> p.y, z |-> 1]
ToAffine(p) == [x |-> (p.x * Inverse(p.z)) % Prime,
                y |-> (p.y * Inverse(p.z)) % Prime,
                z |-> 1]

-----------------------------------------------------------------------------
(* The reference: the chord-and-tangent group law on affine points, with the *)
(* point at infinity as a value of its own.                                  *)
Infinity == <<>>

OnAffineCurve(x, y) == (y * y - x * x * x - CoeffA * x - CoeffB) % Prime = 0

ChordTangent(p, q) ==
  IF p = Infinity THEN q
  ELSE IF q = Infinity THEN p
  ELSE IF p[1] = q[1] /\ (p[2] + q[2]) % Prime = 0 THEN Infinity
  ELSE LET slope == IF p = q
                      THEN ((3 * p[1] * p[1] + CoeffA) * Inverse((2 * p[2]) % Prime)) % Prime
                      ELSE ((p[2] - q[2]) * Inverse((p[1] - q[1]) % Prime)) % Prime
           x == (slope * slope - p[1] - q[1]) % Prime
       IN  <<x, (slope * (p[1] - x) - p[2]) % Prime>>

\* The group element a projective triple stands for.
Represents(p, g) ==
  IF g = Infinity THEN p.x = 0 /\ p.y # 0 /\ p.z = 0
                  ELSE /\ p.z # 0
                       /\ p.x = (g[1] * p.z) % Prime /\ p.y = (g[2] * p.z) % Prime
=============================================================================

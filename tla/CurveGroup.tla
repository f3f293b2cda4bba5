------------------------------ MODULE CurveGroup ------------------------------
(***************************************************************************)
(* The group of a curve (tom256/src/curve.rs): GENERATOR and its multiples *)
(* by the chord-and-tangent law, and the affine coordinates the code works *)
(* with when it is given one of them.                                      *)
(***************************************************************************)
EXTENDS Curve, Scalars

CONSTANT Generator   \* <<GENERATOR_X, GENERATOR_Y>>

\* The k-th multiple of the generator by the chord-and-tangent law.
Multiple[k \in Nat] == IF k = 0 THEN Infinity
                                ELSE ChordTangent(Multiple[k - 1], Generator)

\* The formulas are complete on curves of odd order only.
ASSUME GeneratorAssumption ==
  /\ Generator \in Field \X Field /\ OnAffineCurve(Generator[1], Generator[2])
  /\ Order \in Nat /\ Order % 2 = 1
  /\ Multiple[Order] = Infinity
  /\ \A k \in 1 .. Order - 1 : Multiple[k] # Infinity

\* What is known of the multiples on every elliptic curve: they lie on it, and they
\* add up as their multipliers do.
GroupLaw ==
  /\ \A k \in 1 .. Order - 1 : OnAffineCurve(Multiple[k][1], Multiple[k][2])
  /\ \A i, j \in Scalar : ChordTangent(Multiple[i], Multiple[j]) = Multiple[(i + j) % Order]

GENERATOR == [x |-> Generator[1], y |-> Generator[2], z |-> 1]

\* The multiple as a Point, in its simplest representation.
PointOf(k) == IF Multiple[k] = Infinity THEN IDENTITY
              ELSE [x |-> Multiple[k][1], y |-> Multiple[k][2], z |-> 1]
=============================================================================

---------------------------- MODULE Interpolation ----------------------------
(***************************************************************************)
(* One call of interpolate (tom256/src/proofs/utils.rs): the membership    *)
(* proof commits to the coefficients it returns.  The first loop builds    *)
(* the master polynomial of the points in place, the second adds one term  *)
(* for each of them.                                                       *)
(***************************************************************************)
EXTENDS Polynomials

CONSTANTS MaxPoints,   \* bound of the model: points of a call
          Ys           \* bound of the model: the values at them

ASSUME BoundsAssumption == MaxPoints \in Nat /\ Ys \subseteq Scalar

VARIABLES n, x, y,     \* the arguments: x and y have n elements
          s, coeffs,   \* the vectors of the code
          i,           \* the loop counter
          phase        \* "call", "master", "terms", "done", "panic"

polyVars == <<n, x, y, s, coeffs, i, phase>>

Vector(m, S) == [0 .. m - 1 -> S]

PolyInit ==
  /\ n \in 0 .. MaxPoints /\ x \in Vector(n, Scalar) /\ y \in Vector(n, Ys)
  /\ s = <<>> /\ coeffs = <<>> /\ i = 0 /\ phase = "call"

\* Everything before the first loop.  Without points s[n - 1] is out of bounds.
Start ==
  /\ phase = "call"
  /\ IF n = 0
       THEN phase' = "panic" /\ UNCHANGED <<s, coeffs, i>>
       ELSE /\ s' = MasterStart(n, x[0])
            /\ coeffs' = [j \in 0 .. n - 1 |-> 0]
            /\ i' = 1
            /\ phase' = "master"
  /\ UNCHANGED <<n, x, y>>

MasterStep ==
  /\ phase = "master" /\ i < n
  /\ s' = MasterTurn(s, n, i, x[i])
  /\ i' = i + 1
  /\ UNCHANGED <<n, x, y, coeffs, phase>>

MasterDone ==
  /\ phase = "master" /\ i = n
  /\ i' = 0 /\ phase' = "terms"
  /\ UNCHANGED <<n, x, y, s, coeffs>>

TermStep ==
  /\ phase = "terms" /\ i < n
  /\ coeffs' = TermTurn(coeffs, s, n, x[i], y[i])
  /\ i' = i + 1
  /\ UNCHANGED <<n, x, y, s, phase>>

PolyReturn ==
  /\ phase = "terms" /\ i = n
  /\ phase' = "done"
  /\ UNCHANGED <<n, x, y, s, coeffs, i>>

PolyNext == Start \/ MasterStep \/ MasterDone \/ TermStep \/ PolyReturn

PolySpec == PolyInit /\ [][PolyNext]_polyVars

-----------------------------------------------------------------------------
PolyTypeOK ==
  /\ phase \in {"call", "master", "terms", "done", "panic"} /\ i \in 0 .. MaxPoints
  /\ phase \in {"master", "terms", "done"} =>
       s \in [0 .. n -> Scalar] /\ coeffs \in [0 .. n - 1 -> Scalar]

\* The product of (v - x[k]) over k < m.
RootProduct(m, v) == ScalarProduct([k \in 0 .. n - 1 |-> v - x[k]], m)

\* The first loop keeps, in the last i + 1 places of s, the monic polynomial
\* whose roots are the points it has seen (utils.rs:35-46); its values at all
\* scalars determine it, its degree being below Order.
MasterHasTheRoots ==
  LET m == IF phase = "master" THEN i ELSE n
  IN  phase \in {"master", "terms"} =>
        \A v \in Scalar : Horner([j \in 0 .. m |-> s[n - m + j]], m + 1, v) = RootProduct(m, v)

\* No other of the points is x[k].
Once(k) == \A l \in 0 .. n - 1 : x[l] = x[k] => l = k

\* After i terms the polynomial passes through the first i points and is zero at
\* the others, and a point that occurs twice is left out without an error
\* (utils.rs:48-59).  When the call returns it passes through all of them, and
\* is what Interpolate, the call as Membership makes it, stands for.
TermsInterpolate ==
  /\ phase \in {"terms", "done"} =>
       \A k \in 0 .. n - 1 : Horner(coeffs, n, x[k]) = IF k < i /\ Once(k) THEN y[k] ELSE 0
  /\ phase = "done" => coeffs = Interpolate(x, y, n)

\* interpolate's master polynomial has the roots seen so far, its partial sums
\* pass through the points done, and what it returns through all of them, unless
\* a point occurs twice (proofs/utils.rs:25-62).
InterpolationCorrect == PolyTypeOK /\ MasterHasTheRoots /\ TermsInterpolate
=============================================================================

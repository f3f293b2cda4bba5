----------------------------- MODULE Polynomials -----------------------------
(***************************************************************************)
(* Polynomials over the scalar field of a curve as interpolate computes    *)
(* them (tom256/src/proofs/utils.rs): functions from 0 .. degree, indexed  *)
(* like the vectors of the code.                                           *)
(***************************************************************************)
EXTENDS Scalars, Iteration

ASSUME OrderAssumption ==
  Order \in Nat /\ Order > 1 /\ \A d \in 2 .. Order - 1 : Order % d # 0

\* Modular::inverse is a power, and 0 at 0.
ScalarInverse(v) == IF v = 0 THEN 0 ELSE CHOOSE w \in Scalar : (v * w) % Order = 1

\* Modular::pow; the power zero is one, at 0 too.
Pow(c, k) == Iterate(1, [j \in Nat |-> [v \in Scalar |-> (v * c) % Order]])[k]

\* f[0] + ... + f[m - 1] and f[0] * ... * f[m - 1], of integers.
ScalarSum(f, m)     == Iterate(0, [j \in Nat |-> [v \in Scalar |-> (v + f[j - 1]) % Order]])[m]
ScalarProduct(f, m) == Iterate(1, [j \in Nat |-> [v \in Scalar |-> (v * f[j - 1]) % Order]])[m]

\* The value at a of the polynomial with coefficients c[0], ..., c[m - 1].
HornerLoop(c, m, a) ==
  Iterate(0, [k \in Nat |-> [v \in Scalar |-> (c[m - k] + a * v) % Order]])
Horner(c, m, a) == HornerLoop(c, m, a)[m]

-----------------------------------------------------------------------------
\* s before the first loop: the vector of n zeros, ONE pushed behind them, and
\* the root x0 in the place before it.
MasterStart(n, x0) ==
  [j \in 0 .. n |-> IF j = n THEN 1 ELSE IF j = n - 1 THEN (-x0) % Order ELSE 0]

\* Turn i of the first loop brings in the root a.  The code goes through j in
\* ascending order, so that s[j + 1] is still the old one.
MasterTurn(s, n, i, a) ==
  [j \in 0 .. n |-> IF j \in n - 1 - i .. n - 1 THEN (s[j] - a * s[j + 1]) % Order
                                                ELSE s[j]]

\* phi: the derivative of s at a.  Mutant: without the factor j.
PhiWithoutFactor(s, n, a) == Horner([j \in 0 .. n - 1 |-> s[j + 1]], n, a)
Phi(s, n, a) == Horner([j \in 0 .. n - 1 |-> ((j + 1) * s[j + 1]) % Order], n, a)

\* The values b takes as j goes from n - 1 down: the coefficients of s / (X - a).
Quotient(s, n, a) ==
  [j \in 0 .. n - 1 |->
     Iterate(1, [k \in Nat |-> [b \in Scalar |-> (s[n - k] + a * b) % Order]])[n - 1 - j]]

\* Turn i of the second loop adds the term of the point (a, b).
TermTurn(coeffs, s, n, a, b) ==
  [j \in 0 .. n - 1 |->
     (coeffs[j] + Quotient(s, n, a)[j] * ScalarInverse(Phi(s, n, a)) * b) % Order]

\* The whole call, for n > 0 points (x[0], y[0]), ..., (x[n - 1], y[n - 1]): its
\* two loops and what it returns.
MasterLoop(x, n) ==
  Iterate(MasterStart(n, x[0]),
          [i \in Nat |-> [s \in [0 .. n -> Scalar] |-> MasterTurn(s, n, i, x[i])]])
TermLoop(x, y, n) ==
  LET master == MasterLoop(x, n)[n - 1]
  IN  Iterate([j \in 0 .. n - 1 |-> 0],
              [i \in Nat |-> [c \in [0 .. n - 1 -> Scalar] |->
                 TermTurn(c, master, n, x[i - 1], y[i - 1])]])
Interpolate(x, y, n) == TermLoop(x, y, n)[n]
=============================================================================

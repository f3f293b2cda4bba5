--------------------------- MODULE DensePolynomial ---------------------------
(***************************************************************************)
(* curv's polynomials over the scalars of a curve                          *)
(* (secret_sharing/polynomial.rs): the sequence of their coefficients, the *)
(* constant term first.  The last coefficients may be zero.                *)
(***************************************************************************)
EXTENDS Scalars, Sequences, Iteration

\* The order of every curve of curv is prime.
ASSUME PrimeOrder == Order \in Nat \ {0, 1} /\ \A d \in 2 .. Order - 1 : Order % d # 0

Product(f, m) == Iterate(1, [k \in Nat |-> [v \in Scalar |-> (v * f[k]) % Order]])[m]
Total(f, m)   == Iterate(0, [k \in Nat |-> [v \in Scalar |-> (v + f[k]) % Order]])[m]

\* Scalar::invert, of a scalar that has an inverse.
Invert(a) == CHOOSE b \in Scalar : (a * b) % Order = 1

\* sample_exact_with_fixed_const_term: Scalar::random draws nonzero scalars, so
\* that the degree is exact.  Mutant: one coefficient fewer.
SamplesOfLowerDegree(n, c) ==
  {p \in [1 .. n + 1 -> Scalar] : p[1] = c /\ \A k \in 2 .. n + 1 : (p[k] = 0) = (k = n + 1)}
SampleWithConstTerm(n, c) ==
  {p \in [1 .. n + 1 -> Scalar] : p[1] = c /\ \A k \in 2 .. n + 1 : p[k] # 0}

\* degree: PolynomialDegree::Infinity when no coefficient is left, and that is
\* above every finite degree, a u16.
Infinity == 65536
Degree(p) ==
  LET terms == {i \in DOMAIN p : p[i] # 0}
  IN  IF terms = {} THEN Infinity
      ELSE (CHOOSE i \in terms : \A j \in terms : j <= i) - 1

\* evaluate: Horner's scheme from the last coefficient, which must be there.
Evaluate(p, x) ==
  Iterate(p[Len(p)], [k \in Nat |-> [v \in Scalar |-> (v * x + p[Len(p) - k]) % Order]])[Len(p) - 1]

\* lagrange_basis at x of the j-th of the points xs, which are distinct.
LagrangeBasis(x, j, xs) ==
  LET but(f) == Product([m \in DOMAIN xs |-> IF m = j THEN 1 ELSE f[m]], Len(xs))
  IN  (but([m \in DOMAIN xs |-> (x - xs[m]) % Order])
         * Invert(but([m \in DOMAIN xs |-> (xs[j] - xs[m]) % Order]))) % Order

\* The operators.  The tail of the longer one is kept, negated where it is
\* subtracted.
Times(p, s) == [i \in DOMAIN p |-> (p[i] * s) % Order]
Plus(p, q) ==
  [i \in DOMAIN p \cup DOMAIN q |->
     ((IF i \in DOMAIN p THEN p[i] ELSE 0) + (IF i \in DOMAIN q THEN q[i] ELSE 0)) % Order]
Minus(p, q) == Plus(p, Times(q, -1))
=============================================================================

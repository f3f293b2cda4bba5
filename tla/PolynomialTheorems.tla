------------------------- MODULE PolynomialTheorems --------------------------
(***************************************************************************)
(* What the operators of curv's polynomials compute, for every prime       *)
(* order: evaluate the sum of the terms, their operators combinations of   *)
(* the coefficients, and the interpolation at distinct points the value of *)
(* every polynomial with no more coefficients than there are points.       *)
(***************************************************************************)
EXTENDS DensePolynomial, FiniteSetTheorems, NatTheorems

-----------------------------------------------------------------------------
(* Scalars and their inverses. *)

LEMMA OrderFacts ==
  /\ Order \in Nat \ {0} /\ Order > 1 /\ NoDivisor(Order)
  /\ \A n \in Int : n % Order \in Scalar
  /\ \A n \in Scalar : n \in Int /\ n % Order = n
<1>1. Order \in Nat \ {0} /\ Order > 1 /\ NoDivisor(Order)
  <2>1. \A n \in 2 .. Order - 1 : Order % n # 0
    BY PrimeOrder
  <2>2. Order \in Nat \ {0, 1}
    BY PrimeOrder
  <2>3. NoDivisor(Order)
    BY <2>1 DEF NoDivisor
  <2>4. Order \in Nat \ {0} /\ Order > 1
    BY <2>2
  <2> QED BY <2>3, <2>4
<1>2. \A n \in Int : n % Order \in Scalar
  BY <1>1, ModRange DEF Scalar
<1>3. \A n \in Scalar : n \in Int /\ n % Order = n
  BY <1>1, ModSmall DEF Scalar
<1> QED BY <1>1, <1>2, <1>3

LEMMA ScalarsAreInts == \A n \in Scalar : n \in Int
BY DEF Scalar

\* Invert gives inverses.
LEMMA InverseFacts ==
  ASSUME NEW d \in 1 .. Order - 1
  PROVE  Invert(d) \in Scalar /\ Invert(d) \in Int /\ Same(Order, d * Invert(d), 1)
<1> DEFINE c == Invert(d)
           z == 0
<1>1. d \in Int /\ d \in Scalar /\ 1 \in Scalar /\ 1 % Order = 1
  <2>1. d \in Int /\ d \in Scalar /\ 1 \in Scalar
    BY OrderFacts DEF Scalar
  <2> QED BY <2>1, OrderFacts
<1>2. PICK m \in Int : Same(Order, m * d, 1)
  BY OrderFacts, PrimeInverse
<1>3. \E x \in Scalar : (d * x) % Order = 1
  <2> DEFINE r == m % Order
  <2>1. r \in Scalar /\ r \in Int
    BY OrderFacts, ScalarsAreInts
  <2>2. (r * d) % Order = (m * d) % Order
    BY <1>1, OrderFacts, ModTimes
  <2> HIDE DEF r
  <2>3. d * r = r * d
    BY <1>1, <2>1
  <2>4. (d * r) % Order = 1
    BY <1>1, <1>2, <2>2, <2>3 DEF Same
  <2> QED BY <2>1, <2>4
<1>4. c \in Scalar /\ (d * c) % Order = 1
  BY <1>3 DEF Invert
<1> HIDE DEF c
<1>5. c \in Int
  BY <1>4, ScalarsAreInts
<1> QED BY <1>1, <1>4, <1>5 DEF Same, c

\* The difference of different scalars is not zero, and has one.
LEMMA DifferentScalars ==
  ASSUME NEW e1 \in Scalar, NEW e2 \in Scalar, e1 # e2
  PROVE  e2 - e1 \in Int /\ (e2 - e1) % Order \in 1 .. Order - 1
<1> DEFINE d == e2 - e1
           n == d % Order
<1>1. d \in Int /\ n \in Scalar /\ n \in Int
  <2>1. e1 \in Int /\ e2 \in Int
    BY ScalarsAreInts
  <2>2. d \in Int
    BY <2>1
  <2> HIDE DEF d
  <2> QED BY <2>2, OrderFacts, ScalarsAreInts
<1>2. n # 0
  <2> SUFFICES ASSUME n = 0 PROVE FALSE
    OBVIOUS
  <2>1. e1 \in 0 .. Order - 1 /\ e2 \in 0 .. Order - 1 /\ Order \in Nat \ {0}
    BY OrderFacts DEF Scalar
  <2>2. PICK k \in Int : d = k * Order + n
    BY <1>1, <2>1, ModRange
  <2>3. d = k * Order
    BY <2>1, <2>2
  <2>4. k > 0 => k * Order >= Order
    BY <2>1
  <2>5. k < 0 => k * Order <= 0 - Order
    BY <2>1
  <2>6. d < Order /\ d > 0 - Order /\ d # 0
    BY <2>1
  <2>7. k = 0 => k * Order = 0
    BY <2>1
  <2> QED BY <2>1, <2>2, <2>3, <2>4, <2>5, <2>6, <2>7
<1>3. n \in 1 .. Order - 1
  BY <1>1, <1>2, OrderFacts DEF Scalar
<1> QED BY <1>1, <1>3

LEMMA InvertFacts ==
  ASSUME NEW e1 \in Scalar, NEW e2 \in Scalar, e1 # e2
  PROVE  /\ Invert((e2 - e1) % Order) \in Scalar
         /\ ((e2 - e1) * Invert((e2 - e1) % Order)) % Order = 1
<1> DEFINE d == e2 - e1
           n == d % Order
           c == Invert(n)
<1>1. d \in Int /\ n \in 1 .. Order - 1
  BY DifferentScalars
<1> HIDE DEF d
<1>2. (n * c) % Order = (d * c) % Order /\ c \in Scalar /\ Same(Order, n * c, 1)
  <2>1. c \in Scalar /\ c \in Int /\ Same(Order, n * c, 1)
    <3> HIDE DEF n
    <3> QED BY <1>1, InverseFacts
  <2> HIDE DEF c
  <2> QED BY <1>1, <2>1, OrderFacts, ModTimes
<1>3. 1 % Order = 1
  <2>1. 1 \in Scalar
    BY OrderFacts DEF Scalar
  <2> QED BY <2>1, OrderFacts
<1> QED BY <1>2, <1>3 DEF c, d, n, Same

-----------------------------------------------------------------------------
(* Polynomials as sums of terms. *)

\* Sums whose terms are, modulo N, combinations of the terms of two others.
Combined(N, f, j, g, k, h) == Same(N, f, g * j + h * k)

LEMMA CombinedStep ==
  ASSUME NEW N \in Nat \ {0}, NEW j \in Int, NEW k \in Int,
         NEW f \in Int, NEW g \in Int, NEW h \in Int, NEW f1 \in Int, NEW g1 \in Int, NEW h1 \in Int,
         Combined(N, f, j, g, k, h), Combined(N, f1, j, g1, k, h1)
  PROVE  Combined(N, f + f1, j, g + g1, k, h + h1)
<1> DEFINE c  == g * j + h * k
           c1 == g1 * j + h1 * k
<1>1. g * j \in Int /\ h * k \in Int /\ g1 * j \in Int /\ h1 * k \in Int
  OBVIOUS
<1>2. c \in Int /\ c1 \in Int /\ Same(N, f, c) /\ Same(N, f1, c1)
  BY <1>1 DEF Combined
<1>3. (g + g1) * j + (h + h1) * k = c + c1
  OBVIOUS
<1> HIDE DEF c, c1
<1>4. Same(N, f + f1, c + c1)
  BY <1>2, SamePlus
<1> QED BY <1>3, <1>4 DEF Combined

LEMMA SumsCombined ==
  ASSUME NEW N \in Nat \ {0}, NEW j \in Int, NEW k \in Int,
         NEW F \in [Nat -> Int], NEW I \in [Nat -> Int], NEW J \in [Nat -> Int],
         \A n \in Nat \ {0} : Combined(N, F[n], j, I[n], k, J[n])
  PROVE  \A n \in Nat : Combined(N, PartialSums(F)[n], j, PartialSums(I)[n], k, PartialSums(J)[n])
<1> DEFINE P == PartialSums(F)
           Q == PartialSums(I)
           R == PartialSums(J)
           T == {n \in Nat : Combined(N, P[n], j, Q[n], k, R[n])}
<1>1. /\ P \in [Nat -> Int] /\ P[0] = 0 /\ \A n \in Nat : P[n + 1] = P[n] + F[n + 1]
      /\ Q \in [Nat -> Int] /\ Q[0] = 0 /\ \A n \in Nat : Q[n + 1] = Q[n] + I[n + 1]
      /\ R \in [Nat -> Int] /\ R[0] = 0 /\ \A n \in Nat : R[n + 1] = R[n] + J[n + 1]
  BY PartialSumsDef
<1> HIDE DEF P, Q, R
<1>2. 0 \in T
  <2>1. 0 * j + 0 * k = 0
    OBVIOUS
  <2> QED BY <1>1, <2>1 DEF Combined, Same
<1>3. ASSUME NEW n \in T PROVE n + 1 \in T
  <2>1. n \in Nat /\ n + 1 \in Nat \ {0} /\ Combined(N, P[n], j, Q[n], k, R[n])
    OBVIOUS
  <2>2. /\ P[n] \in Int /\ Q[n] \in Int /\ R[n] \in Int
        /\ F[n + 1] \in Int /\ I[n + 1] \in Int /\ J[n + 1] \in Int
    BY <1>1, <2>1
  <2>3. Combined(N, F[n + 1], j, I[n + 1], k, J[n + 1])
    BY <2>1
  <2>4. Combined(N, P[n] + F[n + 1], j, Q[n] + I[n + 1], k, R[n] + J[n + 1])
    BY <2>1, <2>2, <2>3, CombinedStep
  <2> QED BY <1>1, <2>1, <2>4
<1>4. T = Nat
  <2>1. T \in SUBSET Nat
    OBVIOUS
  <2> HIDE DEF T
  <2> QED BY <1>2, <1>3, <2>1, NatSetInduction
<1> QED BY <1>4 DEF P, Q, R

\* A sum to which only zeros are added stays what it is.
LEMMA SumsStay ==
  ASSUME NEW F \in [Nat -> Int], NEW m \in Nat, \A i \in Nat : i > m => F[i] = 0
  PROVE  \A n \in Nat : n >= m => PartialSums(F)[n] = PartialSums(F)[m]
<1> DEFINE P == PartialSums(F)
           T == {n \in Nat : n >= m => P[n] = P[m]}
<1>1. P \in [Nat -> Int] /\ P[0] = 0 /\ \A n \in Nat : P[n + 1] = P[n] + F[n + 1]
  BY PartialSumsDef
<1> HIDE DEF P
<1>2. 0 \in T
  OBVIOUS
<1>3. ASSUME NEW n \in T PROVE n + 1 \in T
  <2>1. n \in Nat /\ n + 1 \in Nat
    OBVIOUS
  <2>2. CASE n >= m
    <3>1. F[n + 1] = 0 /\ P[n + 1] = P[n] + F[n + 1] /\ P[n] = P[m] /\ P[n] \in Int
      BY <1>1, <2>1, <2>2
    <3> QED BY <2>1, <3>1
  <2>3. CASE ~(n >= m)
    <3>1. n + 1 >= m => n + 1 = m
      BY <2>1, <2>3
    <3> QED BY <2>1, <3>1
  <2> QED BY <2>2, <2>3
<1>4. T = Nat
  <2>1. T \in SUBSET Nat
    OBVIOUS
  <2> HIDE DEF T
  <2> QED BY <1>2, <1>3, <2>1, NatSetInduction
<1> QED BY <1>4 DEF P

\* The powers of x, not reduced.
XPowers(x) == Iterate(1, [k \in Nat |-> [v \in Int |-> v * x]])

LEMMA XPowersDef ==
  ASSUME NEW x \in Int
  PROVE  /\ XPowers(x)[0] = 1
         /\ \A n \in Nat : XPowers(x)[n] \in Int /\ XPowers(x)[n + 1] = XPowers(x)[n] * x
<1> DEFINE c == 1
           f == [k \in Nat |-> [v \in Int |-> v * x]]
           r == XPowers(x)
<1>1. \A i \in Nat : \A v \in Int : f[i][v] = v * x /\ f[i][v] \in Int
  OBVIOUS
<1>2. c \in Int /\ r = Iterate(c, f)
  BY DEF XPowers
<1> HIDE DEF c, f, r
<1>3. Follows(r, c, f)
  BY <1>2, IterateDef
<1>4. ASSUME NEW n \in Nat PROVE r[n] \in Int
  <2>1. Stays(Int, f, n)
    BY <1>1 DEF Stays
  <2>2. Within(Int, r, n)
    BY <1>2, <1>3, <2>1, FollowsType
  <2> QED BY <2>2 DEF Within
<1>5. ASSUME NEW n \in Nat PROVE r[n + 1] = r[n] * x
  <2>1. r[n + 1] = f[n + 1][r[n]] /\ n + 1 \in Nat
    BY <1>3 DEF Follows
  <2> QED BY <1>1, <1>4, <2>1
<1>6. r[0] = 1
  BY <1>3 DEF Follows, c
<1> QED BY <1>4, <1>5, <1>6 DEF r

Coefficient(p, n) == IF n \in DOMAIN p THEN p[n] ELSE 0
Terms(p, x) == [n \in Nat |-> IF n = 0 THEN 0 ELSE Coefficient(p, n) * XPowers(x)[n - 1]]

LEMMA TermsFacts ==
  ASSUME NEW p \in Seq(Scalar), NEW x \in Int
  PROVE  /\ Terms(p, x) \in [Nat -> Int]
         /\ \A n \in Nat : /\ Coefficient(p, n) \in Int /\ Coefficient(p, n) \in Scalar
                           /\ Terms(p, x)[n + 1] = Coefficient(p, n + 1) * XPowers(x)[n]
         /\ \A n \in 1 .. Len(p) : Coefficient(p, n) = p[n]
         /\ \A n \in Nat : n > Len(p) => Terms(p, x)[n] = 0
<1> DEFINE f == Terms(p, x)
<1>1. DOMAIN p = 1 .. Len(p) /\ Len(p) \in Nat /\ 0 \in Scalar
  BY OrderFacts DEF Scalar
<1>2. \A n \in Nat : Coefficient(p, n) \in Scalar
  BY <1>1 DEF Coefficient
<1>3. \A n \in Nat : Coefficient(p, n) \in Int
  BY <1>2, OrderFacts
<1>4. \A n \in 1 .. Len(p) : Coefficient(p, n) = p[n]
  BY <1>1 DEF Coefficient
<1>5. ASSUME NEW n \in Nat PROVE f[n] \in Int
  <2>1. CASE n = 0
    BY <2>1 DEF Terms
  <2>2. CASE n # 0
    <3>1. n - 1 \in Nat
      BY <2>2
    <3>2. XPowers(x)[n - 1] \in Int /\ Coefficient(p, n) \in Int
      BY <3>1, <1>3, XPowersDef
    <3>3. f[n] = Coefficient(p, n) * XPowers(x)[n - 1]
      BY <2>2 DEF Terms
    <3> QED BY <3>2, <3>3
  <2> QED BY <2>1, <2>2
<1>6. f \in [Nat -> Int]
  BY <1>5 DEF Terms
<1>7. ASSUME NEW n \in Nat PROVE f[n + 1] = Coefficient(p, n + 1) * XPowers(x)[n]
  <2>1. n + 1 \in Nat /\ n + 1 # 0 /\ (n + 1) - 1 = n
    OBVIOUS
  <2> QED BY <2>1 DEF Terms
<1>8. ASSUME NEW n \in Nat, n > Len(p) PROVE f[n] = 0
  <2>1. n \notin DOMAIN p /\ n # 0 /\ n - 1 \in Nat
    BY <1>1, <1>8
  <2>2. f[n] = 0 * XPowers(x)[n - 1] /\ XPowers(x)[n - 1] \in Int
    BY <2>1, XPowersDef DEF Terms, Coefficient
  <2> QED BY <2>2
<1> QED BY <1>2, <1>3, <1>4, <1>6, <1>7, <1>8

\* A turn of Horner's scheme, of a value v and the terms summed so far.
HornerStep(w, v, x, u, sum) ==
  Same(Order, w * ((v * x + u) % Order) + sum, (w * x) * v + (sum + u * w))

LEMMA HornerTurn ==
  ASSUME NEW w \in Int, NEW v \in Int, NEW x \in Int, NEW u \in Int, NEW sum \in Int
  PROVE  HornerStep(w, v, x, u, sum)
<1> DEFINE t == v * x + u
           r == t % Order
<1>1. t \in Int /\ r \in Int
  BY OrderFacts, ModRange
<1>2. Same(Order, r, t)
  BY <1>1, OrderFacts, SameRefl
<1> HIDE DEF r, t
<1>3. Same(Order, r * w, t * w)
  BY <1>1, <1>2, OrderFacts, SameTimes
<1> DEFINE rw == r * w
           tw == t * w
<1>4. rw \in Int /\ tw \in Int /\ Same(Order, rw, tw) /\ Same(Order, sum, sum)
  BY <1>1, <1>3 DEF Same
<1>5. w * r = rw
  BY <1>1
<1>6. tw = (w * x) * v + u * w
  BY <1>1 DEF t
<1> HIDE DEF rw, tw
<1>7. Same(Order, rw + sum, tw + sum)
  BY <1>4, OrderFacts, SamePlus
<1> DEFINE wxv == (w * x) * v
           uw  == u * w
<1>8. wxv \in Int /\ uw \in Int /\ tw = wxv + uw
  BY <1>6
<1> HIDE DEF wxv, uw
<1>9. tw + sum = wxv + (sum + uw)
  BY <1>8
<1>10. Same(Order, w * r + sum, wxv + (sum + uw))
  BY <1>5, <1>7, <1>9
<1> QED BY <1>10 DEF HornerStep, r, t, wxv, uw

\* evaluate gives the sum of the terms.
LEMMA EvaluateSum ==
  ASSUME NEW p \in Seq(Scalar), p # <<>>, NEW x \in Scalar
  PROVE  /\ Evaluate(p, x) \in Scalar
         /\ Same(Order, Evaluate(p, x), PartialSums(Terms(p, x))[Len(p)])
<1> DEFINE m == Len(p) - 1
           f == [k \in Nat |-> [v \in Scalar |-> (v * x + p[Len(p) - k]) % Order]]
           c == p[Len(p)]
           r == Iterate(c, f)
           P == PartialSums(Terms(p, x))
           W == XPowers(x)
<1>1. m \in Nat /\ Len(p) = m + 1 /\ c \in Scalar /\ x \in Int
  <2>1. Len(p) \in Nat /\ Len(p) # 0
    OBVIOUS
  <2>2. Len(p) \in DOMAIN p
    BY <2>1
  <2>3. c \in Scalar
    BY <2>2
  <2>4. x \in Int
    BY ScalarsAreInts
  <2> HIDE DEF c
  <2> QED BY <2>1, <2>3, <2>4
<1>2. \A k \in 1 .. m : p[Len(p) - k] \in Scalar /\ Len(p) - k \in 1 .. Len(p)
  BY <1>1
<1>3. ASSUME NEW k \in 1 .. m, NEW v \in Scalar
      PROVE  f[k][v] = (v * x + p[Len(p) - k]) % Order /\ f[k][v] \in Scalar
  <2>1. p[Len(p) - k] \in Int /\ v \in Int /\ k \in Nat
    <3>1. p[Len(p) - k] \in Scalar /\ k \in Nat
      BY <1>2
    <3> QED BY <3>1, ScalarsAreInts
  <2>2. v * x + p[Len(p) - k] \in Int
    BY <1>1, <2>1
  <2>3. f[k][v] = (v * x + p[Len(p) - k]) % Order
    BY <2>1
  <2> QED BY <2>2, <2>3, OrderFacts
<1>4. Evaluate(p, x) = r[m]
  BY DEF Evaluate
<1>5. Follows(r, c, f) /\ Within(Scalar, r, m)
  <2> HIDE DEF f, c, m
  <2>1. Stays(Scalar, f, m)
    BY <1>3 DEF Stays
  <2> QED BY <1>1, <2>1, IterateType
<1>6. /\ P \in [Nat -> Int] /\ P[0] = 0
      /\ \A n \in Nat : P[n + 1] = P[n] + Terms(p, x)[n + 1]
  BY <1>1, TermsFacts, PartialSumsDef
<1>7. W[0] = 1 /\ \A n \in Nat : W[n] \in Int /\ W[n + 1] = W[n] * x
  BY <1>1, XPowersDef
<1>8. \A n \in 0 .. m : P[n + 1] = P[n] + p[n + 1] * W[n]
  <2> SUFFICES ASSUME NEW n \in 0 .. m PROVE P[n + 1] = P[n] + p[n + 1] * W[n]
    OBVIOUS
  <2>1. n \in Nat /\ n + 1 \in 1 .. Len(p) /\ n + 1 \in Nat
    BY <1>1
  <2>2. Terms(p, x)[n + 1] = Coefficient(p, n + 1) * W[n] /\ Coefficient(p, n + 1) = p[n + 1]
    BY <1>1, <2>1, TermsFacts
  <2> QED BY <1>6, <2>1, <2>2
<1> DEFINE Inv(k) == Same(Order, W[m - k] * r[k] + P[m - k], P[m + 1])
           T == {k \in Nat : k <= m => Inv(k)}
<1> HIDE DEF P, W, f, r, m
<1>9. 0 \in T
  <2>1. r[0] = p[m + 1] /\ m - 0 = m /\ P[m + 1] = P[m] + p[m + 1] * W[m]
    BY <1>1, <1>5, <1>8 DEF Follows
  <2>2. p[m + 1] \in Int /\ W[m] \in Int /\ P[m] \in Int /\ p[m + 1] * W[m] \in Int
    <3>1. p[m + 1] \in Scalar
      BY <1>1
    <3>2. p[m + 1] \in Int
      BY <3>1, ScalarsAreInts
    <3>3. W[m] \in Int /\ P[m] \in Int
      BY <1>1, <1>6, <1>7
    <3> QED BY <3>2, <3>3
  <2>3. W[m] * p[m + 1] = p[m + 1] * W[m]
    BY <2>2
  <2>4. W[m] * p[m + 1] + P[m] = P[m] + p[m + 1] * W[m]
    BY <2>2, <2>3
  <2> QED BY <2>1, <2>4 DEF Same
<1>10. ASSUME NEW k \in T PROVE k + 1 \in T
  <2> SUFFICES ASSUME k + 1 <= m PROVE Inv(k + 1)
    OBVIOUS
  <2> DEFINE n == m - (k + 1)
  <2>1. /\ k \in Nat /\ n \in Nat /\ n \in 0 .. m /\ n + 1 = m - k /\ k + 1 \in 1 .. m /\ k \in 0 .. m
        /\ Len(p) - (k + 1) = n + 1 /\ n + 1 \in 1 .. m /\ Inv(k)
    BY <1>1
  <2> HIDE DEF n
  <2>2. r[k] \in Scalar /\ r[k] \in Int /\ p[n + 1] \in Int /\ W[n] \in Int /\ P[n] \in Int
    <3>1. r[k] \in Scalar
      BY <1>5, <2>1 DEF Within
    <3>2. p[n + 1] \in Scalar
      BY <1>2, <2>1
    <3> QED BY <1>6, <1>7, <2>1, <3>1, <3>2, OrderFacts
  <2>3. r[k + 1] = (r[k] * x + p[n + 1]) % Order
    <3>1. r[k + 1] = f[k + 1][r[k]]
      BY <1>5, <2>1 DEF Follows
    <3>2. f[k + 1][r[k]] = (r[k] * x + p[Len(p) - (k + 1)]) % Order
      BY <1>3, <2>1, <2>2
    <3> QED BY <2>1, <3>1, <3>2
  <2>4. HornerStep(W[n], r[k], x, p[n + 1], P[n])
    BY <1>1, <2>2, HornerTurn
  <2>5. W[n + 1] = W[n] * x /\ P[n + 1] = P[n] + p[n + 1] * W[n]
    BY <1>7, <1>8, <2>1
  <2>6. Same(Order, W[n] * r[k + 1] + P[n], W[n + 1] * r[k] + P[n + 1])
    BY <2>3, <2>4, <2>5 DEF HornerStep
  <2>7. Same(Order, W[n + 1] * r[k] + P[n + 1], P[m + 1])
    BY <2>1
  <2>8. Same(Order, W[n] * r[k + 1] + P[n], P[m + 1])
    BY <2>6, <2>7 DEF Same
  <2> QED BY <2>8 DEF n
<1>11. T = Nat
  <2>1. T \in SUBSET Nat
    OBVIOUS
  <2> HIDE DEF T
  <2> QED BY <1>9, <1>10, <2>1, NatSetInduction
<1>12. Inv(m)
  BY <1>1, <1>11
<1>13. r[m] \in Scalar /\ r[m] \in Int
  <2>1. r[m] \in Scalar
    BY <1>1, <1>5 DEF Within
  <2> QED BY <2>1, OrderFacts
<1>14. W[0] * r[m] + P[0] = r[m] /\ m - m = 0
  <2>1. 1 * r[m] + 0 = r[m]
    BY <1>13
  <2> QED BY <1>1, <1>6, <1>7, <2>1
<1>15. Same(Order, r[m], P[Len(p)])
  BY <1>1, <1>12, <1>14
<1> QED BY <1>4, <1>13, <1>15 DEF P

LEMMA CombinedScale ==
  ASSUME NEW N \in Nat \ {0}, NEW j \in Int, NEW k \in Int, NEW w \in Int,
         NEW f \in Int, NEW g \in Int, NEW h \in Int, Combined(N, f, j, g, k, h)
  PROVE  Combined(N, f * w, j, g * w, k, h * w)
<1> DEFINE c == g * j + h * k
<1>1. g * j \in Int /\ h * k \in Int
  OBVIOUS
<1>2. c \in Int /\ Same(N, f, c)
  BY <1>1 DEF Combined
<1>3. (g * w) * j + (h * w) * k = c * w
  OBVIOUS
<1> HIDE DEF c
<1>4. Same(N, f * w, c * w)
  BY <1>2, SameTimes
<1> QED BY <1>3, <1>4 DEF Combined

\* A polynomial whose coefficients are combinations of those of two others has
\* the combination of their values.
CombinedTerms(r, j, p, k, q) ==
  \A n \in Nat : Combined(Order, Coefficient(r, n), j, Coefficient(p, n), k, Coefficient(q, n))

LEMMA EvaluateCombined ==
  ASSUME NEW p \in Seq(Scalar), NEW q \in Seq(Scalar), NEW r \in Seq(Scalar),
         p # <<>>, q # <<>>, r # <<>>, NEW x \in Scalar, NEW j \in Int, NEW k \in Int,
         CombinedTerms(r, j, p, k, q)
  PROVE  Evaluate(r, x) = (Evaluate(p, x) * j + Evaluate(q, x) * k) % Order
<1> DEFINE m == Len(p) + Len(q) + Len(r)
           Ep == Evaluate(p, x)
           Eq == Evaluate(q, x)
           Er == Evaluate(r, x)
           Tp == Terms(p, x)
           Tq == Terms(q, x)
           Tr == Terms(r, x)
           Sp == PartialSums(Tp)[m]
           Sq == PartialSums(Tq)[m]
           Sr == PartialSums(Tr)[m]
<1>1. /\ Len(p) \in Nat /\ Len(q) \in Nat /\ Len(r) \in Nat /\ x \in Int
      /\ m \in Nat /\ m >= Len(p) /\ m >= Len(q) /\ m >= Len(r)
  BY ScalarsAreInts
<1>2. Tp \in [Nat -> Int] /\ Tq \in [Nat -> Int] /\ Tr \in [Nat -> Int]
  BY <1>1, TermsFacts
<1>3. ASSUME NEW s \in Seq(Scalar), s # <<>>, m >= Len(s)
      PROVE  /\ Evaluate(s, x) \in Scalar /\ Evaluate(s, x) \in Int
             /\ Same(Order, Evaluate(s, x), PartialSums(Terms(s, x))[m])
             /\ PartialSums(Terms(s, x))[m] \in Int
  <2> DEFINE F == Terms(s, x)
             l == Len(s)
  <2>1. F \in [Nat -> Int] /\ \A i \in Nat : i > l => F[i] = 0
    BY <1>1, TermsFacts
  <2>2. l \in Nat
    OBVIOUS
  <2>3. Evaluate(s, x) \in Scalar /\ Same(Order, Evaluate(s, x), PartialSums(F)[l])
    BY <1>3, EvaluateSum
  <2> HIDE DEF F, l, m
  <2>4. \A i \in Nat : i >= l => PartialSums(F)[i] = PartialSums(F)[l]
    BY <2>1, <2>2, SumsStay
  <2>5. PartialSums(F)[m] = PartialSums(F)[l]
    BY <1>1, <1>3, <2>4 DEF l
  <2>6. PartialSums(F)[m] \in Int
    BY <1>1, <2>1, PartialSumsDef
  <2>7. Evaluate(s, x) \in Int
    BY <2>3, ScalarsAreInts
  <2> QED BY <2>3, <2>5, <2>6, <2>7 DEF F
<1> HIDE DEF m
<1>4. /\ Ep \in Int /\ Eq \in Int /\ Er \in Scalar /\ Sp \in Int /\ Sq \in Int /\ Sr \in Int
      /\ Same(Order, Ep, Sp) /\ Same(Order, Eq, Sq) /\ Same(Order, Er, Sr)
  BY <1>1, <1>3
<1>5. \A n \in Nat \ {0} : Combined(Order, Tr[n], j, Tp[n], k, Tq[n])
  <2> SUFFICES ASSUME NEW n \in Nat \ {0} PROVE Combined(Order, Tr[n], j, Tp[n], k, Tq[n])
    OBVIOUS
  <2> DEFINE l == n - 1
             w == XPowers(x)[l]
             cp == Coefficient(p, n)
             cq == Coefficient(q, n)
             cr == Coefficient(r, n)
  <2>1. l \in Nat /\ n = l + 1 /\ n \in Nat
    OBVIOUS
  <2>2. w \in Int
    BY <1>1, <2>1, XPowersDef
  <2>3. cp \in Int /\ cq \in Int /\ cr \in Int
    BY <1>1, <2>1, TermsFacts
  <2>4. Tp[n] = cp * w /\ Tq[n] = cq * w /\ Tr[n] = cr * w
    <3>1. ASSUME NEW s \in Seq(Scalar) PROVE Terms(s, x)[l + 1] = Coefficient(s, l + 1) * XPowers(x)[l]
      BY <1>1, <2>1, TermsFacts
    <3>2. /\ Terms(p, x)[l + 1] = Coefficient(p, l + 1) * XPowers(x)[l]
          /\ Terms(q, x)[l + 1] = Coefficient(q, l + 1) * XPowers(x)[l]
          /\ Terms(r, x)[l + 1] = Coefficient(r, l + 1) * XPowers(x)[l]
      BY <3>1
    <3> HIDE DEF l
    <3> QED BY <2>1, <3>2
  <2>5. Combined(Order, cr, j, cp, k, cq)
    BY <2>1 DEF CombinedTerms
  <2> HIDE DEF w, cp, cq, cr, Tp, Tq, Tr
  <2>6. Combined(Order, cr * w, j, cp * w, k, cq * w)
    BY <2>2, <2>3, <2>5, OrderFacts, CombinedScale
  <2> QED BY <2>4, <2>6
<1> HIDE DEF Tp, Tq, Tr
<1>6. Combined(Order, Sr, j, Sp, k, Sq)
  BY <1>1, <1>2, <1>5, OrderFacts, SumsCombined
<1> HIDE DEF Ep, Eq, Er, Sp, Sq, Sr
<1>7. Same(Order, Ep * j, Sp * j) /\ Same(Order, Eq * k, Sq * k)
  BY <1>4, OrderFacts, SameTimes
<1> DEFINE ej == Ep * j
           ek == Eq * k
           sj == Sp * j
           sk == Sq * k
<1>8. /\ ej \in Int /\ ek \in Int /\ sj \in Int /\ sk \in Int
      /\ Same(Order, ej, sj) /\ Same(Order, ek, sk) /\ Same(Order, Sr, sj + sk)
  BY <1>4, <1>6, <1>7 DEF Combined
<1> HIDE DEF ej, ek, sj, sk
<1>9. Same(Order, ej + ek, sj + sk)
  BY <1>8, OrderFacts, SamePlus
<1>10. Same(Order, Er, ej + ek)
  BY <1>4, <1>8, <1>9 DEF Same
<1>11. Er % Order = Er
  BY <1>4, OrderFacts
<1> QED BY <1>10, <1>11 DEF Same, Ep, Eq, Er, ej, ek

\* The coefficients of what the operators of polynomials give.
LEMMA TimesFacts ==
  ASSUME NEW p \in Seq(Scalar), NEW s \in Int
  PROVE  /\ Times(p, s) \in Seq(Scalar) /\ Len(Times(p, s)) = Len(p)
         /\ \A n \in Nat : Coefficient(Times(p, s), n) = (Coefficient(p, n) * s) % Order
<1> DEFINE t == Times(p, s)
           m == Len(p)
<1>1. m \in Nat /\ DOMAIN p = 1 .. m
  OBVIOUS
<1>2. ASSUME NEW i \in 1 .. m PROVE (p[i] * s) % Order \in Scalar
  <2>1. p[i] \in Scalar
    BY <1>1
  <2>2. p[i] \in Int
    BY <2>1, ScalarsAreInts
  <2>3. p[i] * s \in Int
    BY <2>2
  <2> QED BY <2>3, OrderFacts
<1>3. t = [i \in 1 .. m |-> (p[i] * s) % Order]
  BY <1>1 DEF Times
<1>4. t \in [1 .. m -> Scalar]
  BY <1>2, <1>3
<1> HIDE DEF t, m
<1>5. t \in Seq(Scalar)
  BY <1>1, <1>4
<1>6. DOMAIN t = 1 .. m
  BY <1>4
<1>7. Len(t) = m
  BY <1>1, <1>5, <1>6
<1>8. ASSUME NEW n \in Nat PROVE Coefficient(t, n) = (Coefficient(p, n) * s) % Order
  <2>1. CASE n \in 1 .. m
    BY <1>1, <1>3, <1>6, <2>1 DEF Coefficient
  <2>2. CASE n \notin 1 .. m
    <3>1. Coefficient(t, n) = 0 /\ Coefficient(p, n) = 0
      BY <1>1, <1>6, <2>2 DEF Coefficient
    <3>2. 0 * s = 0 /\ 0 \in Scalar
      BY OrderFacts DEF Scalar
    <3>3. 0 % Order = 0
      BY <3>2, OrderFacts
    <3> QED BY <3>1, <3>2, <3>3
  <2> QED BY <2>1, <2>2
<1> QED BY <1>5, <1>7, <1>8 DEF t, m

LEMMA MinusFacts ==
  ASSUME NEW p \in Seq(Scalar), NEW q \in Seq(Scalar)
  PROVE  /\ Minus(p, q) \in Seq(Scalar) /\ Len(Minus(p, q)) >= Len(p) /\ Len(Minus(p, q)) >= Len(q)
         /\ \A n \in Nat : Coefficient(Minus(p, q), n) =
              (Coefficient(p, n) + ((Coefficient(q, n) * (-1)) % Order)) % Order
<1> DEFINE t == Times(q, -1)
           d == Minus(p, q)
           m == IF Len(p) > Len(q) THEN Len(p) ELSE Len(q)
           c(n) == (Coefficient(p, n) + Coefficient(t, n)) % Order
<1>1. -1 \in Int
  OBVIOUS
<1>2. t \in Seq(Scalar) /\ Len(t) = Len(q)
      /\ \A n \in Nat : Coefficient(t, n) = (Coefficient(q, n) * (-1)) % Order
  BY <1>1, TimesFacts
<1> HIDE DEF t
<1>3. /\ DOMAIN p = 1 .. Len(p) /\ DOMAIN t = 1 .. Len(q) /\ Len(p) \in Nat /\ Len(q) \in Nat
      /\ m \in Nat /\ m >= Len(p) /\ m >= Len(q)
  BY <1>2
<1>4. DOMAIN p \cup DOMAIN t = 1 .. m
  BY <1>3
<1>5. d = [i \in 1 .. m |-> c(i)]
  <2>1. d = [i \in DOMAIN p \cup DOMAIN t |-> c(i)]
    BY DEF Minus, Plus, t, Coefficient
  <2> QED BY <1>4, <2>1
<1>6. ASSUME NEW n \in Nat PROVE c(n) \in Scalar
  <2>1. Coefficient(p, n) \in Int /\ Coefficient(t, n) \in Int
    BY <1>2, TermsFacts, 1 \in Int
  <2>2. Coefficient(p, n) + Coefficient(t, n) \in Int
    BY <2>1
  <2> QED BY <2>2, OrderFacts
<1> HIDE DEF m, d, c
<1>7. d \in [1 .. m -> Scalar]
  <2>1. \A i \in 1 .. m : i \in Nat
    BY <1>3
  <2> QED BY <1>5, <1>6, <2>1
<1>8. d \in Seq(Scalar)
  BY <1>3, <1>7
<1>9. DOMAIN d = 1 .. m
  BY <1>7
<1>10. Len(d) = m
  BY <1>3, <1>8, <1>9
<1>11. ASSUME NEW n \in Nat PROVE Coefficient(d, n) = c(n)
  <2>1. CASE n \in 1 .. m
    BY <1>5, <1>9, <2>1 DEF Coefficient
  <2>2. CASE n \notin 1 .. m
    <3>1. n \notin DOMAIN p /\ n \notin DOMAIN t
      BY <1>4, <2>2
    <3>2. Coefficient(d, n) = 0 /\ Coefficient(p, n) = 0 /\ Coefficient(t, n) = 0
      BY <1>9, <2>2, <3>1 DEF Coefficient
    <3>3. 0 \in Scalar /\ 0 + 0 = 0
      BY OrderFacts DEF Scalar
    <3>4. 0 % Order = 0
      BY <3>3, OrderFacts
    <3> QED BY <3>2, <3>3, <3>4 DEF c
  <2> QED BY <2>1, <2>2
<1> QED BY <1>2, <1>3, <1>8, <1>10, <1>11 DEF c, d

\* The response of LdeiProof::prove, and the witness two of them give.
LEMMA ResponseCombined ==
  ASSUME NEW p \in Seq(Scalar), NEW q \in Seq(Scalar), NEW s \in Int
  PROVE  CombinedTerms(Minus(p, Times(q, s)), 1, p, 0 - s, q)
<1> DEFINE t == Times(q, s)
           d == Minus(p, t)
           k == 0 - s
<1>1. t \in Seq(Scalar) /\ \A n \in Nat : Coefficient(t, n) = (Coefficient(q, n) * s) % Order
  BY TimesFacts
<1> HIDE DEF t
<1>2. \A n \in Nat : Coefficient(d, n) =
        (Coefficient(p, n) + ((Coefficient(t, n) * (-1)) % Order)) % Order
  BY <1>1, MinusFacts
<1> HIDE DEF d
<1>3. ASSUME NEW n \in Nat PROVE Combined(Order, Coefficient(d, n), 1, Coefficient(p, n), k, Coefficient(q, n))
  <2> DEFINE u == Coefficient(p, n)
             v == Coefficient(q, n)
             v1 == v * s
             r1 == v1 % Order
             v2 == r1 * (-1)
             r2 == v2 % Order
             v3 == v1 * (-1)
             w == u + r2
             y == u + v3
  <2>1. u \in Int /\ v \in Int
    BY TermsFacts, 1 \in Int
  <2>2. v1 \in Int /\ v3 \in Int /\ -1 \in Int
    BY <2>1
  <2>3. r1 \in Int /\ Same(Order, r1, v1)
    BY <2>2, OrderFacts, SameRefl
  <2>4. Coefficient(d, n) = w % Order
    BY <1>1, <1>2
  <2>5. y = u * 1 + v * k
    BY <2>1
  <2> HIDE DEF u, v, v1, r1
  <2>6. v2 \in Int /\ Same(Order, v2, v3)
    <3> DEFINE o == -1
    <3>1. o \in Int /\ v2 = r1 * o /\ v3 = v1 * o
      OBVIOUS
    <3> HIDE DEF o, v2, v3
    <3>2. Same(Order, r1 * o, v1 * o)
      BY <2>2, <2>3, <3>1, OrderFacts, SameTimes
    <3>3. r1 * o \in Int
      BY <2>3, <3>1
    <3> QED BY <3>1, <3>2, <3>3
  <2> HIDE DEF v2, v3
  <2>7. r2 \in Int /\ Same(Order, r2, v2)
    BY <2>6, OrderFacts, SameRefl
  <2> HIDE DEF r2
  <2>8. Same(Order, r2, v3) /\ Same(Order, u, u)
    BY <2>6, <2>7 DEF Same
  <2>9. Same(Order, w, y)
    BY <2>1, <2>2, <2>7, <2>8, OrderFacts, SamePlus
  <2>10. w \in Int
    BY <2>1, <2>7
  <2> HIDE DEF w, y
  <2>11. Same(Order, w % Order, w)
    BY <2>10, OrderFacts, SameRefl
  <2>12. Same(Order, w % Order, y)
    BY <2>9, <2>11 DEF Same
  <2> QED BY <2>4, <2>5, <2>12 DEF Combined, u, v
<1> QED BY <1>3 DEF CombinedTerms, d, t, k

\* The two answers' difference, divided by that of the challenges.
LEMMA ExtractedCombined ==
  ASSUME NEW p \in Seq(Scalar), NEW q \in Seq(Scalar), NEW s \in Int
  PROVE  CombinedTerms(Times(Minus(p, q), s), s, p, 0 - s, q)
<1> DEFINE d == Minus(p, q)
           t == Times(d, s)
           k == 0 - s
<1>1. d \in Seq(Scalar) /\ \A n \in Nat : Coefficient(d, n) =
        (Coefficient(p, n) + ((Coefficient(q, n) * (-1)) % Order)) % Order
  BY MinusFacts
<1> HIDE DEF d
<1>2. \A n \in Nat : Coefficient(t, n) = (Coefficient(d, n) * s) % Order
  BY <1>1, TimesFacts
<1> HIDE DEF t
<1>3. ASSUME NEW n \in Nat PROVE Combined(Order, Coefficient(t, n), s, Coefficient(p, n), k, Coefficient(q, n))
  <2> DEFINE u == Coefficient(p, n)
             v == Coefficient(q, n)
             v3 == v * (-1)
             r2 == v3 % Order
             w == u + r2
             r3 == w % Order
             y == u + v3
             x == r3 * s
  <2>1. u \in Int /\ v \in Int
    BY TermsFacts, 1 \in Int
  <2>2. v3 \in Int /\ y \in Int
    BY <2>1
  <2>3. r2 \in Int /\ Same(Order, r2, v3) /\ Same(Order, u, u)
    BY <2>2, OrderFacts, SameRefl DEF Same
  <2>4. Coefficient(t, n) = x % Order
    BY <1>1, <1>2
  <2>5. y * s = u * s + v * k
    BY <2>1
  <2> HIDE DEF u, v, v3, r2
  <2>6. Same(Order, w, y) /\ w \in Int
    <3>1. Same(Order, u + r2, u + v3)
      BY <2>1, <2>2, <2>3, OrderFacts, SamePlus
    <3> QED BY <2>1, <2>3, <3>1
  <2> HIDE DEF w, y
  <2>7. r3 \in Int /\ Same(Order, r3, w)
    BY <2>6, OrderFacts, SameRefl
  <2> HIDE DEF r3
  <2>8. Same(Order, r3, y)
    BY <2>6, <2>7 DEF Same
  <2>9. Same(Order, r3 * s, y * s)
    BY <2>2, <2>7, <2>8, OrderFacts, SameTimes
  <2>10. x \in Int /\ x = r3 * s
    BY <2>7
  <2> HIDE DEF x
  <2>11. Same(Order, x % Order, x)
    BY <2>10, OrderFacts, SameRefl
  <2>12. Same(Order, x % Order, y * s)
    BY <2>9, <2>10, <2>11 DEF Same
  <2> QED BY <2>4, <2>5, <2>12 DEF Combined, u, v
<1> QED BY <1>3 DEF CombinedTerms, d, t, k

-----------------------------------------------------------------------------
(* Interpolation. *)

\* The sum of the first n values of v, each with its weight.
Weighted(w, v) == PartialSums([i \in Nat |-> w[i] * v[i]])
PowersAt(x, k) == [i \in Nat |-> XPowers(x[i])[k]]

\* w[lo][hi] are the weights of the points x[lo], ... x[hi]: times the distance
\* to the first of them, or to the last, they are those of the points without it
\* times the distance from zero.
OverRange(f, lo, hi) == f \in [Nat -> Int] /\ \A i \in Nat : i \notin lo .. hi => f[i] = 0
Without(w, x, lo, hi, j, l, h) ==
  \A i \in Nat : Same(Order, w[lo][hi][i] * (x[j] - x[i]), w[l][h][i] * x[j])
Lagrange(w, x, n) ==
  /\ \A lo, hi \in 1 .. n : OverRange(w[lo][hi], lo, hi)
  /\ \A lo \in 1 .. n : Same(Order, w[lo][lo][lo], 1)
  /\ \A lo, hi \in 1 .. n : lo < hi => /\ Without(w, x, lo, hi, hi, lo, hi - 1)
                                       /\ Without(w, x, lo, hi, lo, lo + 1, hi)
Apart(x, n) == \A i, j \in 1 .. n : i # j => ~ Same(Order, x[i] - x[j], 0)

\* The weighted sums of the powers, of the points with and without one.
LEMMA PowersAtFacts ==
  ASSUME NEW x \in [Nat -> Int]
  PROVE  /\ \A k \in Nat : PowersAt(x, k) \in [Nat -> Int]
         /\ \A i \in Nat : PowersAt(x, 0)[i] = 1
         /\ \A k, i \in Nat : PowersAt(x, k + 1)[i] = PowersAt(x, k)[i] * x[i]
<1>1. \A i \in Nat : x[i] \in Int
  OBVIOUS
<1>2. \A k, i \in Nat : XPowers(x[i])[k] \in Int /\ XPowers(x[i])[k + 1] = XPowers(x[i])[k] * x[i]
  BY <1>1, XPowersDef
<1>3. \A i \in Nat : XPowers(x[i])[0] = 1
  BY <1>1, XPowersDef
<1>4. ASSUME NEW k \in Nat, NEW i \in Nat PROVE PowersAt(x, k)[i] = XPowers(x[i])[k]
  BY DEF PowersAt
<1>5. \A k, i \in Nat : PowersAt(x, k + 1)[i] = PowersAt(x, k)[i] * x[i]
  <2> SUFFICES ASSUME NEW k \in Nat, NEW i \in Nat PROVE PowersAt(x, k + 1)[i] = PowersAt(x, k)[i] * x[i]
    OBVIOUS
  <2>1. k + 1 \in Nat
    OBVIOUS
  <2> QED BY <1>2, <1>4, <2>1
<1>6. \A k \in Nat : PowersAt(x, k) \in [Nat -> Int]
  BY <1>2 DEF PowersAt
<1>7. \A i \in Nat : PowersAt(x, 0)[i] = 1
  BY <1>3, <1>4
<1> QED BY <1>5, <1>6, <1>7

LEMMA WeightedDef ==
  ASSUME NEW w \in [Nat -> Int], NEW v \in [Nat -> Int]
  PROVE  /\ Weighted(w, v) \in [Nat -> Int] /\ Weighted(w, v)[0] = 0
         /\ \A n \in Nat : Weighted(w, v)[n + 1] = Weighted(w, v)[n] + w[n + 1] * v[n + 1]
<1> DEFINE f == [i \in Nat |-> w[i] * v[i]]
<1>1. f \in [Nat -> Int]
  OBVIOUS
<1>2. \A i \in Nat : f[i + 1] = w[i + 1] * v[i + 1]
  OBVIOUS
<1> HIDE DEF f
<1>3. /\ PartialSums(f) \in [Nat -> Int] /\ PartialSums(f)[0] = 0
      /\ \A n \in Nat : PartialSums(f)[n + 1] = PartialSums(f)[n] + f[n + 1]
  BY <1>1, PartialSumsDef
<1> QED BY <1>2, <1>3 DEF f, Weighted

\* Of the numbers a = w * p, b = v * p, and w * (d - y) = v * d: w * (p * y) = a * d - b * d.
DroppedTerm(w, v, p, y, d) == Combined(Order, w * (p * y), d, w * p, 0 - d, v * p)

LEMMA DropTerm ==
  ASSUME NEW w \in Int, NEW v \in Int, NEW p \in Int, NEW y \in Int, NEW d \in Int,
         Same(Order, w * (d - y), v * d)
  PROVE  DroppedTerm(w, v, p, y, d)
<1> DEFINE a == w * (d - y)
           b == v * d
           c == (w * p) * d
           e == a * p
           g == b * p
<1>1. a \in Int /\ b \in Int /\ c \in Int /\ e \in Int /\ g \in Int
  OBVIOUS
<1>2. c - e = w * (p * y)
  <2>1. w * (p * y) \in Int /\ e = (w * p) * d - w * (p * y)
    OBVIOUS
  <2> HIDE DEF c, e
  <2> QED BY <1>1, <2>1 DEF c
<1>3. c - g = (w * p) * d + (v * p) * (0 - d)
  <2>1. (v * p) * (0 - d) = 0 - g
    OBVIOUS
  <2> DEFINE z == (v * p) * (0 - d)
  <2>2. z \in Int /\ z = 0 - g
    BY <2>1
  <2> HIDE DEF c, g, z
  <2>3. c - g = c + z
    BY <1>1, <2>2
  <2> QED BY <2>3 DEF z, c
<1>4. Same(Order, a, b)
  OBVIOUS
<1> HIDE DEF a, b
<1>5. Same(Order, e, g)
  BY <1>1, <1>4, OrderFacts, SameTimes
<1>6. Same(Order, c, c)
  BY DEF Same
<1> HIDE DEF c, e, g
<1>7. Same(Order, c - e, c - g)
  BY <1>1, <1>5, <1>6, OrderFacts, SameMinus
<1> QED BY <1>2, <1>3, <1>7 DEF DroppedTerm, Combined

LEMMA DropPoint ==
  ASSUME NEW n \in Nat, NEW x \in [Nat -> Int], NEW w, NEW lo, NEW hi, NEW l, NEW h, NEW j \in Nat,
         w[lo][hi] \in [Nat -> Int], w[l][h] \in [Nat -> Int], Without(w, x, lo, hi, j, l, h),
         NEW k \in Nat
  PROVE  Combined(Order, Weighted(w[lo][hi], PowersAt(x, k + 1))[n],
                  x[j], Weighted(w[lo][hi], PowersAt(x, k))[n],
                  0 - x[j], Weighted(w[l][h], PowersAt(x, k))[n])
<1> DEFINE u == w[lo][hi]
           v == w[l][h]
           p == PowersAt(x, k)
           q == PowersAt(x, k + 1)
           d == x[j]
           e == 0 - d
           F == [i \in Nat |-> u[i] * q[i]]
           I == [i \in Nat |-> u[i] * p[i]]
           J == [i \in Nat |-> v[i] * p[i]]
<1>1. u \in [Nat -> Int] /\ v \in [Nat -> Int] /\ d \in Int /\ e \in Int
  OBVIOUS
<1>2. p \in [Nat -> Int] /\ q \in [Nat -> Int] /\ \A i \in Nat : q[i] = p[i] * x[i]
  <2>1. k + 1 \in Nat
    OBVIOUS
  <2> QED BY <2>1, PowersAtFacts
<1>3. \A i \in Nat : Same(Order, u[i] * (d - x[i]), v[i] * d)
  BY DEF Without
<1> HIDE DEF u, v, p, q, d
<1>4. F \in [Nat -> Int] /\ I \in [Nat -> Int] /\ J \in [Nat -> Int]
  BY <1>1, <1>2
<1>5. ASSUME NEW i \in Nat \ {0} PROVE Combined(Order, F[i], d, I[i], e, J[i])
  <2>1. u[i] \in Int /\ v[i] \in Int /\ p[i] \in Int /\ x[i] \in Int /\ q[i] = p[i] * x[i]
    BY <1>1, <1>2
  <2>2. DroppedTerm(u[i], v[i], p[i], x[i], d)
    BY <1>1, <1>3, <2>1, DropTerm
  <2> QED BY <2>1, <2>2 DEF DroppedTerm
<1> HIDE DEF F, I, J, e
<1>6. \A m \in Nat : Combined(Order, PartialSums(F)[m], d, PartialSums(I)[m], e, PartialSums(J)[m])
  BY <1>1, <1>4, <1>5, OrderFacts, SumsCombined
<1> QED BY <1>6 DEF F, I, J, u, v, p, q, d, e, Weighted

\* What times something that is not zero is zero is zero.
LEMMA ZeroFactor ==
  ASSUME NEW y \in Int, NEW d \in Int, Same(Order, y * d, 0), ~ Same(Order, d, 0)
  PROVE  Same(Order, y, 0)
<1> DEFINE r == d % Order
           z == 0
<1>1. r \in 0 .. Order - 1 /\ r \in Int /\ Same(Order, r, d) /\ Order \in Nat \ {0} /\ z % Order = z
  <2>1. 0 \in 0 .. Order - 1
    BY OrderFacts
  <2> QED BY <2>1, OrderFacts, ModRange, SameRefl, ModSmall
<1> HIDE DEF r
<1>2. r # z
  BY <1>1 DEF Same, z
<1>3. r \in 1 .. Order - 1
  BY <1>1, <1>2 DEF z
<1>4. Same(Order, r * y, d * y)
  BY <1>1, SameTimes
<1>5. r * y = y * r /\ d * y = y * d
  BY <1>1
<1>6. Same(Order, y * r, 0)
  BY <1>4, <1>5 DEF Same
<1>7. ~ Same(Order, y, 0) => ~ Same(Order, y * r, 0)
  BY <1>1, <1>3, OrderFacts, PrimeNonzero
<1> QED BY <1>6, <1>7

\* The sums of the powers with the weights of the points lo to hi: one for the
\* zeroth, zero for the others up to the number of the points.
Interpolates(w, x, n, lo, hi) ==
  /\ Same(Order, Weighted(w[lo][hi], PowersAt(x, 0))[n], 1)
  /\ \A k \in 1 .. hi - lo : Same(Order, Weighted(w[lo][hi], PowersAt(x, k))[n], 0)

LEMMA OnePoint ==
  ASSUME NEW n \in Nat, NEW x \in [Nat -> Int], NEW w, NEW lo \in 1 .. n, Lagrange(w, x, n)
  PROVE  Interpolates(w, x, n, lo, lo)
<1> DEFINE u == w[lo][lo]
           p == PowersAt(x, 0)
           F == [i \in Nat |-> u[i] * p[i]]
<1>1. u \in [Nat -> Int] /\ (\A i \in Nat : i # lo => u[i] = 0) /\ Same(Order, u[lo], 1)
  <2>1. OverRange(u, lo, lo) /\ Same(Order, u[lo], 1)
    BY DEF Lagrange
  <2>2. lo .. lo = {lo}
    OBVIOUS
  <2> QED BY <2>1, <2>2 DEF OverRange
<1>2. p \in [Nat -> Int] /\ \A i \in Nat : p[i] = 1
  BY PowersAtFacts
<1> HIDE DEF u, p
<1>3. F \in [Nat -> Int] /\ \A i \in Nat : F[i] = u[i]
  BY <1>1, <1>2
<1> HIDE DEF F
<1>4. \A i \in (1 .. n) \ {lo} : F[i] = 0
  BY <1>1, <1>3
<1>5. PartialSums(F)[n] = F[lo]
  BY <1>3, <1>4, PartialSumsSingle
<1>6. PartialSums(F)[n] = u[lo]
  BY <1>3, <1>5
<1>7. \A k \in 1 .. lo - lo : FALSE
  OBVIOUS
<1> QED BY <1>1, <1>6, <1>7 DEF Interpolates, Weighted, F, u, p

\* From a combination of two sums one of which is known.
LEMMA CombinedKnown ==
  ASSUME NEW g \in Int, NEW f \in Int, NEW h \in Int, NEW d \in Int, NEW c \in Int,
         Combined(Order, g, d, f, 0 - d, h), Same(Order, h, c)
  PROVE  Same(Order, g, (f - c) * d)
<1> DEFINE fd == f * d
           hd == h * d
           cd == c * d
           e  == fd + h * (0 - d)
<1>1. fd \in Int /\ hd \in Int /\ cd \in Int /\ (f - c) * d = fd - cd /\ e = fd - hd
  OBVIOUS
<1>2. Same(Order, hd, cd)
  BY OrderFacts, SameTimes
<1>3. Same(Order, g, e) /\ Same(Order, fd, fd)
  BY DEF Combined, Same
<1> HIDE DEF fd, hd, cd, e
<1>4. Same(Order, fd - hd, fd - cd)
  BY <1>1, <1>2, <1>3, OrderFacts, SameMinus
<1> QED BY <1>1, <1>3, <1>4 DEF Same

LEMMA MorePoints ==
  ASSUME NEW n \in Nat, NEW x \in [Nat -> Int], NEW w, Lagrange(w, x, n), Apart(x, n),
         NEW lo \in 1 .. n, NEW hi \in 1 .. n, lo < hi,
         Interpolates(w, x, n, lo, hi - 1), Interpolates(w, x, n, lo + 1, hi)
  PROVE  Interpolates(w, x, n, lo, hi)
<1> DEFINE G(k) == Weighted(w[lo][hi], PowersAt(x, k))[n]
           L(k) == Weighted(w[lo][hi - 1], PowersAt(x, k))[n]
           H(k) == Weighted(w[lo + 1][hi], PowersAt(x, k))[n]
           a == x[hi]
           b == x[lo]
<1>1. /\ lo \in Nat /\ hi \in Nat /\ a \in Int /\ b \in Int /\ hi - 1 \in 1 .. n /\ lo + 1 \in 1 .. n
      /\ hi - 1 \in Nat /\ lo + 1 \in Nat
  OBVIOUS
<1>2. w[lo][hi] \in [Nat -> Int] /\ w[lo][hi - 1] \in [Nat -> Int] /\ w[lo + 1][hi] \in [Nat -> Int]
  BY <1>1 DEF Lagrange, OverRange
<1>3. \A k \in Nat : G(k) \in Int /\ L(k) \in Int /\ H(k) \in Int
  <2> SUFFICES ASSUME NEW k \in Nat PROVE G(k) \in Int /\ L(k) \in Int /\ H(k) \in Int
    OBVIOUS
  <2>1. PowersAt(x, k) \in [Nat -> Int]
    BY PowersAtFacts
  <2>2. \A v \in [Nat -> Int] : Weighted(v, PowersAt(x, k)) \in [Nat -> Int]
    BY <2>1, WeightedDef
  <2> QED BY <1>2, <2>2
<1>4. Without(w, x, lo, hi, hi, lo, hi - 1) /\ Without(w, x, lo, hi, lo, lo + 1, hi)
  BY DEF Lagrange
<1>5. ASSUME NEW k \in Nat
      PROVE  Combined(Order, G(k + 1), a, G(k), 0 - a, L(k)) /\ Combined(Order, G(k + 1), b, G(k), 0 - b, H(k))
  BY <1>1, <1>2, <1>4, DropPoint
<1>6. /\ Same(Order, L(0), 1) /\ Same(Order, H(0), 1)
      /\ \A k \in 1 .. hi - 1 - lo : Same(Order, L(k), 0)
  BY DEF Interpolates
<1>7. ~ Same(Order, a - b, 0)
  BY <1>1 DEF Apart
<1> HIDE DEF G, L, H, a, b
<1> DEFINE f == G(0)
           g == G(1)
           o == 1
<1>8. 0 + 1 = o /\ 0 \in Nat /\ o \in Int /\ 1 \in Nat
  OBVIOUS
<1>9. f \in Int /\ g \in Int /\ L(0) \in Int /\ H(0) \in Int
  BY <1>3, <1>8
<1>10. Combined(Order, g, a, f, 0 - a, L(0)) /\ Combined(Order, g, b, f, 0 - b, H(0))
  BY <1>5, <1>8
<1> HIDE DEF f, g
<1>11. Same(Order, g, (f - o) * a) /\ Same(Order, g, (f - o) * b)
  BY <1>1, <1>6, <1>8, <1>9, <1>10, CombinedKnown DEF o
<1> HIDE DEF o
<1>12. Same(Order, f - o, 0)
  <2> DEFINE y == f - o
             d == a - b
             ya == y * a
             yb == y * b
             z == ya - ya
  <2>1. y \in Int /\ d \in Int /\ ya \in Int /\ yb \in Int /\ y * d = ya - yb /\ z = 0
    BY <1>1, <1>8, <1>9
  <2>2. Same(Order, ya, yb)
    BY <1>11 DEF Same
  <2> HIDE DEF y, d, ya, yb
  <2>3. Same(Order, ya, ya)
    BY DEF Same
  <2>4. Same(Order, ya - ya, ya - yb)
    BY <2>1, <2>2, <2>3, OrderFacts, SameMinus
  <2>5. Same(Order, y * d, 0)
    BY <2>1, <2>4 DEF Same
  <2>6. ~ Same(Order, d, 0)
    BY <1>7 DEF d
  <2>7. Same(Order, y, 0)
    BY <2>1, <2>5, <2>6, ZeroFactor
  <2> QED BY <2>7 DEF y
<1>13. Same(Order, f, o)
  <2> DEFINE y == f - o
             z == 0
  <2>1. y \in Int /\ z \in Int /\ y + o = f /\ z + o = o /\ Same(Order, y, z) /\ Same(Order, o, o)
    BY <1>8, <1>9, <1>12 DEF Same
  <2> HIDE DEF y, z
  <2>2. Same(Order, y + o, z + o)
    BY <1>8, <2>1, OrderFacts, SamePlus
  <2> QED BY <2>1, <2>2
<1>14. Same(Order, g, 0)
  <2> DEFINE y == f - o
             z == 0
  <2>1. y \in Int /\ z \in Int /\ z * a = 0 /\ Same(Order, y, z)
    BY <1>1, <1>8, <1>9, <1>12
  <2>2. Same(Order, g, y * a)
    BY <1>11
  <2> HIDE DEF y, z
  <2>3. Same(Order, y * a, z * a)
    BY <1>1, <2>1, OrderFacts, SameTimes
  <2> QED BY <2>1, <2>2, <2>3 DEF Same
<1> DEFINE T == {k \in Nat : k + 1 <= hi - lo => Same(Order, G(k + 1), 0)}
<1>15. 0 \in T
  BY <1>8, <1>14 DEF g, o
<1>16. ASSUME NEW k \in T PROVE k + 1 \in T
  <2> SUFFICES ASSUME (k + 1) + 1 <= hi - lo PROVE Same(Order, G((k + 1) + 1), 0)
    OBVIOUS
  <2> DEFINE m == k + 1
  <2>1. m \in Nat /\ m \in 1 .. hi - 1 - lo /\ k \in Nat
    BY <1>1
  <2>2. Same(Order, G(m), 0)
    BY <1>1, <2>1
  <2> HIDE DEF m
  <2>3. Same(Order, L(m), 0)
    BY <1>6, <2>1
  <2> DEFINE c == G(m)
             e == G(m + 1)
             l == L(m)
             z == 0
  <2>4. c \in Int /\ e \in Int /\ l \in Int /\ z \in Int
    <3>1. m + 1 \in Nat
      BY <2>1
    <3> QED BY <1>3, <2>1, <3>1
  <2>5. Combined(Order, e, a, c, 0 - a, l)
    BY <1>5, <2>1
  <2>6. Same(Order, l, z) /\ Same(Order, c, z)
    BY <2>2, <2>3
  <2> HIDE DEF c, e, l, z
  <2>7. Same(Order, e, (c - z) * a)
    BY <1>1, <2>4, <2>5, <2>6, CombinedKnown
  <2>8. c - z = c /\ z * a = 0
    BY <1>1, <2>4 DEF z
  <2>9. Same(Order, c * a, z * a)
    BY <1>1, <2>4, <2>6, OrderFacts, SameTimes
  <2>10. Same(Order, e, 0)
    BY <2>7, <2>8, <2>9 DEF Same
  <2> QED BY <2>10 DEF e, m
<1>17. T = Nat
  <2>1. T \in SUBSET Nat
    OBVIOUS
  <2> HIDE DEF T
  <2> QED BY <1>15, <1>16, <2>1, NatSetInduction
<1>18. ASSUME NEW k \in 1 .. hi - lo PROVE Same(Order, G(k), 0)
  <2>1. k - 1 \in Nat /\ (k - 1) + 1 = k /\ k <= hi - lo
    BY <1>1
  <2>2. k - 1 \in T
    BY <1>17, <2>1
  <2> QED BY <2>1, <2>2
<1>19. Same(Order, G(0), 1)
  BY <1>13 DEF f, o
<1> QED BY <1>18, <1>19 DEF Interpolates, G

LEMMA AllPoints ==
  ASSUME NEW n \in Nat \ {0}, NEW x \in [Nat -> Int], NEW w, Lagrange(w, x, n), Apart(x, n)
  PROVE  Interpolates(w, x, n, 1, n)
<1> DEFINE Good(lo, hi) == Interpolates(w, x, n, lo, hi)
           T == {d \in Nat : \A lo, hi \in 1 .. n : hi = lo + d => Good(lo, hi)}
<1>1. 0 \in T
  <2> SUFFICES ASSUME NEW lo \in 1 .. n PROVE Good(lo, lo)
    OBVIOUS
  <2> QED BY OnePoint
<1>2. ASSUME NEW d \in T PROVE d + 1 \in T
  <2> SUFFICES ASSUME NEW lo \in 1 .. n, NEW hi \in 1 .. n, hi = lo + (d + 1) PROVE Good(lo, hi)
    OBVIOUS
  <2>1. /\ d \in Nat /\ lo < hi /\ hi - 1 \in 1 .. n /\ lo + 1 \in 1 .. n
        /\ hi - 1 = lo + d /\ hi = (lo + 1) + d
    OBVIOUS
  <2>2. \A i, j \in 1 .. n : j = i + d => Good(i, j)
    OBVIOUS
  <2> HIDE DEF Good
  <2>3. Good(lo, hi - 1) /\ Good(lo + 1, hi)
    BY <2>1, <2>2
  <2> QED BY <2>1, <2>3, MorePoints DEF Good
<1>3. T = Nat
  <2>1. T \in SUBSET Nat
    OBVIOUS
  <2> HIDE DEF T
  <2> QED BY <1>1, <1>2, <2>1, NatSetInduction
<1>4. n - 1 \in Nat /\ 1 \in 1 .. n /\ n \in 1 .. n /\ n = 1 + (n - 1)
  OBVIOUS
<1> HIDE DEF Good
<1> QED BY <1>3, <1>4 DEF Good

\* Sums of equal residues.
LEMMA SumsSame ==
  ASSUME NEW F \in [Nat -> Int], NEW J \in [Nat -> Int], NEW n \in Nat,
         \A i \in 1 .. n : Same(Order, F[i], J[i])
  PROVE  Same(Order, PartialSums(F)[n], PartialSums(J)[n])
<1> DEFINE P == PartialSums(F)
           Q == PartialSums(J)
           T == {m \in Nat : m <= n => Same(Order, P[m], Q[m])}
<1>1. /\ P \in [Nat -> Int] /\ P[0] = 0 /\ \A m \in Nat : P[m + 1] = P[m] + F[m + 1]
      /\ Q \in [Nat -> Int] /\ Q[0] = 0 /\ \A m \in Nat : Q[m + 1] = Q[m] + J[m + 1]
  BY PartialSumsDef
<1> HIDE DEF P, Q
<1>2. 0 \in T
  BY <1>1 DEF Same
<1>3. ASSUME NEW m \in T PROVE m + 1 \in T
  <2> SUFFICES ASSUME m + 1 <= n PROVE Same(Order, P[m + 1], Q[m + 1])
    OBVIOUS
  <2>1. m \in Nat /\ m + 1 \in 1 .. n /\ Same(Order, P[m], Q[m]) /\ Same(Order, F[m + 1], J[m + 1])
    OBVIOUS
  <2>2. P[m] \in Int /\ Q[m] \in Int /\ F[m + 1] \in Int /\ J[m + 1] \in Int
    BY <1>1, <2>1
  <2>3. Same(Order, P[m] + F[m + 1], Q[m] + J[m + 1])
    BY <2>1, <2>2, OrderFacts, SamePlus
  <2> QED BY <1>1, <2>1, <2>3
<1>4. T = Nat
  <2>1. T \in SUBSET Nat
    OBVIOUS
  <2> HIDE DEF T
  <2> QED BY <1>2, <1>3, <2>1, NatSetInduction
<1> QED BY <1>4 DEF P, Q

\* The first m terms of p at every point.
TermsAt(p, x, m) == [i \in Nat |-> PartialSums(Terms(p, x[i]))[m]]

LEMMA TermsAtFacts ==
  ASSUME NEW p \in Seq(Scalar), NEW x \in [Nat -> Int]
  PROVE  /\ \A m \in Nat : TermsAt(p, x, m) \in [Nat -> Int]
         /\ \A i \in Nat : TermsAt(p, x, 0)[i] = 0
         /\ \A m, i \in Nat : TermsAt(p, x, m + 1)[i] =
              TermsAt(p, x, m)[i] + Coefficient(p, m + 1) * PowersAt(x, m)[i]
<1>1. ASSUME NEW i \in Nat
      PROVE  /\ PartialSums(Terms(p, x[i]))[0] = 0
             /\ \A m \in Nat : /\ PartialSums(Terms(p, x[i]))[m] \in Int
                               /\ PartialSums(Terms(p, x[i]))[m + 1] =
                                    PartialSums(Terms(p, x[i]))[m] + Coefficient(p, m + 1) * PowersAt(x, m)[i]
  <2> DEFINE y == x[i]
             F == Terms(p, y)
  <2>1. y \in Int
    OBVIOUS
  <2>2. \A m \in Nat : PowersAt(x, m)[i] = XPowers(y)[m]
    BY DEF PowersAt
  <2> HIDE DEF y
  <2>3. F \in [Nat -> Int] /\ \A m \in Nat : F[m + 1] = Coefficient(p, m + 1) * XPowers(y)[m]
    BY <2>1, TermsFacts
  <2> HIDE DEF F
  <2>4. /\ PartialSums(F) \in [Nat -> Int] /\ PartialSums(F)[0] = 0
        /\ \A m \in Nat : PartialSums(F)[m + 1] = PartialSums(F)[m] + F[m + 1]
    BY <2>3, PartialSumsDef
  <2>5. \A m \in Nat : PartialSums(F)[m] \in Int
    BY <2>4
  <2> QED BY <2>2, <2>3, <2>4, <2>5 DEF F, y
<1> DEFINE s(i) == PartialSums(Terms(p, x[i]))
<1>2. \A i \in Nat : /\ s(i)[0] = 0
                     /\ \A m \in Nat : /\ s(i)[m] \in Int
                          /\ s(i)[m + 1] = s(i)[m] + Coefficient(p, m + 1) * PowersAt(x, m)[i]
  BY <1>1
<1>3. \A m \in Nat : TermsAt(p, x, m) = [i \in Nat |-> s(i)[m]]
  BY DEF TermsAt
<1> HIDE DEF s
<1>4. \A m \in Nat : \A i \in Nat : TermsAt(p, x, m)[i] = s(i)[m]
  BY <1>3
<1>5. ASSUME NEW m \in Nat, NEW i \in Nat
      PROVE  TermsAt(p, x, m + 1)[i] = TermsAt(p, x, m)[i] + Coefficient(p, m + 1) * PowersAt(x, m)[i]
  <2>1. m + 1 \in Nat
    OBVIOUS
  <2> QED BY <1>2, <1>4, <2>1
<1>6. \A m \in Nat : TermsAt(p, x, m) \in [Nat -> Int]
  BY <1>2, <1>3
<1> QED BY <1>2, <1>4, <1>5, <1>6

LEMMA WeightedTerms ==
  ASSUME NEW n \in Nat \ {0}, NEW x \in [Nat -> Int], NEW w, w[1][n] \in [Nat -> Int],
         Interpolates(w, x, n, 1, n), NEW p \in Seq(Scalar), p # <<>>, Len(p) <= n
  PROVE  Same(Order, Weighted(w[1][n], TermsAt(p, x, Len(p)))[n], p[1])
<1> DEFINE u == w[1][n]
           V(m) == TermsAt(p, x, m)
           P(m) == PowersAt(x, m)
           Q(m) == Weighted(u, V(m))[n]
           G(m) == Weighted(u, P(m))[n]
           c(m) == Coefficient(p, m)
<1>1. /\ u \in [Nat -> Int] /\ Len(p) \in Nat /\ Len(p) >= 1
      /\ \A m \in Nat : V(m) \in [Nat -> Int] /\ P(m) \in [Nat -> Int] /\ c(m) \in Int
  <2>1. \A m \in Nat : P(m) \in [Nat -> Int]
    BY PowersAtFacts
  <2>2. \A m \in Nat : V(m) \in [Nat -> Int]
    BY TermsAtFacts
  <2>3. \A m \in Nat : c(m) \in Int
    BY TermsFacts, 1 \in Int
  <2>4. u \in [Nat -> Int] /\ Len(p) \in Nat /\ Len(p) >= 1
    OBVIOUS
  <2> QED BY <2>1, <2>2, <2>3, <2>4
<1>2. ASSUME NEW m \in Nat PROVE Q(m) \in Int /\ G(m) \in Int
  <2>1. Weighted(u, V(m)) \in [Nat -> Int] /\ Weighted(u, P(m)) \in [Nat -> Int]
    BY <1>1, WeightedDef
  <2> QED BY <2>1
<1>3. ASSUME NEW m \in Nat PROVE Combined(Order, Q(m + 1), 1, Q(m), c(m + 1), G(m))
  <2> DEFINE v == V(m)
             v1 == V(m + 1)
             q == P(m)
             d == c(m + 1)
             o == 1
             F == [i \in Nat |-> u[i] * v1[i]]
             I == [i \in Nat |-> u[i] * v[i]]
             J == [i \in Nat |-> u[i] * q[i]]
  <2>1. /\ v \in [Nat -> Int] /\ v1 \in [Nat -> Int] /\ q \in [Nat -> Int] /\ d \in Int /\ o \in Int
        /\ u \in [Nat -> Int]
    <3>1. m + 1 \in Nat /\ o \in Int
      OBVIOUS
    <3> HIDE DEF u, V, P, c, o
    <3> QED BY <1>1, <3>1
  <2>2. \A i \in Nat : v1[i] = v[i] + d * q[i]
    BY TermsAtFacts
  <2> HIDE DEF u, v, v1, q, d
  <2>3. F \in [Nat -> Int] /\ I \in [Nat -> Int] /\ J \in [Nat -> Int]
    <3>1. \A i \in Nat : u[i] \in Int /\ v[i] \in Int /\ v1[i] \in Int /\ q[i] \in Int
      BY <2>1
    <3>2. \A a, b \in Int : a * b \in Int
      OBVIOUS
    <3>3. \A i \in Nat : u[i] * v1[i] \in Int /\ u[i] * v[i] \in Int /\ u[i] * q[i] \in Int
      BY <3>1, <3>2
    <3> QED BY <3>3
  <2>4. ASSUME NEW i \in Nat \ {0} PROVE Combined(Order, F[i], o, I[i], d, J[i])
    <3> DEFINE a == u[i]
               b == v[i]
               e == q[i]
    <3>1. a \in Int /\ b \in Int /\ e \in Int
      BY <2>1
    <3>2. F[i] = a * (b + d * e) /\ I[i] = a * b /\ J[i] = a * e
      BY <2>2
    <3> HIDE DEF a, b, e
    <3>3. a * (b + d * e) = (a * b) * o + (a * e) * d
      BY <2>1, <3>1
    <3>4. F[i] = I[i] * o + J[i] * d
      BY <3>2, <3>3
    <3> QED BY <3>4 DEF Combined, Same
  <2> HIDE DEF F, I, J, o
  <2>5. Combined(Order, PartialSums(F)[n], o, PartialSums(I)[n], d, PartialSums(J)[n])
    BY <2>1, <2>3, <2>4, OrderFacts, SumsCombined
  <2> QED BY <2>5 DEF F, I, J, o, u, v, v1, q, d, Weighted
<1>4. Q(0) = 0
  <2> DEFINE v == V(0)
             F == [i \in Nat |-> u[i] * v[i]]
  <2>1. \A i \in Nat : v[i] = 0
    BY TermsAtFacts
  <2>2. \A i \in Nat : u[i] \in Int
    BY <1>1
  <2> HIDE DEF v, u
  <2>3. F \in [Nat -> Int] /\ \A i \in 1 .. n : F[i] = 0
    <3>1. \A y \in Int : y * 0 = 0
      OBVIOUS
    <3>2. \A i \in Nat : u[i] * v[i] = 0
      BY <2>1, <2>2, <3>1
    <3>3. \A i \in 1 .. n : i \in Nat
      OBVIOUS
    <3> QED BY <3>2, <3>3
  <2> HIDE DEF F
  <2>4. PartialSums(F)[n] = 0
    BY <2>3, PartialSumsZero
  <2> QED BY <2>4 DEF F, v, Weighted
<1>5. Same(Order, G(0), 1) /\ \A m \in 1 .. n - 1 : Same(Order, G(m), 0)
  BY DEF Interpolates
<1>6. p[1] = c(1)
  <2>1. 1 \in DOMAIN p
    BY <1>1
  <2> QED BY <2>1 DEF Coefficient
<1> HIDE DEF u, V, P, Q, G, c
<1> DEFINE T == {m \in Nat : m + 1 <= Len(p) => Same(Order, Q(m + 1), p[1])}
<1>7. 0 \in T
  <2> DEFINE z == 0
             o == 1
             d == c(1)
             g == G(0)
             q == Q(1)
             f == Q(0)
             e == g * d
             b == o * d
  <2>1. /\ z + 1 = 1 /\ z \in Nat /\ o \in Int /\ d \in Int /\ g \in Int /\ q \in Int /\ f \in Int /\ f * o = 0
        /\ 1 \in Nat /\ 0 \in Nat
    BY <1>1, <1>2, <1>4
  <2>2. Combined(Order, Q(z + 1), 1, Q(z), c(z + 1), G(z))
    BY <1>3, <2>1
  <2>3. Combined(Order, q, 1, f, d, g)
    BY <2>1, <2>2
  <2>4. Same(Order, g, o)
    BY <1>5
  <2> HIDE DEF d, g, q, f, z, o
  <2>5. Same(Order, e, b)
    BY <2>1, <2>4, OrderFacts, SameTimes
  <2>6. f * 1 + e = e /\ b = d
    BY <2>1 DEF o
  <2>7. Same(Order, q, d)
    BY <2>3, <2>5, <2>6 DEF Combined, Same
  <2>8. Same(Order, Q(1), p[1])
    BY <1>6, <2>7 DEF q, d
  <2> QED BY <2>1, <2>8
<1>8. ASSUME NEW m \in T PROVE m + 1 \in T
  <2> SUFFICES ASSUME (m + 1) + 1 <= Len(p) PROVE Same(Order, Q((m + 1) + 1), p[1])
    OBVIOUS
  <2> DEFINE k == m + 1
             z == 0
             d == c(k + 1)
             g == G(k)
             q == Q(k + 1)
             f == Q(k)
             e == g * d
             b == z * d
  <2>1. k \in Nat /\ k + 1 \in Nat /\ k \in 1 .. n - 1 /\ Same(Order, f, p[1])
    BY <1>1
  <2>2. d \in Int /\ g \in Int /\ q \in Int /\ f \in Int /\ z \in Int /\ f * 1 = f
    BY <1>1, <1>2, <2>1
  <2>3. Combined(Order, q, 1, f, d, g)
    BY <1>3, <2>1
  <2>4. Same(Order, g, z)
    BY <1>5, <2>1
  <2> HIDE DEF d, g, q, f, z, k
  <2>5. Same(Order, e, b)
    BY <2>2, <2>4, OrderFacts, SameTimes
  <2>6. e \in Int /\ b \in Int /\ f + b = f
    BY <2>2 DEF z
  <2> HIDE DEF e, b
  <2>7. Same(Order, f + e, f + b)
    <3>1. Same(Order, f, f)
      BY DEF Same
    <3> QED BY <2>2, <2>5, <2>6, <3>1, OrderFacts, SamePlus
  <2>8. Same(Order, q, f * 1 + e)
    BY <2>3 DEF Combined, e
  <2>9. Same(Order, q, p[1])
    BY <2>1, <2>2, <2>6, <2>7, <2>8 DEF Same
  <2> QED BY <2>9 DEF q, k
<1>9. T = Nat
  <2>1. T \in SUBSET Nat
    OBVIOUS
  <2> HIDE DEF T
  <2> QED BY <1>7, <1>8, <2>1, NatSetInduction
<1>10. Len(p) - 1 \in T /\ (Len(p) - 1) + 1 = Len(p)
  <2>1. Len(p) - 1 \in Nat /\ (Len(p) - 1) + 1 = Len(p)
    BY <1>1
  <2> HIDE DEF T
  <2> QED BY <1>9, <2>1
<1>11. Same(Order, Q(Len(p)), p[1])
  BY <1>1, <1>10
<1> QED BY <1>11 DEF Q, V, u

\* Products of scalars.
LEMMA ProductDef ==
  ASSUME NEW n \in Nat, NEW f, \A k \in 1 .. n : f[k] \in Scalar
  PROVE  /\ Product(f, 0) = 1 /\ \A m \in 0 .. n : Product(f, m) \in Scalar
         /\ \A m \in 0 .. n - 1 : Product(f, m + 1) = (Product(f, m) * f[m + 1]) % Order
<1> DEFINE c == 1
           turn == [k \in Nat |-> [v \in Scalar |-> (v * f[k]) % Order]]
           r == Iterate(c, turn)
<1>1. \A k \in 1 .. n : \A v \in Scalar : turn[k][v] = (v * f[k]) % Order /\ turn[k][v] \in Scalar
  <2> SUFFICES ASSUME NEW k \in 1 .. n, NEW v \in Scalar
               PROVE  turn[k][v] = (v * f[k]) % Order /\ turn[k][v] \in Scalar
    OBVIOUS
  <2>1. turn[k][v] = (v * f[k]) % Order
    OBVIOUS
  <2>2. v \in Int /\ f[k] \in Int
    BY ScalarsAreInts
  <2>3. v * f[k] \in Int
    BY <2>2
  <2> QED BY <2>1, <2>3, OrderFacts
<1>2. \A m : Product(f, m) = r[m]
  BY DEF Product
<1>3. c \in Scalar /\ c = 1
  BY OrderFacts DEF Scalar
<1> HIDE DEF turn, r, c
<1>4. Stays(Scalar, turn, n)
  BY <1>1 DEF Stays
<1>5. Follows(r, c, turn) /\ Within(Scalar, r, n)
  BY <1>3, <1>4, IterateType DEF r
<1>6. ASSUME NEW m \in 0 .. n - 1 PROVE r[m + 1] = (r[m] * f[m + 1]) % Order
  <2>1. m \in Nat /\ m \in 0 .. n /\ m + 1 \in 1 .. n
    OBVIOUS
  <2>2. r[m] \in Scalar /\ r[m + 1] = turn[m + 1][r[m]]
    BY <1>5, <2>1 DEF Follows, Within
  <2> QED BY <1>1, <2>1, <2>2
<1> QED BY <1>2, <1>3, <1>5, <1>6 DEF Follows, Within

\* f at the places of a set.
Masked(f, places, n) == [m \in 1 .. n |-> IF m \in places THEN f[m] ELSE 1]
Products(f, places, n) == [m \in Nat |-> Product(Masked(f, places, n), m)]

\* P goes through the products of the first places, up to n.
Multiplies(P, f, places, n) ==
  /\ P[0] = 1 /\ \A m \in 0 .. n : P[m] \in Scalar /\ P[m] \in Int
  /\ \A m \in 0 .. n - 1 : P[m + 1] = IF m + 1 \in places THEN (P[m] * f[m + 1]) % Order ELSE P[m]

LEMMA MaskedProduct ==
  ASSUME NEW n \in Nat, NEW f \in [1 .. n -> Scalar], NEW places
  PROVE  Multiplies(Products(f, places, n), f, places, n)
<1> DEFINE g == Masked(f, places, n)
           P(m) == Product(g, m)
<1>1. \A k \in 1 .. n : g[k] \in Scalar /\ g[k] = IF k \in places THEN f[k] ELSE 1
  <2>1. 1 \in Scalar
    BY OrderFacts DEF Scalar
  <2> QED BY <2>1 DEF Masked
<1> HIDE DEF g
<1>2. /\ P(0) = 1 /\ \A m \in 0 .. n : P(m) \in Scalar
      /\ \A m \in 0 .. n - 1 : P(m + 1) = (P(m) * g[m + 1]) % Order
  BY <1>1, ProductDef
<1> HIDE DEF P
<1>3. \A m \in 0 .. n : P(m) \in Int
  BY <1>2, ScalarsAreInts
<1>4. ASSUME NEW m \in 0 .. n - 1
      PROVE  P(m + 1) = IF m + 1 \in places THEN (P(m) * f[m + 1]) % Order ELSE P(m)
  <2>1. m + 1 \in 1 .. n /\ m \in 0 .. n
    OBVIOUS
  <2>2. P(m) \in Int /\ P(m) \in Scalar
    BY <1>2, <1>3, <2>1
  <2>3. P(m) * 1 = P(m) /\ P(m) % Order = P(m)
    BY <2>2, OrderFacts
  <2> QED BY <1>1, <1>2, <2>1, <2>3
<1>5. \A m \in Nat : Products(f, places, n)[m] = P(m)
  BY DEF Products, P, g
<1>6. 0 \in Nat /\ (\A m \in 0 .. n : m \in Nat) /\ (\A m \in 0 .. n - 1 : m \in Nat /\ m + 1 \in Nat)
  OBVIOUS
<1> QED BY <1>2, <1>3, <1>4, <1>5, <1>6 DEF Multiplies

LEMMA ProductOfNone ==
  ASSUME NEW n \in Nat, NEW f \in [1 .. n -> Scalar]
  PROVE  Product(Masked(f, {}, n), n) = 1
<1> DEFINE P == Products(f, {}, n)
           T == {m \in Nat : m <= n => P[m] = 1}
<1>1. P[0] = 1 /\ \A m \in 0 .. n - 1 : P[m + 1] = P[m]
  BY MaskedProduct DEF Multiplies
<1> HIDE DEF P
<1>2. 0 \in T
  BY <1>1
<1>3. ASSUME NEW m \in T PROVE m + 1 \in T
  <2> SUFFICES ASSUME m + 1 <= n PROVE P[m + 1] = 1
    OBVIOUS
  <2>1. m \in 0 .. n - 1
    OBVIOUS
  <2> QED BY <1>1, <2>1
<1>4. T = Nat
  <2>1. T \in SUBSET Nat
    OBVIOUS
  <2> HIDE DEF T
  <2> QED BY <1>2, <1>3, <2>1, NatSetInduction
<1>5. P[n] = 1
  BY <1>4
<1> QED BY <1>5 DEF P, Products

\* One more factor.
LEMMA ProductWith ==
  ASSUME NEW n \in Nat, NEW f \in [1 .. n -> Scalar], NEW places, NEW j \in 1 .. n, j \notin places
  PROVE  Same(Order, Product(Masked(f, places \cup {j}, n), n), Product(Masked(f, places, n), n) * f[j])
<1> DEFINE more == places \cup {j}
           P == Products(f, places, n)
           Q == Products(f, more, n)
           d == f[j]
           Inv(m) == Same(Order, Q[m], IF j <= m THEN P[m] * d ELSE P[m])
           T == {m \in Nat : m <= n => Inv(m)}
<1>1. /\ P[0] = 1 /\ \A m \in 0 .. n : P[m] \in Int
      /\ \A m \in 0 .. n - 1 : P[m + 1] = IF m + 1 \in places THEN (P[m] * f[m + 1]) % Order ELSE P[m]
  BY MaskedProduct DEF Multiplies
<1>2. /\ Q[0] = 1 /\ \A m \in 0 .. n : Q[m] \in Int
      /\ \A m \in 0 .. n - 1 : Q[m + 1] = IF m + 1 \in more THEN (Q[m] * f[m + 1]) % Order ELSE Q[m]
  <2> HIDE DEF more
  <2> QED BY MaskedProduct DEF Multiplies
<1>3. d \in Int /\ \A i \in 1 .. n : f[i] \in Int
  BY ScalarsAreInts
<1>4. ASSUME NEW y \in Int, NEW z \in Int, Same(Order, y, z), NEW e \in Int
      PROVE  Same(Order, (y * e) % Order, z * e) /\ Same(Order, (y * e) % Order, (z * e) % Order)
  <2> DEFINE ye == y * e
             ze == z * e
  <2>1. ye \in Int /\ ze \in Int
    BY <1>4
  <2>3. Same(Order, ye, ze)
    BY <1>4, OrderFacts, SameTimes
  <2> HIDE DEF ye, ze
  <2>2. Same(Order, ye % Order, ye) /\ Same(Order, ze % Order, ze)
    BY <2>1, OrderFacts, SameRefl
  <2> QED BY <2>2, <2>3 DEF Same, ye, ze
<1> HIDE DEF P, Q, d, more
<1>5. 0 \in T
  BY <1>1, <1>2 DEF Same
<1>6. ASSUME NEW m \in T PROVE m + 1 \in T
  <2> SUFFICES ASSUME m + 1 <= n PROVE Inv(m + 1)
    OBVIOUS
  <2> DEFINE l == m + 1
             y == Q[m]
             z == P[m]
             e == f[l]
  <2>1. m \in 0 .. n - 1 /\ m \in 0 .. n /\ l \in 1 .. n /\ Inv(m) /\ (j <= l <=> j <= m \/ j = l)
        /\ (l \in more <=> l \in places \/ l = j)
    BY DEF more
  <2>2. y \in Int /\ z \in Int /\ e \in Int /\ z * d \in Int
    BY <1>1, <1>2, <1>3, <2>1
  <2>3. /\ Q[l] = (IF l \in more THEN (y * e) % Order ELSE y)
        /\ P[l] = (IF l \in places THEN (z * e) % Order ELSE z)
    BY <1>1, <1>2, <2>1
  <2> DEFINE zd == z * d
             ze == z * e
             zed == (ze % Order) * d
  <2>4. Same(Order, y, IF j <= m THEN zd ELSE z)
    BY <2>1
  <2>5. /\ l \in places => P[l] * d = zed
        /\ l \notin places => P[l] * d = zd
    BY <2>3
  <2>6. Same(Order, zd * e, zed)
    <3>1. zd * e = ze * d /\ ze \in Int
      BY <1>3, <2>2
    <3>2. zed % Order = (ze * d) % Order
      <4> HIDE DEF ze
      <4> QED BY <1>3, <3>1, OrderFacts, ModTimes
    <3> QED BY <3>1, <3>2 DEF Same
  <2>7. Same(Order, y, zd) => Same(Order, (y * e) % Order, zd * e)
    <3>1. zd \in Int
      BY <2>2
    <3> HIDE DEF zd, y, e
    <3> QED BY <1>4, <2>2, <3>1
  <2>8. Same(Order, y, z) => Same(Order, (y * e) % Order, (z * e) % Order) /\ Same(Order, (y * e) % Order, z * e)
    <3> HIDE DEF z, y, e
    <3> QED BY <1>4, <2>2
  <2> HIDE DEF l, y, z, e, zd, ze, zed
  <2>9. CASE l \in places
    <3>1. l # j /\ Q[l] = (y * e) % Order /\ P[l] = (z * e) % Order
      BY <2>1, <2>3, <2>9
    <3>2. CASE j <= m
      <4>1. Same(Order, y, zd) /\ j <= l
        BY <2>1, <2>4, <3>2
      <4>2. Same(Order, Q[l], zed)
        BY <2>6, <2>7, <3>1, <4>1 DEF Same
      <4> QED BY <2>5, <2>9, <4>1, <4>2 DEF l
    <3>3. CASE ~ (j <= m)
      <4>1. Same(Order, y, z) /\ ~ (j <= l)
        BY <2>1, <2>4, <3>1, <3>3
      <4>2. Same(Order, Q[l], P[l])
        BY <2>8, <3>1, <4>1
      <4> QED BY <4>1, <4>2 DEF l
    <3> QED BY <3>2, <3>3
  <2>10. CASE l = j
    <3>1. l \notin places /\ Q[l] = (y * e) % Order /\ P[l] = z /\ ~ (j <= m) /\ j <= l /\ e = d
      BY <2>1, <2>3, <2>10 DEF l, e, d
    <3>2. Same(Order, y, z)
      BY <2>4, <3>1
    <3>3. Same(Order, Q[l], P[l] * d)
      BY <2>8, <3>1, <3>2
    <3> QED BY <3>1, <3>3 DEF l
  <2>11. CASE l \notin places /\ l # j
    <3>1. Q[l] = y /\ P[l] = z /\ (j <= l <=> j <= m)
      BY <2>1, <2>3, <2>11
    <3>2. Same(Order, Q[l], IF j <= l THEN P[l] * d ELSE P[l])
      BY <2>4, <3>1 DEF zd
    <3> QED BY <3>2 DEF l
  <2> QED BY <2>9, <2>10, <2>11
<1>7. T = Nat
  <2>1. T \in SUBSET Nat
    OBVIOUS
  <2> HIDE DEF T
  <2> QED BY <1>5, <1>6, <2>1, NatSetInduction
<1>8. Inv(n) /\ j <= n
  BY <1>7
<1> QED BY <1>8 DEF P, Q, d, more, Products

\* No factor is zero, nor is the product.
LEMMA ProductNonzero ==
  ASSUME NEW n \in Nat, NEW f \in [1 .. n -> Scalar], NEW places,
         \A i \in 1 .. n : i \in places => f[i] # 0
  PROVE  Product(Masked(f, places, n), n) \in 1 .. Order - 1
<1> DEFINE P == Products(f, places, n)
           T == {m \in Nat : m <= n => P[m] \in 1 .. Order - 1}
<1>1. /\ P[0] = 1 /\ \A m \in 0 .. n : P[m] \in Scalar /\ P[m] \in Int
      /\ \A m \in 0 .. n - 1 : P[m + 1] = IF m + 1 \in places THEN (P[m] * f[m + 1]) % Order ELSE P[m]
  BY MaskedProduct DEF Multiplies
<1> HIDE DEF P
<1>2. 0 \in T
  <2>1. 1 \in 1 .. Order - 1
    BY OrderFacts
  <2> QED BY <1>1, <2>1
<1>3. ASSUME NEW m \in T PROVE m + 1 \in T
  <2> SUFFICES ASSUME m + 1 <= n PROVE P[m + 1] \in 1 .. Order - 1
    OBVIOUS
  <2> DEFINE y == P[m]
             e == f[m + 1]
  <2>1. m \in 0 .. n - 1 /\ m + 1 \in 1 .. n /\ y \in 1 .. Order - 1
    OBVIOUS
  <2>2. P[m + 1] = IF m + 1 \in places THEN (y * e) % Order ELSE y
    BY <1>1, <2>1
  <2>3. ASSUME m + 1 \in places PROVE (y * e) % Order \in 1 .. Order - 1
    <3>1. e \in Scalar /\ e # 0
      BY <2>1, <2>3
    <3> HIDE DEF y, e
    <3>2. e \in 1 .. Order - 1 /\ y \in Int /\ 0 \in Scalar
      BY <2>1, <3>1, OrderFacts DEF Scalar
    <3>3. y \in Scalar /\ y # 0
      BY <2>1 DEF Scalar
    <3>4. ~ Same(Order, y, 0)
      BY <3>2, <3>3, OrderFacts DEF Same
    <3>5. ~ Same(Order, y * e, 0)
      BY <3>2, <3>4, OrderFacts, PrimeNonzero
    <3>6. y * e \in Int
      BY <3>2
    <3>7. (y * e) % Order \in Scalar /\ (y * e) % Order # 0
      BY <3>2, <3>5, <3>6, OrderFacts DEF Same
    <3> QED BY <3>7 DEF Scalar
  <2> QED BY <2>1, <2>2, <2>3
<1>4. T = Nat
  <2>1. T \in SUBSET Nat
    OBVIOUS
  <2> HIDE DEF T
  <2> QED BY <1>2, <1>3, <2>1, NatSetInduction
<1>5. P[n] \in 1 .. Order - 1
  BY <1>4
<1> QED BY <1>5 DEF P, Products

\* What one more point makes of a weight, from what it makes of the numerator
\* and the denominator.
LEMMA WeightWith ==
  ASSUME NEW p \in Int, NEW q \in Int, NEW a \in Int, Same(Order, q, p * a),
         NEW b \in Int, NEW d \in 1 .. Order - 1, NEW e \in 1 .. Order - 1, Same(Order, e, d * b)
  PROVE  Same(Order, (q * Invert(e)) * b, (p * Invert(d)) * a)
<1> DEFINE f == Invert(d)
           h == Invert(e)
           o == 1
           hb == h * b
           eh == e * h
           df == d * f
           db == d * b
           pa == p * a
<1>1. /\ f \in Int /\ h \in Int /\ o \in Int /\ d \in Int /\ e \in Int
      /\ Same(Order, df, o) /\ Same(Order, eh, o)
  BY InverseFacts
<1> HIDE DEF f, h, o
<1>2. hb \in Int /\ eh \in Int /\ df \in Int /\ db \in Int /\ pa \in Int
  BY <1>1
<1>3. Same(Order, e, db) /\ Same(Order, q, pa)
  OBVIOUS
<1>4. hb * d = db * h /\ f * d = df
  BY <1>1
<1> HIDE DEF db
<1>5. Same(Order, e * h, db * h)
  BY <1>1, <1>2, <1>3, OrderFacts, SameTimes
<1>6. Same(Order, hb * d, f * d)
  BY <1>1, <1>4, <1>5 DEF Same, eh
<1> HIDE DEF eh, df, pa
<1>7. Same(Order, hb, f)
  <2> HIDE DEF hb
  <2> QED BY <1>1, <1>2, <1>6, OrderFacts, PrimeCancel
<1>8. (q * h) * b = q * hb /\ q * hb = hb * q
  BY <1>1
<1>9. (p * f) * a = pa * f /\ f * pa = pa * f
  BY <1>1 DEF pa
<1> HIDE DEF hb
<1>10. Same(Order, hb * q, f * q)
  BY <1>1, <1>2, <1>7, OrderFacts, SameTimes
<1>11. Same(Order, q * f, pa * f)
  BY <1>1, <1>2, <1>3, OrderFacts, SameTimes
<1>12. q * f = f * q
  BY <1>1
<1> QED BY <1>8, <1>9, <1>10, <1>11, <1>12 DEF Same, f, h

\* The weight of point i, with the numerators and denominators of the others.
Weight(a, b, n, others, i) ==
  Product(Masked(a, others, n), n) * Invert(Product(Masked(b[i], others, n), n))

\* The numerators and denominators are the points and their differences, or
\* both their negatives.
Factors(a, b, x, n) ==
  /\ a \in [1 .. n -> Scalar] /\ b \in [1 .. n -> [1 .. n -> Scalar]]
  /\ \A i, j \in 1 .. n : i # j => b[i][j] # 0
  /\ \/ \A i, j \in 1 .. n : Same(Order, a[j], x[j]) /\ Same(Order, b[i][j], x[j] - x[i])
     \/ \A i, j \in 1 .. n : Same(Order, a[j], 0 - x[j]) /\ Same(Order, b[i][j], x[i] - x[j])

WeightsOf(a, b, n) ==
  [lo \in 1 .. n |-> [hi \in 1 .. n |-> [i \in Nat |->
     IF i \in lo .. hi THEN Weight(a, b, n, (lo .. hi) \ {i}, i) ELSE 0]]]

\* From the factors to what they are.
LEMMA FactorsMean ==
  ASSUME NEW u \in Int, NEW v \in Int, NEW a \in Int, NEW b \in Int, NEW x \in Int, NEW y \in Int,
         Same(Order, u * b, v * a),
         \/ Same(Order, a, x) /\ Same(Order, b, y)
         \/ Same(Order, a, 0 - x) /\ Same(Order, b, 0 - y)
  PROVE  Same(Order, u * y, v * x)
<1>1. ASSUME NEW c \in Int, NEW d \in Int, NEW e \in Int, Same(Order, d, e) PROVE Same(Order, c * d, c * e)
  <2>1. Same(Order, d * c, e * c)
    BY <1>1, OrderFacts, SameTimes
  <2>2. d * c = c * d /\ e * c = c * e
    OBVIOUS
  <2> QED BY <2>1, <2>2
<1>2. CASE Same(Order, a, x) /\ Same(Order, b, y)
  <2>1. Same(Order, u * b, u * y) /\ Same(Order, v * a, v * x)
    BY <1>1, <1>2
  <2> QED BY <2>1 DEF Same
<1>3. CASE Same(Order, a, 0 - x) /\ Same(Order, b, 0 - y)
  <2> DEFINE r == 0 - x
             s == 0 - y
             m == -1
             us == u * s
             vr == v * r
  <2>1. r \in Int /\ s \in Int /\ m \in Int /\ us \in Int /\ vr \in Int
    OBVIOUS
  <2>2. us * m = u * y /\ vr * m = v * x
    OBVIOUS
  <2> HIDE DEF r, s, m
  <2>3. Same(Order, u * b, u * s) /\ Same(Order, v * a, v * r)
    BY <1>1, <1>3, <2>1 DEF r, s
  <2>4. Same(Order, us, vr)
    BY <2>3 DEF Same
  <2> HIDE DEF us, vr
  <2>5. Same(Order, us * m, vr * m)
    BY <2>1, <2>4, OrderFacts, SameTimes
  <2> QED BY <2>2, <2>5
<1> QED BY <1>2, <1>3

LEMMA WeightFacts ==
  ASSUME NEW n \in Nat, NEW a, NEW b, NEW x \in [Nat -> Int], Factors(a, b, x, n), NEW i \in 1 .. n
  PROVE  /\ \A others : i \notin others => Weight(a, b, n, others, i) \in Int
         /\ Same(Order, Weight(a, b, n, {}, i), 1)
         /\ \A others : \A j \in 1 .. n : i \notin others \cup {j} /\ j \notin others =>
              Same(Order, Weight(a, b, n, others \cup {j}, i) * (x[j] - x[i]), Weight(a, b, n, others, i) * x[j])
<1>1. /\ a \in [1 .. n -> Scalar] /\ b[i] \in [1 .. n -> Scalar] /\ i \in Nat
      /\ \A j \in 1 .. n : j # i => b[i][j] # 0
  BY DEF Factors
<1> DEFINE c == b[i]
           N(S) == Product(Masked(a, S, n), n)
           D(S) == Product(Masked(c, S, n), n)
<1>2. c \in [1 .. n -> Scalar] /\ (\A j \in 1 .. n : j # i => c[j] # 0)
      /\ (\A j \in 1 .. n : a[j] \in Int /\ c[j] \in Int)
  BY <1>1, ScalarsAreInts
<1>3. \A S : Weight(a, b, n, S, i) = N(S) * Invert(D(S))
  BY DEF Weight
<1> HIDE DEF c
<1>4. ASSUME NEW S, i \notin S PROVE N(S) \in Int /\ D(S) \in 1 .. Order - 1
  <2>1. Multiplies(Products(a, S, n), a, S, n)
    BY <1>1, MaskedProduct
  <2>2. Products(a, S, n)[n] \in Int /\ n \in 0 .. n
    BY <2>1 DEF Multiplies
  <2>3. N(S) \in Int
    BY <2>2 DEF Products
  <2>4. \A j \in 1 .. n : j \in S => c[j] # 0
    BY <1>2, <1>4
  <2> QED BY <1>2, <2>3, <2>4, ProductNonzero
<1>5. N({}) = 1 /\ D({}) = 1
  BY <1>1, <1>2, ProductOfNone
<1>6. ASSUME NEW S, NEW j \in 1 .. n, j \notin S
      PROVE  Same(Order, N(S \cup {j}), N(S) * a[j]) /\ Same(Order, D(S \cup {j}), D(S) * c[j])
  BY <1>1, <1>2, <1>6, ProductWith
<1> HIDE DEF N, D
<1>7. ASSUME NEW S, i \notin S PROVE Weight(a, b, n, S, i) \in Int
  <2>1. N(S) \in Int /\ Invert(D(S)) \in Int
    BY <1>4, <1>7, InverseFacts
  <2>2. N(S) * Invert(D(S)) \in Int
    BY <2>1
  <2> QED BY <1>3, <2>2
<1>8. Same(Order, Weight(a, b, n, {}, i), 1)
  <2> DEFINE o == 1
  <2>1. o \in 1 .. Order - 1
    BY OrderFacts
  <2>2. Invert(o) \in Int /\ Same(Order, o * Invert(o), 1)
    <3> HIDE DEF o
    <3> QED BY <2>1, InverseFacts
  <2> QED BY <1>3, <1>5, <2>2
<1>9. ASSUME NEW S, NEW j \in 1 .. n, i \notin S \cup {j}, j \notin S
      PROVE  Same(Order, Weight(a, b, n, S \cup {j}, i) * (x[j] - x[i]), Weight(a, b, n, S, i) * x[j])
  <2> DEFINE u == Weight(a, b, n, S \cup {j}, i)
             v == Weight(a, b, n, S, i)
             p == N(S)
             q == N(S \cup {j})
             d == D(S)
             e == D(S \cup {j})
             y == x[j]
             z == x[j] - x[i]
             f == a[j]
             g == c[j]
  <2>1. i \notin S /\ i # j
    BY <1>9
  <2>2. u \in Int /\ v \in Int
    BY <1>7, <1>9, <2>1
  <2>3. p \in Int /\ q \in Int /\ d \in 1 .. Order - 1 /\ e \in 1 .. Order - 1
    BY <1>4, <1>9, <2>1
  <2>4. Same(Order, q, p * f) /\ Same(Order, e, d * g)
    BY <1>6, <1>9
  <2>5. u = q * Invert(e) /\ v = p * Invert(d)
    BY <1>3
  <2>6. y \in Int /\ z \in Int /\ f \in Int /\ g \in Int /\ x[i] - x[j] = 0 - z
    <3>1. x[i] \in Int /\ x[j] \in Int
      BY <1>1
    <3> QED BY <1>2, <3>1
  <2>7. \/ Same(Order, f, y) /\ Same(Order, g, z)
        \/ Same(Order, f, 0 - y) /\ Same(Order, g, 0 - z)
    <3>1. \/ \A k, l \in 1 .. n : Same(Order, a[l], x[l]) /\ Same(Order, b[k][l], x[l] - x[k])
          \/ \A k, l \in 1 .. n : Same(Order, a[l], 0 - x[l]) /\ Same(Order, b[k][l], x[k] - x[l])
      BY DEF Factors
    <3>2. \/ Same(Order, a[j], x[j]) /\ Same(Order, b[i][j], x[j] - x[i])
          \/ Same(Order, a[j], 0 - x[j]) /\ Same(Order, b[i][j], x[i] - x[j])
      BY <3>1
    <3> QED BY <2>6, <3>2 DEF c
  <2> HIDE DEF u, v, p, q, d, e, y, z, f, g
  <2>8. Same(Order, u * g, v * f)
    BY <2>3, <2>4, <2>5, <2>6, WeightWith
  <2>9. Same(Order, u * z, v * y)
    BY <2>2, <2>6, <2>7, <2>8, FactorsMean
  <2> QED BY <2>9 DEF u, v, z, y
<1> QED BY <1>7, <1>8, <1>9

LEMMA WeightsAreLagrange ==
  ASSUME NEW n \in Nat \ {0}, NEW a, NEW b, NEW x \in [Nat -> Int], Factors(a, b, x, n)
  PROVE  Lagrange(WeightsOf(a, b, n), x, n)
<1> DEFINE w == WeightsOf(a, b, n)
           v(S, i) == IF i \in S THEN Weight(a, b, n, S \ {i}, i) ELSE 0
<1>1. \A lo, hi \in 1 .. n : /\ w[lo][hi] = [i \in Nat |-> v(lo .. hi, i)]
                             /\ \A i \in Nat : w[lo][hi][i] = v(lo .. hi, i)
  BY DEF WeightsOf
<1>2. ASSUME NEW S \in SUBSET (1 .. n), NEW i \in Nat PROVE v(S, i) \in Int
  <2>1. CASE i \in S
    <3>1. i \in 1 .. n /\ i \notin S \ {i}
      BY <2>1
    <3>2. Weight(a, b, n, S \ {i}, i) \in Int
      BY <3>1, WeightFacts
    <3> QED BY <2>1, <3>2
  <2> QED BY <2>1
<1>3. ASSUME NEW i \in 1 .. n PROVE Same(Order, v({i}, i), 1)
  <2>1. {i} \ {i} = {}
    OBVIOUS
  <2>2. Same(Order, Weight(a, b, n, {}, i), 1)
    BY WeightFacts
  <2> QED BY <2>1, <2>2
<1>4. ASSUME NEW S \in SUBSET (1 .. n), NEW j \in S, NEW i \in Nat
      PROVE  Same(Order, v(S, i) * (x[j] - x[i]), v(S \ {j}, i) * x[j])
  <2>1. j \in 1 .. n /\ x[j] \in Int /\ x[i] \in Int
    OBVIOUS
  <2>2. CASE i \notin S
    <3>1. v(S, i) = 0 /\ v(S \ {j}, i) = 0
      BY <2>2
    <3> HIDE DEF v
    <3>2. x[j] - x[i] \in Int /\ 0 * (x[j] - x[i]) = 0 /\ 0 * x[j] = 0
      BY <2>1
    <3> QED BY <3>1, <3>2 DEF Same
  <2>3. CASE i = j
    <3>1. v(S \ {j}, i) = 0
      BY <2>3
    <3>2. v(S, i) \in Int
      BY <1>2
    <3> HIDE DEF v
    <3>3. x[j] - x[i] = 0 /\ v(S, i) * 0 = 0 /\ 0 * x[j] = 0
      BY <2>1, <2>3, <3>2
    <3> QED BY <3>1, <3>3 DEF Same
  <2>4. CASE i \in S /\ i # j
    <3> DEFINE T == (S \ {j}) \ {i}
    <3>1. i \in 1 .. n /\ i \notin T \cup {j} /\ j \notin T /\ S \ {i} = T \cup {j} /\ i \in S \ {j}
      BY <2>4
    <3>2. v(S, i) = Weight(a, b, n, T \cup {j}, i) /\ v(S \ {j}, i) = Weight(a, b, n, T, i)
      BY <3>1, <2>4
    <3> HIDE DEF T, v
    <3>3. Same(Order, Weight(a, b, n, T \cup {j}, i) * (x[j] - x[i]), Weight(a, b, n, T, i) * x[j])
      BY <2>1, <3>1, WeightFacts
    <3> QED BY <3>2, <3>3
  <2> QED BY <2>2, <2>3, <2>4
<1> HIDE DEF w, v
<1>5. \A lo, hi \in 1 .. n : OverRange(w[lo][hi], lo, hi)
  <2> SUFFICES ASSUME NEW lo \in 1 .. n, NEW hi \in 1 .. n PROVE OverRange(w[lo][hi], lo, hi)
    OBVIOUS
  <2>1. lo .. hi \in SUBSET (1 .. n)
    OBVIOUS
  <2>2. \A i \in Nat : v(lo .. hi, i) \in Int
    BY <1>2, <2>1
  <2>3. \A i \in Nat : i \notin lo .. hi => v(lo .. hi, i) = 0
    BY DEF v
  <2> QED BY <1>1, <2>2, <2>3 DEF OverRange
<1>6. \A lo \in 1 .. n : Same(Order, w[lo][lo][lo], 1)
  <2> SUFFICES ASSUME NEW lo \in 1 .. n PROVE Same(Order, w[lo][lo][lo], 1)
    OBVIOUS
  <2>1. lo .. lo = {lo} /\ lo \in Nat
    OBVIOUS
  <2>2. w[lo][lo][lo] = v(lo .. lo, lo)
    BY <1>1, <2>1
  <2>3. Same(Order, v({lo}, lo), 1)
    BY <1>3
  <2>4. v(lo .. lo, lo) = v({lo}, lo)
    BY <2>1, Zenon
  <2> QED BY <2>2, <2>3, <2>4
<1>7. ASSUME NEW lo \in 1 .. n, NEW hi \in 1 .. n, lo < hi
      PROVE  Without(w, x, lo, hi, hi, lo, hi - 1) /\ Without(w, x, lo, hi, lo, lo + 1, hi)
  <2>1. /\ lo .. hi \in SUBSET (1 .. n) /\ hi \in lo .. hi /\ lo \in lo .. hi
        /\ (lo .. hi) \ {hi} = lo .. hi - 1 /\ (lo .. hi) \ {lo} = lo + 1 .. hi
        /\ hi - 1 \in 1 .. n /\ lo + 1 \in 1 .. n
    BY <1>7
  <2>2. ASSUME NEW i \in Nat
        PROVE  /\ w[lo][hi][i] = v(lo .. hi, i)
               /\ w[lo][hi - 1][i] = v((lo .. hi) \ {hi}, i)
               /\ w[lo + 1][hi][i] = v((lo .. hi) \ {lo}, i)
    <3>1. /\ w[lo][hi][i] = v(lo .. hi, i) /\ w[lo][hi - 1][i] = v(lo .. hi - 1, i)
          /\ w[lo + 1][hi][i] = v(lo + 1 .. hi, i)
      <4>1. hi - 1 \in 1 .. n /\ lo + 1 \in 1 .. n
        BY <2>1
      <4>2. \A l, h \in 1 .. n : w[l][h][i] = v(l .. h, i)
        BY <1>1
      <4> QED BY <4>1, <4>2
    <3>2. /\ v((lo .. hi) \ {hi}, i) = v(lo .. hi - 1, i)
          /\ v((lo .. hi) \ {lo}, i) = v(lo + 1 .. hi, i)
      BY <2>1, Zenon
    <3> QED BY <3>1, <3>2
  <2>3. ASSUME NEW i \in Nat
        PROVE  /\ Same(Order, v(lo .. hi, i) * (x[hi] - x[i]), v((lo .. hi) \ {hi}, i) * x[hi])
               /\ Same(Order, v(lo .. hi, i) * (x[lo] - x[i]), v((lo .. hi) \ {lo}, i) * x[lo])
    BY <1>4, <2>1
  <2> QED BY <2>2, <2>3 DEF Without
<1> QED BY <1>5, <1>6, <1>7 DEF Lagrange, w

\* Totals of numbers.
LEMMA TotalIs ==
  ASSUME NEW n \in Nat, NEW f, \A k \in 1 .. n : f[k] \in Int
  PROVE  LET F == [k \in Nat |-> IF k \in 1 .. n THEN f[k] ELSE 0]
         IN  F \in [Nat -> Int] /\ Total(f, n) \in Scalar /\ Same(Order, Total(f, n), PartialSums(F)[n])
<1> DEFINE F == [k \in Nat |-> IF k \in 1 .. n THEN f[k] ELSE 0]
           P == PartialSums(F)
           c == 0
           turn == [k \in Nat |-> [v \in Scalar |-> (v + f[k]) % Order]]
           r == Iterate(c, turn)
           T == {m \in Nat : m <= n => Same(Order, r[m], P[m])}
<1>1. \A k \in 1 .. n : \A v \in Scalar : turn[k][v] = (v + f[k]) % Order /\ turn[k][v] \in Scalar
  <2> SUFFICES ASSUME NEW k \in 1 .. n, NEW v \in Scalar
               PROVE  turn[k][v] = (v + f[k]) % Order /\ turn[k][v] \in Scalar
    OBVIOUS
  <2>1. turn[k][v] = (v + f[k]) % Order
    OBVIOUS
  <2>2. v \in Int /\ f[k] \in Int
    BY ScalarsAreInts
  <2>3. v + f[k] \in Int
    BY <2>2
  <2> QED BY <2>1, <2>3, OrderFacts
<1>2. Total(f, n) = r[n]
  BY DEF Total
<1>3. c \in Scalar /\ c = 0
  BY OrderFacts DEF Scalar
<1>4. F \in [Nat -> Int] /\ \A k \in 1 .. n : F[k] = f[k]
  OBVIOUS
<1> HIDE DEF turn, r, c, F, P
<1>5. Stays(Scalar, turn, n)
  BY <1>1 DEF Stays
<1>6. Follows(r, c, turn) /\ Within(Scalar, r, n)
  BY <1>3, <1>5, IterateType DEF r
<1>7. P \in [Nat -> Int] /\ P[0] = 0 /\ \A m \in Nat : P[m + 1] = P[m] + F[m + 1]
  BY <1>4, PartialSumsDef DEF P
<1>8. 0 \in T
  BY <1>3, <1>6, <1>7 DEF Follows, Same
<1>9. ASSUME NEW m \in T PROVE m + 1 \in T
  <2> SUFFICES ASSUME m + 1 <= n PROVE Same(Order, r[m + 1], P[m + 1])
    OBVIOUS
  <2> DEFINE y == r[m]
             z == P[m]
             e == f[m + 1]
             ye == y + e
  <2>1. m \in Nat /\ m \in 0 .. n /\ m + 1 \in 1 .. n /\ Same(Order, y, z)
    OBVIOUS
  <2>2. y \in Scalar /\ y \in Int /\ z \in Int /\ e \in Int
    <3>1. y \in Scalar
      BY <1>6, <2>1 DEF Within
    <3> QED BY <1>7, <2>1, <3>1, ScalarsAreInts
  <2>3. r[m + 1] = ye % Order /\ P[m + 1] = z + e
    <3>1. r[m + 1] = turn[m + 1][y]
      BY <1>6, <2>1 DEF Follows
    <3>2. F[m + 1] = e
      BY <1>4, <2>1
    <3> QED BY <1>1, <1>7, <2>1, <2>2, <3>1, <3>2
  <2>4. ye \in Int /\ Same(Order, e, e)
    BY <2>2 DEF Same
  <2> HIDE DEF y, z, e
  <2>5. Same(Order, ye, z + e)
    BY <2>1, <2>2, <2>4, OrderFacts, SamePlus
  <2> HIDE DEF ye
  <2>6. Same(Order, ye % Order, ye)
    BY <2>4, OrderFacts, SameRefl
  <2> QED BY <2>3, <2>5, <2>6 DEF Same
<1>10. T = Nat
  <2>1. T \in SUBSET Nat
    OBVIOUS
  <2> HIDE DEF T
  <2> QED BY <1>8, <1>9, <2>1, NatSetInduction
<1>11. Same(Order, r[n], P[n]) /\ r[n] \in Scalar
  BY <1>6, <1>10 DEF Within
<1> QED BY <1>2, <1>4, <1>11 DEF P, F

\* n points as integers.
Places(points, n) == [i \in Nat |-> IF i \in 1 .. n THEN points[i] ELSE 0]

\* The terms of a total: the values of p, each with its weight.
WeightedValues(f, a, b, n, p, points) ==
  \A i \in 1 .. n : /\ f[i] \in Int
                    /\ Same(Order, f[i], Weight(a, b, n, (1 .. n) \ {i}, i) * Evaluate(p, points[i]))

\* Interpolation at zero: with the weights of n distinct points, the values of a
\* polynomial of no more than n coefficients add up to its constant term.
LEMMA InterpolatedAtZero ==
  ASSUME NEW n \in Nat \ {0}, NEW points \in [1 .. n -> Scalar],
         NEW a, NEW b, Factors(a, b, Places(points, n), n),
         NEW p \in Seq(Scalar), p # <<>>, Len(p) <= n,
         NEW f, WeightedValues(f, a, b, n, p, points)
  PROVE  Total(f, n) = p[1]
<1> DEFINE x == Places(points, n)
           w == WeightsOf(a, b, n)
           u == w[1][n]
           v == TermsAt(p, x, Len(p))
           F == [k \in Nat |-> IF k \in 1 .. n THEN f[k] ELSE 0]
           J == [i \in Nat |-> u[i] * v[i]]
<1>1. x \in [Nat -> Int] /\ \A i \in 1 .. n : x[i] = points[i] /\ points[i] \in Scalar /\ points[i] \in Int
  <2>1. \A i \in 1 .. n : points[i] \in Scalar /\ points[i] \in Int
    BY ScalarsAreInts
  <2> QED BY <2>1 DEF Places
<1>2. Factors(a, b, x, n)
  OBVIOUS
<1> HIDE DEF x
<1>3. Lagrange(w, x, n)
  BY <1>1, <1>2, WeightsAreLagrange
<1>4. Apart(x, n)
  <2> SUFFICES ASSUME NEW i \in 1 .. n, NEW j \in 1 .. n, i # j, Same(Order, x[i] - x[j], 0)
               PROVE  FALSE
    BY DEF Apart
  <2> DEFINE d == x[i] - x[j]
             e == x[j] - x[i]
             c == b[j][i]
             h == b[i][j]
  <2>1. c \in Scalar /\ c # 0 /\ h \in Scalar /\ h # 0
    BY <1>2 DEF Factors
  <2>2. (Same(Order, c, d) \/ Same(Order, h, d))
    BY <1>2 DEF Factors
  <2>3. Same(Order, d, 0)
    OBVIOUS
  <2> HIDE DEF c, h, d
  <2>4. 0 % Order = 0
    <3>1. 0 \in Scalar
      BY OrderFacts DEF Scalar
    <3> QED BY <3>1, OrderFacts
  <2> QED BY <2>1, <2>2, <2>3, <2>4, OrderFacts DEF Same
<1>5. Interpolates(w, x, n, 1, n)
  BY <1>1, <1>3, <1>4, AllPoints
<1>6. u \in [Nat -> Int]
  <2>1. 1 \in 1 .. n /\ n \in 1 .. n
    OBVIOUS
  <2> HIDE DEF w
  <2>2. OverRange(w[1][n], 1, n)
    BY <1>3, <2>1 DEF Lagrange
  <2> QED BY <2>2 DEF OverRange
<1>7. \A i \in 1 .. n : u[i] = Weight(a, b, n, (1 .. n) \ {i}, i)
  BY DEF WeightsOf
<1> HIDE DEF w
<1>8. Same(Order, Weighted(u, v)[n], p[1])
  BY <1>1, <1>5, <1>6, WeightedTerms
<1>9. v \in [Nat -> Int]
  <2>1. Len(p) \in Nat
    OBVIOUS
  <2> QED BY <1>1, <2>1, TermsAtFacts
<1>10. \A i \in 1 .. n : Same(Order, Evaluate(p, x[i]), v[i]) /\ Evaluate(p, x[i]) \in Int
  <2> SUFFICES ASSUME NEW i \in 1 .. n PROVE Same(Order, Evaluate(p, x[i]), v[i]) /\ Evaluate(p, x[i]) \in Int
    OBVIOUS
  <2>1. x[i] \in Scalar /\ i \in Nat
    BY <1>1
  <2>2. Evaluate(p, x[i]) \in Scalar /\ Same(Order, Evaluate(p, x[i]), PartialSums(Terms(p, x[i]))[Len(p)])
    BY <2>1, EvaluateSum
  <2>3. v[i] = PartialSums(Terms(p, x[i]))[Len(p)]
    BY <2>1 DEF TermsAt
  <2>4. Evaluate(p, x[i]) \in Int
    BY <2>2, ScalarsAreInts
  <2> QED BY <2>2, <2>3, <2>4
<1> HIDE DEF u, v
<1>11. J \in [Nat -> Int]
  <2>1. \A i \in Nat : u[i] \in Int /\ v[i] \in Int
    BY <1>6, <1>9
  <2>2. \A c, d \in Int : c * d \in Int
    OBVIOUS
  <2>3. \A i \in Nat : u[i] * v[i] \in Int
    BY <2>1, <2>2
  <2> QED BY <2>3
<1>12. ASSUME NEW i \in 1 .. n PROVE Same(Order, F[i], J[i])
  <2> DEFINE c == u[i]
             d == v[i]
             e == Evaluate(p, x[i])
  <2>1. c \in Int /\ d \in Int /\ e \in Int /\ Same(Order, e, d) /\ i \in Nat
    BY <1>6, <1>9, <1>10
  <2>2. Same(Order, f[i], c * e)
    BY <1>1, <1>7 DEF WeightedValues
  <2>3. F[i] = f[i] /\ J[i] = c * d
    BY <2>1
  <2> HIDE DEF c, d, e, F, J
  <2>4. Same(Order, e * c, d * c)
    BY <2>1, OrderFacts, SameTimes
  <2>5. e * c = c * e /\ d * c = c * d
    BY <2>1
  <2> QED BY <2>2, <2>3, <2>4, <2>5 DEF Same
<1>13. F \in [Nat -> Int] /\ Total(f, n) \in Scalar /\ Same(Order, Total(f, n), PartialSums(F)[n])
  BY TotalIs DEF WeightedValues
<1> HIDE DEF F, J
<1>14. Same(Order, PartialSums(F)[n], PartialSums(J)[n])
  BY <1>11, <1>12, <1>13, SumsSame
<1>15. PartialSums(J)[n] = Weighted(u, v)[n]
  BY DEF Weighted, J
<1>16. p[1] \in Scalar
  <2>1. 1 \in DOMAIN p
    OBVIOUS
  <2> QED BY <2>1
<1>17. Total(f, n) % Order = Total(f, n) /\ p[1] % Order = p[1]
  BY <1>13, <1>16, OrderFacts
<1> QED BY <1>8, <1>13, <1>14, <1>15, <1>17 DEF Same
==============================================================================

----------------------------- MODULE CurvProofs ------------------------------
(***************************************************************************)
(* curv below its protocols: integers, sigma proofs, hashing, serde, and   *)
(* the circuit of the Merkle example, points and scalars.                  *)
(*                                                                         *)
(* For every two integers, of either sign and zero included, egcd gives    *)
(* the greatest common divisor and its Bezout factors; the modular         *)
(* operations give residues; bytes and documents keep the absolute value;  *)
(* and a sampler can return each number of its range and no other.         *)
(*                                                                         *)
(* For every prime order, a point being its discrete logarithm: an         *)
(* honestly made proof of each sigma protocol verifies, whatever else the  *)
(* oracle was asked before, and two answers to one first message under     *)
(* different challenges give the witness.                                  *)
(*                                                                         *)
(* Whatever the sizes of a byte, a code and a tree: a code that verifies   *)
(* is the one computed; a Merkle proof verifies if it is an equal leaf's   *)
(* and no other proof does; a proof of the circuit verifies for a key at   *)
(* the place of its path only; a document is read only if it says what is  *)
(* read of it, and what was written reads back, but for a scalar in JSON.  *)
(*                                                                         *)
(* Whatever the prime order and the cofactor: points and scalars, however  *)
(* they are made and computed, are the multiples and the residues that     *)
(* integers modulo the order give, over either kind of curve library.      *)
(***************************************************************************)
EXTENDS BigIntegers, SigmaProofs, Hashing, MerkleCircuit, CurveSerde, CurveWrappers,
        PolynomialTheorems, SequenceTheorems

-----------------------------------------------------------------------------
(* Division that rounds towards zero. *)

LEMMA AbsFacts ==
  ASSUME NEW x \in Int
  PROVE  /\ Abs(x) \in Nat /\ LeadingUnit(x) \in {1, -1} /\ Abs(x) = LeadingUnit(x) * x
         /\ (Abs(x) = 0 <=> x = 0)
BY DEF Abs, LeadingUnit

\* Dividing by a unit.
LEMMA QuotientUnit ==
  ASSUME NEW x \in Int, NEW u \in {1, -1}
  PROVE  Quotient(x, u) = u * x
<1>1. CASE u = 1
  BY <1>1 DEF Quotient, LeadingUnit, Abs
<1>2. CASE u = -1
  BY <1>2 DEF Quotient, LeadingUnit, Abs
<1> QED BY <1>1, <1>2

LEMMA QuotientType ==
  ASSUME NEW x \in Int, NEW y \in Int \ {0}
  PROVE  Quotient(x, y) \in Int /\ Remainder(x, y) \in Int
<1> DEFINE k == Abs(x)
           m == Abs(y)
           u == LeadingUnit(x)
           v == LeadingUnit(y)
           f == k \div m
<1>1. k \in Nat /\ m \in Nat \ {0} /\ u \in Int /\ v \in Int
  BY AbsFacts
<1> HIDE DEF k, m, u, v
<1>2. f \in Int
  BY <1>1
<1> HIDE DEF f
<1>3. u * v * f \in Int
  BY <1>1, <1>2
<1> DEFINE w == u * v * f
<1>4. Quotient(x, y) = w
  BY DEF Quotient, u, v, f, k, m
<1>5. w \in Int
  BY <1>3
<1> HIDE DEF w
<1>6. x - y * w \in Int
  BY <1>5
<1> QED BY <1>4, <1>5, <1>6 DEF Remainder

\* Residues of numbers of either sign.
LEMMA ModulusFacts ==
  ASSUME NEW x \in Int, NEW m \in Nat \ {0}
  PROVE  Modulus(x, m) = x % m
<1> DEFINE k == Abs(x)
           f == k \div m
           r == k % m
           w == m * f
<1>1. k \in Nat /\ Abs(m) = m /\ LeadingUnit(m) = 1
  BY DEF Abs, LeadingUnit
<1> HIDE DEF k
<1>2. f \in Nat /\ r \in 0 .. m - 1 /\ k = w + r
  BY <1>1
<1>3. w \in Nat /\ w = f * m
  <2> HIDE DEF f
  <2> QED BY <1>2
<1> HIDE DEF f, r, w
<1>4. CASE x >= 0
  <2>1. k = x /\ LeadingUnit(x) = 1
    BY <1>4 DEF k, Abs, LeadingUnit
  <2>2. Quotient(x, m) = f
    BY <1>1, <1>2, <2>1 DEF Quotient, f, k
  <2>3. Remainder(x, m) = r
    BY <1>2, <1>3, <2>1, <2>2 DEF Remainder, w
  <2>4. r >= 0 /\ r = x % m
    BY <1>2, <2>1 DEF r
  <2> QED BY <2>3, <2>4 DEF Modulus
<1>5. CASE x < 0
  <2>1. k = -x /\ LeadingUnit(x) = -1
    BY <1>5 DEF k, Abs, LeadingUnit
  <2> DEFINE g == -f
  <2>2. Quotient(x, m) = g
    <3>1. Quotient(x, m) = (-1) * 1 * f
      BY <1>1, <2>1, Zenon DEF Quotient, f, k
    <3> QED BY <1>2, <3>1
  <2>3. g \in Int /\ m * g = -w /\ g * m = -w
    BY <1>2 DEF w
  <2> HIDE DEF g
  <2>4. Remainder(x, m) = -r
    BY <1>2, <1>3, <2>1, <2>2, <2>3 DEF Remainder
  <2>5. CASE r = 0
    <3>1. x = g * m + 0 /\ 0 \in 0 .. m - 1
      BY <1>2, <1>3, <2>1, <2>3, <2>5
    <3>2. x % m = 0
      BY <2>3, <3>1, ModUnique
    <3> QED BY <2>4, <2>5, <3>2 DEF Modulus
  <2>6. CASE r # 0
    <3> DEFINE h == g - 1
               s == m - r
    <3>1. h \in Int /\ s \in 0 .. m - 1
      BY <1>2, <2>3, <2>6
    <3>2. h * m = -w - m
      BY <2>3
    <3> HIDE DEF h
    <3>3. x = h * m + s
      BY <1>2, <1>3, <2>1, <3>1, <3>2
    <3> HIDE DEF s
    <3>4. x % m = s
      BY <3>1, <3>3, ModUnique
    <3>5. Modulus(x, m) = m + (-r)
      BY <1>2, <2>4, <2>6 DEF Modulus
    <3> QED BY <1>2, <3>4, <3>5 DEF s
  <2> QED BY <2>5, <2>6
<1> QED BY <1>4, <1>5

-----------------------------------------------------------------------------
(* Common divisors. *)

Common(x, y) == {d \in Nat \ {0} : x % d = 0 /\ y % d = 0}

\* A divisor of two numbers divides what one leaves after a multiple of the other.
LEMMA DividesDifference ==
  ASSUME NEW d \in Nat \ {0}, NEW x \in Int, NEW y \in Int, NEW k \in Int, x % d = 0, y % d = 0
  PROVE  (x - y * k) % d = 0
<1> DEFINE z == 0
           u == y * k
           v == z * k
<1>1. z \in Int /\ u \in Int /\ v \in Int /\ z % d = 0 /\ v = z /\ z - v = z
  <2>1. 0 \in 0 .. d - 1
    OBVIOUS
  <2>2. 0 % d = 0
    BY <2>1, ModSmall
  <2> QED BY <2>2
<1>2. Same(d, x, z) /\ Same(d, y, z)
  BY <1>1 DEF Same
<1> HIDE DEF z
<1>3. Same(d, u, v)
  BY <1>1, <1>2, SameTimes
<1> HIDE DEF u, v
<1>4. Same(d, x - u, z - v)
  BY <1>1, <1>2, <1>3, SameMinus
<1> QED BY <1>1, <1>4 DEF Same, u

LEMMA DividesUnit ==
  ASSUME NEW d \in Nat \ {0}, NEW x \in Int, NEW u \in {1, -1}
  PROVE  x % d = 0 <=> (u * x) % d = 0
<1> DEFINE z == 0
           y == u * x
           w == -u
<1>1. 0 \in 0 .. d - 1
  OBVIOUS
<1>2. z \in Int /\ z % d = 0 /\ y \in Int /\ w \in Int
  BY <1>1, ModSmall
<1>3. z - x * w = y /\ z - y * w = x
  OBVIOUS
<1> HIDE DEF z, y, w
<1>4. ASSUME x % d = 0 PROVE (z - x * w) % d = 0
  BY <1>2, <1>4, DividesDifference, Zenon
<1>5. ASSUME y % d = 0 PROVE (z - y * w) % d = 0
  BY <1>2, <1>5, DividesDifference, Zenon
<1> QED BY <1>3, <1>4, <1>5 DEF y

\* A divisor of a number that is not zero is no greater.
LEMMA DivisorBound ==
  ASSUME NEW d \in Nat \ {0}, NEW x \in Int \ {0}, x % d = 0
  PROVE  d <= Abs(x)
<1>1. PICK k \in Int : x = k * d + (x % d)
  BY ModRange
<1>2. x = k * d
  BY <1>1
<1>3. k # 0
  BY <1>2
<1>4. CASE k >= 1
  <2>1. (k - 1) * d >= 0
    BY <1>4
  <2>2. (k - 1) * d = k * d - d
    OBVIOUS
  <2> QED BY <1>2, <2>1, <2>2 DEF Abs
<1>5. CASE k <= -1
  <2>1. (-k - 1) * d >= 0
    BY <1>5
  <2>2. (-k - 1) * d = -(k * d) - d
    OBVIOUS
  <2> QED BY <1>2, <2>1, <2>2 DEF Abs
<1> QED BY <1>3, <1>4, <1>5

\* What divides two numbers divides the second and what the first leaves, and
\* the other way.
LEMMA CommonStep ==
  ASSUME NEW x \in Int, NEW y \in Int, NEW k \in Int
  PROVE  Common(y, Abs(x - y * k)) = Common(x, y)
<1> DEFINE r == x - y * k
           u == LeadingUnit(r)
           j == -k
<1>1. r \in Int /\ j \in Int
  OBVIOUS
<1>2. x = r - y * j
  OBVIOUS
<1>3. u \in {1, -1} /\ Abs(r) = u * r
  BY <1>1, AbsFacts
<1> HIDE DEF r, u, j
<1>4. ASSUME NEW d \in Nat \ {0}, y % d = 0
      PROVE  Abs(r) % d = 0 <=> x % d = 0
  <2>1. Abs(r) % d = 0 <=> r % d = 0
    <3>1. r % d = 0 <=> (u * r) % d = 0
      BY <1>1, <1>3, DividesUnit
    <3> QED BY <1>3, <3>1
  <2>2. ASSUME x % d = 0 PROVE r % d = 0
    <3>1. (x - y * k) % d = 0
      BY <1>4, <2>2, DividesDifference, Zenon
    <3> QED BY <3>1 DEF r
  <2>3. ASSUME r % d = 0 PROVE x % d = 0
    <3>1. (r - y * j) % d = 0
      BY <1>1, <1>4, <2>3, DividesDifference, Zenon
    <3> QED BY <1>2, <3>1
  <2> QED BY <2>1, <2>2, <2>3
<1> QED BY <1>4 DEF Common, r

\* Of the absolute values.
LEMMA CommonAbs ==
  ASSUME NEW x \in Int, NEW y \in Int
  PROVE  Common(Abs(x), Abs(y)) = Common(x, y)
<1>1. ASSUME NEW d \in Nat \ {0}, NEW z \in Int PROVE Abs(z) % d = 0 <=> z % d = 0
  BY AbsFacts, DividesUnit
<1> QED BY <1>1 DEF Common

BothZero(x, y) == x = 0 /\ y = 0

\* Numbers with the same common divisors have the same greatest one.
LEMMA GcdCommon ==
  ASSUME NEW x \in Int, NEW y \in Int
  PROVE  Gcd(x, y) = IF BothZero(x, y) THEN 0 ELSE Max(Common(x, y))
<1> SUFFICES ASSUME ~ BothZero(x, y) PROVE Gcd(x, y) = Max(Common(x, y))
  BY DEF Gcd, BothZero
<1> DEFINE S == {d \in 1 .. (Abs(x) + Abs(y)) : x % d = 0 /\ y % d = 0}
<1>1. Abs(x) \in Nat /\ Abs(y) \in Nat
  BY AbsFacts
<1>2. ASSUME NEW d \in Common(x, y) PROVE d \in S
  <2>1. d \in Nat \ {0} /\ x % d = 0 /\ y % d = 0
    BY DEF Common
  <2>2. d <= Abs(x) \/ d <= Abs(y)
    BY <2>1, DivisorBound DEF BothZero
  <2> QED BY <1>1, <2>1, <2>2
<1>3. S \subseteq Common(x, y)
  BY <1>1 DEF Common
<1>4. S = Common(x, y)
  <2> HIDE DEF S
  <2> QED BY <1>2, <1>3
<1>5. Gcd(x, y) = Max(S)
  BY DEF Gcd, BothZero
<1> HIDE DEF S
<1> QED BY <1>4, <1>5

LEMMA GcdSame ==
  ASSUME NEW x \in Int, NEW y \in Int, NEW v \in Int, NEW w \in Int,
         Common(x, y) = Common(v, w), BothZero(x, y) <=> BothZero(v, w)
  PROVE  Gcd(x, y) = Gcd(v, w)
BY GcdCommon

\* The greatest divisor of a number is itself.
LEMMA GcdZero ==
  ASSUME NEW x \in Nat
  PROVE  Gcd(x, 0) = x
<1>1. CASE x = 0
  BY <1>1 DEF Gcd
<1>2. CASE x # 0
  <2>1. x % x = 0 /\ 0 % x = 0
    <3>1. 0 \in 0 .. x - 1 /\ 1 * x + 0 = x /\ 1 \in Int
      BY <1>2
    <3> QED BY <1>2, <3>1, ModUnique, ModSmall
  <2>2. x \in Common(x, 0)
    BY <1>2, <2>1 DEF Common
  <2>3. \A d \in Common(x, 0) : d \in Int /\ d <= x
    <3>1. Abs(x) = x
      BY DEF Abs
    <3> QED BY <1>2, <3>1, DivisorBound DEF Common
  <2>4. Max(Common(x, 0)) = x
    <3> DEFINE S == Common(x, 0)
    <3> HIDE DEF S
    <3>1. x \in S /\ \A d \in S : d \in Int /\ d <= x
      BY <2>2, <2>3 DEF S
    <3> DEFINE m == Max(S)
    <3>2. m \in S /\ \A d \in S : m >= d
      BY <3>1 DEF Max
    <3> HIDE DEF m
    <3>3. m \in Int /\ m <= x /\ m >= x
      BY <3>1, <3>2
    <3> QED BY <3>3 DEF S, m
  <2> QED BY <1>2, <2>4, GcdCommon DEF BothZero
<1> QED BY <1>1, <1>2

-----------------------------------------------------------------------------
(* The extended algorithm. *)

\* A triple <<n, f, g>> of a step: n = x * f + y * g.
Triple(x, y, t) == t[1] \in Nat /\ t[2] \in Int /\ t[3] \in Int /\ t[1] = x * t[2] + y * t[3]

\* Two triples whose numbers have the common divisors of the operands.
Steps(x, y, s, t) ==
  /\ x \in Int /\ y \in Int /\ Triple(x, y, s) /\ Triple(x, y, t)
  /\ Common(s[1], t[1]) = Common(x, y) /\ (BothZero(s[1], t[1]) <=> BothZero(x, y))

LEMMA FirstSteps ==
  ASSUME NEW x \in Int, NEW y \in Int
  PROVE  Steps(x, y, <<Abs(x), Quotient(1, LeadingUnit(x)), 0>>,
                     <<Abs(y), 0, Quotient(1, LeadingUnit(y))>>)
<1> DEFINE u == LeadingUnit(x)
           v == LeadingUnit(y)
           s == <<Abs(x), Quotient(1, u), 0>>
           t == <<Abs(y), 0, Quotient(1, v)>>
<1>1. u \in {1, -1} /\ v \in {1, -1}
  BY AbsFacts
<1> HIDE DEF u, v
<1>2. Quotient(1, u) = u /\ Quotient(1, v) = v
  BY <1>1, QuotientUnit
<1>3. Abs(x) = u * x /\ Abs(y) = v * y /\ Abs(x) \in Nat /\ Abs(y) \in Nat
  BY AbsFacts DEF u, v
<1>4. x * 0 = 0 /\ y * 0 = 0 /\ u * x = x * u /\ v * y = y * v /\ u * x \in Int /\ v * y \in Int
  BY <1>1
<1>5. s[1] = Abs(x) /\ s[2] = u /\ s[3] = 0 /\ t[1] = Abs(y) /\ t[2] = 0 /\ t[3] = v
  BY <1>2
<1> HIDE DEF s, t
<1>6. Triple(x, y, s) /\ Triple(x, y, t)
  BY <1>1, <1>3, <1>4, <1>5 DEF Triple
<1>7. Common(s[1], t[1]) = Common(x, y)
  BY <1>5, CommonAbs
<1>8. BothZero(s[1], t[1]) <=> BothZero(x, y)
  BY <1>5, AbsFacts DEF BothZero
<1>9. Steps(x, y, s, t)
  BY <1>6, <1>7, <1>8 DEF Steps
<1> QED BY <1>9 DEF s, t, u, v

\* A turn takes from the first triple a multiple of the second, and keeps it all.
LEMMA NextSteps ==
  ASSUME NEW x, NEW y, NEW s, NEW t, Steps(x, y, s, t), t[1] # 0,
         NEW k, k = Quotient(s[1], t[1]), NEW r, r = Remainder(s[1], t[1])
  PROVE  Steps(x, y, t, <<Abs(r), Quotient(s[2] - k * t[2], LeadingUnit(r)),
                                  Quotient(s[3] - k * t[3], LeadingUnit(r))>>)
<1> DEFINE s1 == s[1]
           s2 == s[2]
           s3 == s[3]
           t1 == t[1]
           t2 == t[2]
           t3 == t[3]
           u  == LeadingUnit(r)
           f  == s2 - k * t2
           g  == s3 - k * t3
           w  == <<Abs(r), Quotient(f, u), Quotient(g, u)>>
<1>1. /\ x \in Int /\ y \in Int /\ s1 \in Nat /\ s2 \in Int /\ s3 \in Int
      /\ t1 \in Nat \ {0} /\ t2 \in Int /\ t3 \in Int
      /\ s1 = x * s2 + y * s3 /\ t1 = x * t2 + y * t3
  BY DEF Steps, Triple
<1>2. Common(s1, t1) = Common(x, y) /\ (BothZero(s1, t1) <=> BothZero(x, y))
  BY DEF Steps
<1>3. k \in Int /\ r \in Int /\ r = s1 - t1 * k
  <2>1. s[1] \in Int /\ t[1] \in Int \ {0}
    BY <1>1
  <2>2. k \in Int /\ r \in Int
    BY <2>1, QuotientType
  <2> QED BY <2>2 DEF Remainder
<1>4. u \in {1, -1} /\ Abs(r) = u * r /\ Abs(r) \in Nat
  BY <1>3, AbsFacts
<1> HIDE DEF s1, s2, s3, t1, t2, t3, u
<1>5. f \in Int /\ g \in Int
  BY <1>1, <1>3
<1>6. r = x * f + y * g
  BY <1>1, <1>3
<1> HIDE DEF f, g
<1>7. w[1] = Abs(r) /\ w[2] = u * f /\ w[3] = u * g
  BY <1>4, <1>5, QuotientUnit
<1> HIDE DEF w
<1>8. Triple(x, y, w)
  <2>1. u * f \in Int /\ u * g \in Int
    BY <1>4, <1>5
  <2>2. u * r = x * (u * f) + y * (u * g)
    BY <1>1, <1>4, <1>5, <1>6
  <2> QED BY <1>4, <1>7, <2>1, <2>2 DEF Triple
<1>9. Common(t1, w[1]) = Common(x, y)
  <2>1. s1 \in Int /\ t1 \in Int
    BY <1>1
  <2>2. Common(t1, Abs(s1 - t1 * k)) = Common(s1, t1)
    BY <1>3, <2>1, CommonStep
  <2> QED BY <1>2, <1>3, <1>7, <2>2
<1>10. ~ BothZero(t1, w[1]) /\ ~ BothZero(x, y)
  BY <1>1, <1>2 DEF BothZero
<1>11. Triple(x, y, t)
  BY DEF Steps
<1>12. Steps(x, y, t, w)
  BY <1>1, <1>8, <1>9, <1>10, <1>11 DEF Steps, t1
<1> QED BY <1>12 DEF w, u, f, g, s2, s3, t2, t3

\* Where the second number is zero the first is the greatest common divisor.
LEMMA LastSteps ==
  ASSUME NEW x, NEW y, NEW s, NEW t, Steps(x, y, s, t)
  PROVE  /\ Gcd(s[1], t[1]) = Gcd(x, y)
         /\ t[1] = 0 => s[1] = Gcd(x, y)
<1>1. s[1] \in Nat /\ t[1] \in Nat /\ x \in Int /\ y \in Int
  BY DEF Steps, Triple
<1>2. Gcd(s[1], t[1]) = Gcd(x, y)
  BY <1>1, GcdSame DEF Steps
<1> QED BY <1>1, <1>2, GcdZero

\* What mod_inv returns is an inverse.
LEMMA InverseOfTriple ==
  ASSUME NEW x \in Int, NEW m \in Nat \ {0}, NEW f \in Int, NEW g \in Int, 1 = x * f + m * g
  PROVE  Modulus(f, m) \in 0 .. m - 1 /\ (x * Modulus(f, m)) % m = 1 % m
<1> DEFINE i == Modulus(f, m)
           w == x * f
           h == -g
           o == 1
<1>1. i = f % m
  BY ModulusFacts
<1>2. i \in 0 .. m - 1 /\ i \in Int /\ Same(m, i, f)
  BY <1>1, ModRange, SameRefl
<1> HIDE DEF i
<1>3. Same(m, i * x, f * x)
  BY <1>2, SameTimes
<1>4. i * x = x * i /\ f * x = w /\ w \in Int /\ o \in Int /\ h \in Int
  BY <1>2
<1>5. w = o + h * m
  OBVIOUS
<1> HIDE DEF w, h, o
<1>6. w % m = o % m
  <2>1. (o + h * m) % m = o % m
    BY <1>4, ModShift, Zenon
  <2> QED BY <1>5, <2>1
<1> QED BY <1>2, <1>3, <1>4, <1>6 DEF Same, i, o

-----------------------------------------------------------------------------
\* Bezout's identity is inductive with types, the common divisors instead of the
\* greatest, and that a mod_inv ends as it should.
Inverted(x, y) ==
  y > 0 => IF Gcd(x, y) # 1 THEN result = None
           ELSE result \in 0 .. (y - 1) /\ (x * result) % y = 1 % y
IntegersIInv ==
  /\ pc \in {"egcd", "inverse"} => Steps(a, b, old, now)
  /\ pc = "gcd" => result[1] = Gcd(a, b) /\ result[1] = a * result[2] + b * result[3]
  /\ pc = "inverted" => Inverted(a, b)

THEOREM IntegersInitial == Init => IntegersIInv
BY DEF Init, IntegersIInv

LEMMA StartKeeps ==
  ASSUME NEW x \in Operands, NEW y \in Operands, NEW task \in {"egcd", "inverse"}, Start(task, x, y)
  PROVE  IntegersIInv'
<1>1. x \in Int /\ y \in Int
  BY BigIntAssumption, ByteAssumption
<1>2. Steps(x, y, <<Abs(x), Quotient(1, LeadingUnit(x)), 0>>,
                  <<Abs(y), 0, Quotient(1, LeadingUnit(y))>>)
  BY <1>1, FirstSteps
<1>3. Steps(x, y, old', now') /\ a' = x /\ b' = y /\ pc' = task
  BY <1>2 DEF Start
<1>4. Steps(a, b, old, now)'
  BY <1>3 DEF Steps, Triple
<1> QED BY <1>3, <1>4 DEF IntegersIInv

LEMMA TurnKeeps ==
  ASSUME IntegersIInv, EuclidTurn
  PROVE  IntegersIInv'
<1> DEFINE k == Quotient(old[1], now[1])
           r == Remainder(old[1], now[1])
           w == <<Abs(r), Quotient(old[2] - k * now[2], LeadingUnit(r)),
                          Quotient(old[3] - k * now[3], LeadingUnit(r))>>
<1>1. Steps(a, b, old, now) /\ now[1] # 0 /\ pc \in {"egcd", "inverse"}
  BY DEF EuclidTurn, IntegersIInv
<1>2. now' = w /\ old' = now /\ a' = a /\ b' = b /\ pc' = pc
  BY DEF EuclidTurn
<1>3. Steps(a, b, now, w)
  BY <1>1, NextSteps
<1> HIDE DEF w
<1>4. Steps(a, b, old, now)'
  BY <1>2, <1>3 DEF Steps, Triple
<1> QED BY <1>1, <1>2, <1>4 DEF IntegersIInv

LEMMA ReturnKeeps ==
  ASSUME IntegersIInv, EuclidReturn
  PROVE  IntegersIInv'
<1>1. /\ Steps(a, b, old, now) /\ now[1] = 0 /\ pc \in {"egcd", "inverse"}
      /\ a' = a /\ b' = b
  BY DEF EuclidReturn, IntegersIInv
<1>2. old[1] = Gcd(a, b)
  BY <1>1, LastSteps
<1>3. /\ a \in Int /\ b \in Int /\ old[1] \in Nat /\ old[2] \in Int /\ old[3] \in Int
      /\ old[1] = a * old[2] + b * old[3]
  BY <1>1 DEF Steps, Triple
<1>4. CASE pc = "egcd"
  <2>1. pc' = "gcd" /\ result' = old
    BY <1>4 DEF EuclidReturn
  <2> QED BY <1>1, <1>2, <1>3, <2>1 DEF IntegersIInv
<1>5. CASE pc = "inverse"
  <2>1. /\ pc' = "inverted"
        /\ result' = IF old[1] # 1 THEN None ELSE IF b = 0 THEN Panic ELSE Modulus(old[2], b)
    BY <1>5 DEF EuclidReturn
  <2>2. ASSUME b > 0, Gcd(a, b) = 1
        PROVE  result' \in 0 .. (b - 1) /\ (a * result') % b = 1 % b
    <3>1. result' = Modulus(old[2], b)
      BY <1>2, <2>1, <2>2
    <3>2. 1 = a * old[2] + b * old[3] /\ b \in Nat \ {0}
      <4>1. old[1] = 1
        BY <1>2, <2>2
      <4> QED BY <1>3, <2>2, <4>1
    <3>3. Modulus(old[2], b) \in 0 .. b - 1 /\ (a * Modulus(old[2], b)) % b = 1 % b
      <4>1. a \in Int /\ old[2] \in Int /\ old[3] \in Int
        BY <1>3
      <4> QED BY ONLY <3>2, <4>1, InverseOfTriple, ZenonT(60)
    <3> QED BY <3>1, <3>3
  <2>3. b > 0 /\ Gcd(a, b) # 1 => result' = None
    BY <1>2, <2>1
  <2>4. Inverted(a, b)'
    BY <1>1, <2>2, <2>3 DEF Inverted
  <2> QED BY <2>1, <2>4 DEF IntegersIInv
<1> QED BY <1>1, <1>4, <1>5

THEOREM IntegersInductive == IntegersIInv /\ [Next]_vars => IntegersIInv'
<1> SUFFICES ASSUME IntegersIInv, [Next]_vars PROVE IntegersIInv'
  OBVIOUS
<1>1. ASSUME NEW x \in Operands, NEW y \in Operands, NEW task \in {"egcd", "inverse"},
             Start(task, x, y)
      PROVE  IntegersIInv'
  BY <1>1, StartKeeps
<1>2. ASSUME NEW x, NEW y, NEW task, task \in {"below", "range", "strict_range", "strict"},
             Sampler(task, x, y)
      PROVE  IntegersIInv'
  BY <1>2 DEF Sampler, IntegersIInv
<1>3. CASE EuclidTurn
  BY <1>3, TurnKeeps
<1>4. CASE EuclidReturn
  BY <1>4, ReturnKeeps
<1>5. CASE Draw
  BY <1>5 DEF Draw, Sampling, IntegersIInv
<1>6. CASE UNCHANGED vars
  BY <1>6 DEF vars, IntegersIInv, Inverted, Steps, Triple
<1> QED BY <1>1, <1>2, <1>3, <1>4, <1>5, <1>6 DEF Next

\* For every pair of integers, of either sign and zero included: the extended
\* algorithm keeps Bezout's identity and the common divisors at every turn, so
\* that egcd returns the greatest common divisor with its factors, and mod_inv
\* an inverse in 0..m-1 exactly when there is one (ring_algorithms.rs:23-53,
\* big_native.rs:171-173).
THEOREM EuclidCorrect == Spec => []BezoutHolds
<1>1. IntegersIInv => BezoutHolds
  <2> SUFFICES ASSUME IntegersIInv PROVE BezoutHolds
    OBVIOUS
  <2>1. ASSUME pc \in {"egcd", "inverse"}
        PROVE  /\ \A t \in {old, now} : t[1] = a * t[2] + b * t[3] /\ t[1] >= 0
               /\ Gcd(old[1], now[1]) = Gcd(a, b)
    <3>1. Steps(a, b, old, now)
      BY <2>1 DEF IntegersIInv
    <3>2. Gcd(old[1], now[1]) = Gcd(a, b)
      BY <3>1, LastSteps
    <3> QED BY <3>1, <3>2 DEF Steps, Triple
  <2> QED BY <2>1 DEF BezoutHolds, IntegersIInv, Inverted
<1> QED BY <1>1, IntegersInitial, IntegersInductive, PTL DEF Spec

-----------------------------------------------------------------------------
(* Residues. *)

\* For every two integers, of either sign, and every positive modulus, the modular
\* operations give the one residue below it (big_native.rs:152-182).
THEOREM SignedResidues == Spec => []ResiduesAgree
<1> SUFFICES ResiduesAgree
  BY PTL
<1> SUFFICES ASSUME NEW x \in Int, NEW y \in Int, NEW m \in Nat \ {0}
             PROVE  /\ ModAdd(x, y, m) = (x + y) % m /\ ModSub(x, y, m) = (x - y) % m
                    /\ ModMul(x, y, m) = (x * y) % m /\ Modulus(x, m) = x % m
  BY BigIntAssumption, ByteAssumption DEF ResiduesAgree
<1> DEFINE c == x % m
           d == y % m
<1>1. c \in Int /\ d \in Int /\ Same(m, c, x) /\ Same(m, d, y)
  BY SameRefl
<1>2. ModAdd(x, y, m) = (c + d) % m /\ ModMul(x, y, m) = (c * d) % m
      /\ ModSub(x, y, m) = (c - d + m) % m
  BY DEF ModAdd, ModMul, ModSub, ModFloor
<1> HIDE DEF c, d
<1>3. (c + d) % m = (x + y) % m
  <2>1. Same(m, c + d, x + y)
    BY <1>1, SamePlus
  <2> QED BY <2>1 DEF Same
<1>4. (c - d + m) % m = (x - y) % m
  <2> DEFINE e == c - d
             o == 1
  <2>1. Same(m, e, x - y)
    BY <1>1, SameMinus
  <2>2. e \in Int /\ o \in Int /\ e + o * m = c - d + m
    BY <1>1
  <2> HIDE DEF o, e
  <2>3. (e + o * m) % m = e % m
    BY <2>2, ModShift
  <2> QED BY <2>1, <2>2, <2>3 DEF e, Same
<1>5. (c * d) % m = (x * y) % m
  <2>1. Same(m, c * d, x * d)
    BY <1>1, SameTimes
  <2>2. Same(m, d * x, y * x)
    BY <1>1, SameTimes
  <2>3. x * d = d * x /\ x * y = y * x
    BY <1>1
  <2> QED BY <2>1, <2>2, <2>3 DEF Same
<1>6. Modulus(x, m) = x % m
  BY ModulusFacts
<1> QED BY <1>2, <1>3, <1>4, <1>5, <1>6

-----------------------------------------------------------------------------
(* The samplers. *)

LEMMA TwoToPlus ==
  ASSUME NEW m \in Nat, NEW n \in Nat
  PROVE  TwoTo[m + n] = TwoTo[m] * TwoTo[n]
<1> DEFINE t == TwoTo
           S == {k \in Nat : t[m + k] = t[m] * t[k]}
<1>1. t[0] = 1 /\ \A k \in Nat : t[k] \in Nat /\ t[k + 1] = 2 * t[k]
  BY TwoToFacts
<1> HIDE DEF t
<1>2. 0 \in S
  BY <1>1
<1>3. ASSUME NEW k \in S PROVE k + 1 \in S
  <2> DEFINE u == t[m]
             w == t[k]
             j == m + k
  <2>1. /\ u \in Nat /\ w \in Nat /\ j \in Nat /\ t[j] = u * w
        /\ t[j + 1] = 2 * t[j] /\ t[k + 1] = 2 * w /\ m + (k + 1) = j + 1
    BY <1>1
  <2> HIDE DEF u, w, j
  <2>2. 2 * (u * w) = u * (2 * w)
    BY <2>1
  <2>3. t[m + (k + 1)] = u * t[k + 1]
    BY <2>1, <2>2
  <2> QED BY <2>3 DEF u
<1>4. S = Nat
  <2>1. S \in SUBSET Nat /\ \A k \in S : k + 1 \in S
    BY <1>3
  <2> HIDE DEF S
  <2> QED BY <1>2, <2>1, NatSetInduction
<1> QED BY <1>4 DEF t

\* Shifting the numbers below T * U down by T gives those below U, each.
LEMMA ShiftedRange ==
  ASSUME NEW T \in Nat \ {0}, NEW U \in Nat \ {0}
  PROVE  {x \div T : x \in 0 .. T * U - 1} = 0 .. U - 1
<1>1. ASSUME NEW x \in 0 .. T * U - 1 PROVE x \div T \in 0 .. U - 1
  <2> DEFINE d == x \div T
             r == x % T
  <2>1. d \in Int /\ r \in 0 .. T - 1 /\ x = T * d + r /\ x \in Int
    OBVIOUS
  <2> HIDE DEF d, r
  <2>2. ~ d < 0
    <3> SUFFICES ASSUME d <= -1 PROVE FALSE
      BY <2>1
    <3>1. T * d <= -T
      BY <2>1
    <3> QED BY <2>1, <3>1
  <2>3. ~ d >= U
    <3> SUFFICES ASSUME d >= U PROVE FALSE
      OBVIOUS
    <3>1. T * d >= T * U
      BY <2>1
    <3>2. T * U \in Nat
      OBVIOUS
    <3> QED BY <2>1, <3>1, <3>2
  <2>4. d \in 0 .. U - 1
    BY <2>1, <2>2, <2>3
  <2> QED BY <2>4 DEF d
<1>2. ASSUME NEW k \in 0 .. U - 1 PROVE \E x \in 0 .. T * U - 1 : x \div T = k
  <2> DEFINE x == k * T
  <2>1. x \in Nat /\ x <= T * U - 1
    <3>1. (k + 1) * T <= U * T
      OBVIOUS
    <3>2. (k + 1) * T = k * T + T /\ U * T = T * U /\ k * T \in Nat
      OBVIOUS
    <3> QED BY <3>1, <3>2
  <2>2. x \div T = k
    OBVIOUS
  <2> QED BY <2>1, <2>2
<1> QED BY <1>1, <1>2

\* Bytes enough for the bits, and no more.
LEMMA BytesForFacts ==
  ASSUME NEW bits \in Nat
  PROVE  /\ BytesFor(bits) \in Nat /\ BytesFor(bits) * ByteBits \in Nat
         /\ BytesFor(bits) * ByteBits >= bits
         /\ (bits > 0 => BytesFor(bits) > 0)
         /\ \A l \in Nat : bits <= l * ByteBits => BytesFor(bits) <= l
<1> DEFINE k == bits - 1
           B == ByteBits
           d == k \div B
           r == k % B
           f == d + 1
<1>1. B \in Nat \ {0} /\ k \in Int
  BY BigIntAssumption, ByteAssumption
<1>2. d \in Int /\ r \in 0 .. B - 1 /\ k = B * d + r
  BY <1>1
<1>3. BytesFor(bits) = f
  BY DEF BytesFor
<1> HIDE DEF d, r, B
<1>4. f \in Int /\ f * B = B * d + B
  BY <1>1, <1>2
<1>5. f * B >= bits /\ f * B \in Int
  BY <1>1, <1>2, <1>4
<1>6. f >= 0 /\ (bits > 0 => f > 0)
  <2> DEFINE e == -d
  <2>1. d >= -1 /\ (bits > 0 => d >= 0)
    <3>1. ASSUME d <= -2 PROVE FALSE
      <4>1. B * d <= B * (-2)
        BY <1>1, <1>2, <3>1
      <4>2. B * (-2) = -B - B
        BY <1>1
      <4> QED BY <1>1, <1>2, <4>1, <4>2
    <3>2. ASSUME d = -1, bits > 0 PROVE FALSE
      <4>1. B * d = -B
        BY <1>1, <3>2
      <4> QED BY <1>1, <1>2, <3>2, <4>1
    <3> QED BY <1>2, <3>1, <3>2
  <2> QED BY <1>2, <2>1
<1>7. ASSUME NEW l \in Nat, bits <= l * B PROVE f <= l
  <2> SUFFICES ASSUME l <= d PROVE FALSE
    BY <1>2
  <2>1. B * l <= B * d
    BY <1>1, <1>2
  <2>2. l * B = B * l /\ l * B \in Nat /\ B * d \in Int
    BY <1>1, <1>2
  <2> QED BY <1>2, <1>7, <2>1, <2>2
<1> HIDE DEF f
<1> QED BY <1>3, <1>4, <1>5, <1>6, <1>7 DEF B

\* sample draws each number of as many bits or fewer, and no other.
Samples(bits) == {Sample(bits, bytes) : bytes \in Drawable(bits)}

LEMMA SamplesFacts ==
  ASSUME NEW bits \in Nat
  PROVE  Samples(bits) = 0 .. TwoTo[bits] - 1
<1> DEFINE w == BytesFor(bits) * ByteBits
           k == w - bits
           T == TwoTo[k]
           U == TwoTo[bits]
<1>1. w \in Nat /\ k \in Nat /\ k + bits = w
  BY BytesForFacts
<1>2. Samples(bits) = {x \div T : x \in 0 .. TwoTo[w] - 1}
  BY DEF Samples, Sample, Drawable, Excess, BaseTo
<1> HIDE DEF w, k
<1>3. T \in Nat \ {0} /\ U \in Nat \ {0}
  BY <1>1, TwoToFacts
<1>4. TwoTo[w] = T * U
  BY <1>1, TwoToPlus
<1> HIDE DEF T, U
<1>5. {x \div T : x \in 0 .. T * U - 1} = 0 .. U - 1
  BY <1>3, ShiftedRange
<1>6. Samples(bits) = 0 .. U - 1
  BY <1>2, <1>4, <1>5
<1> QED BY <1>6 DEF U

\* A positive number is below the power of two of its length, and not below the
\* one before it.
LEMMA LengthFacts ==
  ASSUME NEW n \in Nat \ {0}
  PROVE  BitLength(n) \in Nat \ {0} /\ TwoTo[BitLength(n) - 1] <= n /\ n < TwoTo[BitLength(n)]
<1> DEFINE t == TwoTo
           Fits(k) == t[k - 1] <= n /\ n < t[k]
           S == {j \in Nat : t[j] <= n \/ \E k \in 1 .. j : Fits(k)}
<1>1. t[0] = 1 /\ \A k \in Nat : t[k] \in Nat /\ k < t[k]
  BY TwoToFacts
<1> HIDE DEF t
<1>2. 0 \in S
  BY <1>1
<1>3. ASSUME NEW j \in S PROVE j + 1 \in S
  <2>1. CASE \E k \in 1 .. j : Fits(k)
    <3>1. PICK k \in 1 .. j : Fits(k)
      BY <2>1
    <3>2. k \in 1 .. j + 1
      OBVIOUS
    <3> QED BY <3>1, <3>2
  <2>2. CASE t[j] <= n
    <3> DEFINE i == j + 1
    <3>1. i \in Nat /\ i \in 1 .. i /\ i - 1 = j /\ t[i] \in Nat
      BY <1>1
    <3> HIDE DEF i
    <3>2. t[i] <= n \/ n < t[i]
      BY <3>1
    <3>3. t[i] <= n \/ Fits(i)
      BY <2>2, <3>1, <3>2
    <3> QED BY <3>1, <3>3 DEF i
  <2> QED BY <2>1, <2>2
<1>4. S = Nat
  <2>1. S \in SUBSET Nat /\ \A k \in S : k + 1 \in S
    BY <1>3
  <2> HIDE DEF S
  <2> QED BY <1>2, <2>1, NatSetInduction
<1>5. \E k \in 1 .. n : Fits(k)
  <2>1. n \in S /\ n < t[n] /\ t[n] \in Nat
    BY <1>1, <1>4
  <2> QED BY <2>1
<1>6. Abs(n) = n /\ n # 0
  BY DEF Abs
<1>7. BitLength(n) = CHOOSE k \in 1 .. n : Fits(k)
  BY <1>6 DEF BitLength, t
<1>8. BitLength(n) \in 1 .. n /\ Fits(BitLength(n))
  <2> HIDE DEF Fits
  <2> QED BY <1>5, <1>7
<1> QED BY <1>8 DEF t

\* What a sampler that has not returned was asked for.
SamplersIInv ==
  /\ pc \in {"below", "range", "strict_range"} => a \in Int /\ b \in Int /\ a < b
  /\ pc = "strict" => a = 0 /\ b \in Nat \ {0}

LEMMA SamplerKeeps ==
  ASSUME NEW task \in {"below", "range", "strict_range", "strict"}, NEW x \in Int, NEW y \in Int,
         task = "strict" => x = 0 /\ y \in Nat, Sampler(task, x, y)
  PROVE  SamplersIInv'
<1>1. a' = x /\ b' = y
  BY DEF Sampler
<1>2. pc' = "drawn" \/ (pc' = task /\ ~ (task # "strict" /\ y <= x) /\ ~ (task = "strict" /\ y = 0))
  BY DEF Sampler
<1>3. CASE pc' = "drawn"
  BY <1>3 DEF SamplersIInv
<1>4. CASE pc' = task /\ task # "strict"
  BY <1>1, <1>2, <1>4 DEF SamplersIInv
<1>5. CASE pc' = task /\ task = "strict"
  BY <1>1, <1>2, <1>5 DEF SamplersIInv
<1> QED BY <1>2, <1>3, <1>4, <1>5

LEMMA SamplersInductive == SamplersIInv /\ [Next]_vars => SamplersIInv'
<1> SUFFICES ASSUME SamplersIInv, [Next]_vars PROVE SamplersIInv'
  OBVIOUS
<1>1. ASSUME NEW x \in Operands, NEW y \in Operands, NEW task \in {"egcd", "inverse"},
             Start(task, x, y)
      PROVE  SamplersIInv'
  BY <1>1 DEF Start, SamplersIInv
<1>2. ASSUME NEW x \in Operands, NEW y \in Operands, NEW task \in {"range", "strict_range"},
             Sampler(task, x, y)
      PROVE  SamplersIInv'
  <2>1. x \in Int /\ y \in Int /\ task \in {"below", "range", "strict_range", "strict"} /\ task # "strict"
    BY BigIntAssumption, ByteAssumption
  <2> QED BY <1>2, <2>1, SamplerKeeps
<1>3. ASSUME NEW y \in Operands, Sampler("below", 0, y) PROVE SamplersIInv'
  <2>1. y \in Int /\ 0 \in Int /\ "below" \in {"below", "range", "strict_range", "strict"} /\ "below" # "strict"
    BY BigIntAssumption, ByteAssumption
  <2> QED BY <1>3, <2>1, SamplerKeeps
<1>4. ASSUME NEW size \in Sizes, Sampler("strict", 0, size) PROVE SamplersIInv'
  <2>1. size \in Nat /\ size \in Int /\ 0 \in Int /\ "strict" \in {"below", "range", "strict_range", "strict"}
    BY BigIntAssumption, ByteAssumption
  <2> QED BY <1>4, <2>1, SamplerKeeps
<1>5. CASE EuclidTurn
  BY <1>5 DEF EuclidTurn, SamplersIInv
<1>6. CASE EuclidReturn
  BY <1>6 DEF EuclidReturn, SamplersIInv
<1>7. CASE Draw
  BY <1>7 DEF Draw, SamplersIInv
<1>8. CASE UNCHANGED vars
  BY <1>8 DEF vars, SamplersIInv
<1> QED BY <1>1, <1>2, <1>3, <1>4, <1>5, <1>6, <1>7, <1>8 DEF Next

\* For every range of integers and every size in bits: what a sampler draws of its
\* buffer, shifts and accepts are the numbers of its range, each of them and no
\* other, the length of the range and its buffer being what they are (traits.rs:
\* 175-196, samplable.rs:7-55).
THEOREM SamplersCorrect == Spec => []SamplesTheRange
<1>1. Init => SamplersIInv
  BY DEF Init, SamplersIInv
<1>2. SamplersIInv => SamplesTheRange
  <2> SUFFICES ASSUME SamplersIInv, pc \in Sampling
               PROVE  {a + m : m \in {m \in Samples(DrawnBits) : Accepts(m)}} = Wanted
    BY DEF SamplesTheRange, Samples
  <2>1. CASE pc \in {"below", "range", "strict_range"}
    <3> DEFINE w == b - a
               bits == BitLength(w)
    <3>1. a \in Int /\ b \in Int /\ a < b /\ w \in Nat \ {0}
      BY <2>1 DEF SamplersIInv
    <3>2. bits \in Nat /\ w < TwoTo[bits]
      <4> HIDE DEF w
      <4> QED BY <3>1, LengthFacts
    <3>3. DrawnBits = bits
      BY <2>1 DEF DrawnBits
    <3> HIDE DEF bits
    <3>4. Samples(DrawnBits) = 0 .. TwoTo[bits] - 1 /\ TwoTo[bits] \in Nat
      BY <3>2, <3>3, SamplesFacts, TwoToFacts
    <3>5. CASE pc \in {"below", "range"}
      <4>1. \A m \in Nat : Accepts(m) <=> m < w
        BY <3>5 DEF Accepts
      <4>2. Wanted = a .. b - 1
        BY <3>5 DEF Wanted
      <4> DEFINE N == {m \in Samples(DrawnBits) : Accepts(m)}
      <4>3. N = 0 .. w - 1
        <5> HIDE DEF w
        <5> QED BY <3>1, <3>2, <3>4, <4>1
      <4> HIDE DEF N
      <4>4. ASSUME NEW i \in a .. b - 1 PROVE \E m \in 0 .. w - 1 : i = a + m
        <5>1. i - a \in 0 .. w - 1 /\ i = a + (i - a)
          BY <3>1
        <5> QED BY <5>1
      <4>5. {a + m : m \in 0 .. w - 1} = a .. b - 1
        BY <3>1, <4>4
      <4> QED BY <4>2, <4>3, <4>5 DEF N
    <3>6. CASE pc = "strict_range"
      <4>1. \A m \in Nat : Accepts(m) <=> m \in 1 .. w - 1
        BY <3>1, <3>6 DEF Accepts
      <4>2. Wanted = a + 1 .. b - 1
        BY <3>6 DEF Wanted
      <4> DEFINE N == {m \in Samples(DrawnBits) : Accepts(m)}
      <4>3. N = 1 .. w - 1
        <5> HIDE DEF w
        <5> QED BY <3>1, <3>2, <3>4, <4>1
      <4> HIDE DEF N
      <4>4. ASSUME NEW i \in a + 1 .. b - 1 PROVE \E m \in 1 .. w - 1 : i = a + m
        <5>1. i - a \in 1 .. w - 1 /\ i = a + (i - a)
          BY <3>1
        <5> QED BY <5>1
      <4>5. {a + m : m \in 1 .. w - 1} = a + 1 .. b - 1
        BY <3>1, <4>4
      <4> QED BY <4>2, <4>3, <4>5 DEF N
    <3> QED BY <2>1, <3>5, <3>6
  <2>2. CASE pc = "strict"
    <3>1. a = 0 /\ b \in Nat /\ DrawnBits = b
      BY <2>2 DEF SamplersIInv, DrawnBits
    <3>2. Samples(DrawnBits) = 0 .. TwoTo[b] - 1
      BY <3>1, SamplesFacts
    <3>3. \A m : Accepts(m) <=> BitLength(m) = b
      BY <2>2 DEF Accepts
    <3>4. Wanted = {m \in 0 .. TwoTo[b] - 1 : BitLength(m) = b}
      BY <2>2 DEF Wanted
    <3> DEFINE N == {m \in Samples(DrawnBits) : Accepts(m)}
    <3>5. N = Wanted
      BY <3>2, <3>3, <3>4
    <3>6. \A m \in N : m \in Nat
      BY <3>1, <3>2, TwoToFacts
    <3> HIDE DEF N
    <3>7. \A m \in N : a + m = m
      BY <3>1, <3>6
    <3>8. {a + m : m \in N} = N
      BY <3>7
    <3> QED BY <3>5, <3>8 DEF N
  <2> QED BY <2>1, <2>2 DEF Sampling
<1> QED BY <1>1, <1>2, SamplersInductive, PTL DEF Spec

-----------------------------------------------------------------------------
(* Bytes. *)

LEMMA QuotientUnique ==
  ASSUME NEW N \in Nat \ {0}, NEW q \in Int, NEW r \in 0 .. N - 1
  PROVE  (q * N + r) \div N = q
<1> DEFINE x == q * N + r
           d == x \div N
           s == x % N
<1>1. x \in Int /\ d \in Int /\ x = N * d + s
  OBVIOUS
<1>2. s = r
  BY ModUnique
<1>3. q * N = N * q
  OBVIOUS
<1>4. N * d = N * q
  <2> HIDE DEF d, s
  <2> QED BY <1>1, <1>2, <1>3
<1> HIDE DEF d
<1> QED BY <1>1, <1>4

\* Dividing twice.
LEMMA DividedTwice ==
  ASSUME NEW x \in Nat, NEW P \in Nat \ {0}, NEW B \in Nat \ {0}
  PROVE  /\ x \div P \in Nat
         /\ x \div P = (x \div (P * B)) * B + ((x \div P) % B)
<1> DEFINE y == x \div P
           r == x % P
           z == y \div B
           t == y % B
           Q == P * B
           u == P * t + r
<1>1. y \in Int /\ r \in 0 .. P - 1 /\ x = P * y + r
  OBVIOUS
<1>2. y \in Nat
  <2> HIDE DEF y, r
  <2> SUFFICES ASSUME y <= -1 PROVE FALSE
    BY <1>1
  <2>1. P * y <= -P
    BY <1>1
  <2> QED BY <1>1, <2>1
<1> HIDE DEF y, r
<1>3. z \in Int /\ t \in 0 .. B - 1 /\ y = B * z + t
  BY <1>2
<1> HIDE DEF z, t
<1>4. P * y = P * (B * z) + P * t
  BY <1>1, <1>3
<1>5. P * (B * z) = z * Q /\ Q \in Nat \ {0}
  BY <1>3
<1>6. u \in 0 .. Q - 1
  <2>1. P * t \in Nat /\ P * (t + 1) <= P * B /\ P * (t + 1) = P * t + P
    BY <1>3
  <2> QED BY <1>1, <1>5, <2>1
<1>7. x = z * Q + u
  BY <1>1, <1>3, <1>4, <1>5
<1> HIDE DEF u, Q
<1>8. x \div Q = z
  BY <1>3, <1>5, <1>6, <1>7, QuotientUnique
<1>9. y = z * B + t
  BY <1>3
<1> QED BY <1>2, <1>8, <1>9 DEF y, t, Q

LEMMA BaseToFacts ==
  /\ Base \in Nat \ {0} /\ BaseTo(0) = 1
  /\ \A k \in Nat : BaseTo(k) \in Nat \ {0} /\ BaseTo(k + 1) = BaseTo(k) * Base
<1>1. Base = TwoTo[ByteBits] /\ ByteBits \in Nat
  BY BigIntAssumption, ByteAssumption
<1>2. \A n \in Nat : TwoTo[n] \in Nat \ {0}
  BY TwoToFacts
<1>3. BaseTo(0) = 1
  BY <1>1, TwoToFacts DEF BaseTo
<1>4. ASSUME NEW k \in Nat PROVE BaseTo(k) \in Nat \ {0} /\ BaseTo(k + 1) = BaseTo(k) * Base
  <2> DEFINE w == k * ByteBits
  <2>1. w \in Nat /\ (k + 1) * ByteBits = w + ByteBits
    BY <1>1
  <2> HIDE DEF w
  <2>2. TwoTo[w + ByteBits] = TwoTo[w] * TwoTo[ByteBits]
    BY <1>1, <2>1, TwoToPlus
  <2> QED BY <1>1, <1>2, <2>1, <2>2 DEF BaseTo, w
<1> QED BY <1>1, <1>2, <1>3, <1>4

\* The bytes of a number are as many as it needs.
LEMMA ByteLengthFacts ==
  ASSUME NEW n \in Int
  PROVE  /\ ByteLength(n) \in Nat \ {0}
         /\ \A l \in Nat \ {0} : Abs(n) < BaseTo(l) <=> ByteLength(n) <= l
<1>1. CASE n = 0
  <2>1. ByteLength(n) = 1 /\ Abs(n) = 0
    BY <1>1 DEF ByteLength, Abs
  <2>2. \A l \in Nat \ {0} : 0 < BaseTo(l)
    BY BaseToFacts
  <2> QED BY <2>1, <2>2
<1>2. CASE n # 0
  <2> DEFINE m == Abs(n)
             c == BitLength(n)
             L == BytesFor(c)
             t == TwoTo
             B == ByteBits
  <2>1. m \in Nat \ {0} /\ BitLength(m) = c
    <3>1. m \in Nat \ {0} /\ Abs(m) = m /\ m # 0
      BY <1>2 DEF Abs
    <3> QED BY <1>2, <3>1 DEF BitLength
  <2> HIDE DEF m, c
  <2>2. c \in Nat \ {0} /\ t[c - 1] <= m /\ m < t[c]
    BY <2>1, LengthFacts
  <2>3. /\ L \in Nat /\ L > 0
        /\ \A l \in Nat : c <= l * B => L <= l
        /\ c <= L * B
    BY <2>2, BytesForFacts
  <2>4. ByteLength(n) = L
    BY <1>2 DEF ByteLength, c
  <2>5. /\ \A i \in Nat : t[i] \in Nat
        /\ \A i \in Nat : \A j \in 0 .. i - 1 : t[j] < t[i]
    BY TwoToFacts
  <2> HIDE DEF L, t
  <2>6. ASSUME NEW l \in Nat \ {0} PROVE m < BaseTo(l) <=> L <= l
    <3> DEFINE w == l * B
    <3>1. w \in Nat /\ BaseTo(l) = t[w]
      BY BigIntAssumption, ByteAssumption DEF BaseTo, t
    <3>2. ASSUME L <= l PROVE m < t[w]
      <4>1. L * B <= l * B /\ L * B \in Nat
        BY <2>3, <3>2, BigIntAssumption, ByteAssumption
      <4>2. c <= w
        BY <2>2, <2>3, <3>1, <4>1
      <4> HIDE DEF w
      <4>3. c = w \/ c \in 0 .. w - 1
        BY <2>2, <3>1, <4>2
      <4>4. t[c] <= t[w] /\ t[c] \in Nat /\ t[w] \in Nat
        BY <2>2, <2>5, <3>1, <4>3
      <4> QED BY <2>1, <2>2, <4>4
    <3>3. ASSUME m < t[w] PROVE L <= l
      <4> SUFFICES c <= w
        BY <2>3
      <4> HIDE DEF w
      <4> SUFFICES ASSUME w < c PROVE FALSE
        BY <2>2, <3>1
      <4> DEFINE e == c - 1
      <4>1. e \in Nat /\ (w = e \/ w \in 0 .. e - 1)
        BY <2>2, <3>1
      <4>2. t[e] <= m
        BY <2>2
      <4> HIDE DEF e
      <4>3. t[w] <= t[e] /\ t[w] \in Nat /\ t[e] \in Nat
        BY <2>5, <3>1, <4>1
      <4> QED BY <2>1, <3>3, <4>2, <4>3
    <3> QED BY <3>1, <3>2, <3>3
  <2> QED BY <2>3, <2>4, <2>6 DEF m
<1> QED BY <1>1, <1>2

\* The loop of from_bytes.
ByteTurns(bytes) == [i \in DOMAIN bytes |-> [v \in Nat |-> v * Base + bytes[i]]]

\* k digits of x are read as x, leading zeros or not.
DigitsOf(s, x, k) == /\ DOMAIN s = 1 .. k /\ Len(s) = k
                     /\ \A i \in 1 .. k : s[i] = (x \div BaseTo(k - i)) % Base

LEMMA DigitsRead ==
  ASSUME NEW x \in Nat, NEW k \in Nat, NEW s, DigitsOf(s, x, k), x < BaseTo(k)
  PROVE  FromBytes(s) = x
<1> DEFINE turn == ByteTurns(s)
           R == Iterate(0, turn)
           T == {i \in Nat : i <= k => R[i] = x \div BaseTo(k - i)}
<1>1. Follows(R, 0, turn)
  BY IterateDef
<1>2. FromBytes(s) = R[k]
  BY DEF FromBytes, ByteTurns, DigitsOf
<1>3. ASSUME NEW i \in 1 .. k, NEW v \in Nat PROVE turn[i][v] = v * Base + s[i]
  BY <1>3 DEF ByteTurns, DigitsOf
<1> HIDE DEF turn, R
<1>4. 0 \in T
  <2> DEFINE P == BaseTo(k)
  <2>1. k - 0 = k /\ P \in Nat \ {0} /\ x < P
    BY BaseToFacts
  <2> HIDE DEF P
  <2> DEFINE o == 0
  <2>2. o \in Int /\ x \in 0 .. P - 1 /\ o * P + x = x
    BY <2>1
  <2> HIDE DEF o
  <2>3. (o * P + x) \div P = o
    BY <2>1, <2>2, QuotientUnique
  <2>4. x \div P = 0
    BY <2>2, <2>3 DEF o
  <2>5. R[0] = 0
    BY <1>1 DEF Follows
  <2> QED BY <2>1, <2>4, <2>5 DEF P
<1>5. ASSUME NEW i \in T PROVE i + 1 \in T
  <2> SUFFICES ASSUME i + 1 <= k PROVE R[i + 1] = x \div BaseTo(k - (i + 1))
    OBVIOUS
  <2> DEFINE m == i + 1
             j == k - m
             P == BaseTo(j)
             v == x \div BaseTo(k - i)
  <2>1. m \in 1 .. k /\ j \in Nat /\ k - i = j + 1 /\ i \in Nat /\ i <= k
    OBVIOUS
  <2>2. R[i] = v /\ R[m] = turn[m][R[i]]
    <3>1. R[m] = turn[m][R[i]]
      BY <1>1 DEF Follows
    <3> QED BY <2>1, <3>1
  <2>3. s[m] = (x \div P) % Base
    BY <2>1 DEF DigitsOf
  <2> HIDE DEF m, j
  <2>4. P \in Nat \ {0} /\ Base \in Nat \ {0} /\ BaseTo(k - i) = P * Base /\ P * Base \in Nat \ {0}
    BY <2>1, BaseToFacts
  <2> HIDE DEF P
  <2>5. v \in Nat
    <3> DEFINE Q == P * Base
    <3>1. v = x \div Q /\ Q \in Nat \ {0}
      BY <2>4
    <3> HIDE DEF Q
    <3> QED BY <2>4, <3>1, DividedTwice
  <2>6. x \div P = v * Base + ((x \div P) % Base)
    <3>1. v = x \div (P * Base)
      BY <2>4
    <3>2. x \div P = (x \div (P * Base)) * Base + ((x \div P) % Base)
      BY <2>4, DividedTwice
    <3> HIDE DEF v
    <3> QED BY <3>1, <3>2, Zenon
  <2> HIDE DEF v
  <2>7. R[m] = v * Base + s[m]
    BY <1>3, <2>1, <2>2, <2>5
  <2>8. R[m] = x \div P
    BY <2>3, <2>6, <2>7
  <2> QED BY <2>8 DEF m, j, P
<1>6. T = Nat
  <2>1. T \in SUBSET Nat /\ \A i \in T : i + 1 \in T
    BY <1>5
  <2> HIDE DEF T
  <2> QED BY <1>4, <2>1, NatSetInduction
<1>7. R[k] = x \div BaseTo(0)
  <2>1. k \in T /\ k - k = 0
    BY <1>6
  <2> QED BY <2>1
<1>8. x \div BaseTo(0) = x
  BY BaseToFacts
<1> QED BY <1>2, <1>7, <1>8

\* The digits of a number are bytes of it, in a sequence.
LEMMA DigitsSequence ==
  ASSUME NEW k \in Nat, NEW s, s \in [1 .. k -> Int]
  PROVE  s \in Seq(Int) /\ Len(s) = k /\ DOMAIN s = 1 .. k
<1>1. s \in Seq(Int)
  OBVIOUS
<1> QED BY <1>1

LEMMA ToBytesDigits ==
  ASSUME NEW n \in Int
  PROVE  /\ ToBytes(n) \in Seq(Int) /\ Len(ToBytes(n)) = ByteLength(n)
         /\ DigitsOf(ToBytes(n), Abs(n), ByteLength(n))
<1> DEFINE L == ByteLength(n)
           m == Abs(n)
           s == ToBytes(n)
<1>1. L \in Nat \ {0} /\ m \in Nat
  BY ByteLengthFacts, AbsFacts
<1>2. s = [i \in 1 .. L |-> (m \div BaseTo(L - i)) % Base]
  BY DEF ToBytes
<1> HIDE DEF L, m, s
<1>3. ASSUME NEW i \in 1 .. L PROVE (m \div BaseTo(L - i)) % Base \in Int
  <2> DEFINE P == BaseTo(L - i)
  <2>1. P \in Nat \ {0} /\ Base \in Nat \ {0}
    <3>1. L - i \in Nat
      BY <1>1
    <3> QED BY <3>1, BaseToFacts
  <2> HIDE DEF P
  <2>2. m \div P \in Int
    BY <1>1, <2>1
  <2> QED BY <2>1, <2>2 DEF P
<1>4. s \in [1 .. L -> Int] /\ \A i \in 1 .. L : s[i] = (m \div BaseTo(L - i)) % Base
  BY <1>2, <1>3
<1>5. s \in Seq(Int) /\ Len(s) = L /\ DOMAIN s = 1 .. L
  BY <1>1, <1>4, DigitsSequence
<1>6. DigitsOf(s, m, L)
  BY <1>4, <1>5 DEF DigitsOf
<1> QED BY <1>5, <1>6 DEF s, m, L

\* Leading zeros are digits too.
LEMMA PaddedDigits ==
  ASSUME NEW n \in Int, NEW l \in Nat \ {0}, ByteLength(n) <= l
  PROVE  DigitsOf(ToBytesArray(n, l), Abs(n), l)
<1> DEFINE L == ByteLength(n)
           m == Abs(n)
           s == ToBytes(n)
           z == [i \in 1 .. (l - L) |-> 0]
           t == z \o s
<1>1. L \in Nat \ {0} /\ m \in Nat /\ L <= l
  BY ByteLengthFacts, AbsFacts
<1>2. s \in Seq(Int) /\ Len(s) = L /\ DigitsOf(s, m, L)
  BY ToBytesDigits
<1>3. ToBytesArray(n, l) = t
  <2>1. ~ (Len(s) > l)
    BY <1>1, <1>2
  <2> QED BY <1>2, <2>1 DEF ToBytesArray
<1>4. m < BaseTo(L)
  BY <1>1, ByteLengthFacts
<1>5. \A i \in Nat \ {0} : m < BaseTo(i) <=> L <= i
  BY ByteLengthFacts
<1> HIDE DEF L, m, s
<1>6. z \in Seq(Int) /\ Len(z) = l - L
  <2> DEFINE k == l - L
  <2>1. k \in Nat
    BY <1>1
  <2> HIDE DEF k
  <2>2. z \in [1 .. k -> Int]
    BY DEF k
  <2>3. z \in Seq(Int) /\ Len(z) = k
    <3> HIDE DEF z
    <3> QED BY <2>1, <2>2, DigitsSequence
  <2> QED BY <2>3 DEF k
<1>7. \A i \in 1 .. (l - L) : z[i] = 0
  OBVIOUS
<1> HIDE DEF z
<1>8. /\ t \in Seq(Int) /\ Len(t) = l
      /\ \A i \in 1 .. l : t[i] = IF i <= l - L THEN z[i] ELSE s[i - (l - L)]
  BY <1>1, <1>2, <1>6
<1> HIDE DEF t
<1>9. ASSUME NEW i \in 1 .. l PROVE t[i] = (m \div BaseTo(l - i)) % Base
  <2>1. CASE i <= l - L
    <3> DEFINE j == l - i
               P == BaseTo(j)
               o == 0
    <3>1. j \in Nat \ {0} /\ L <= j
      BY <1>1, <2>1
    <3>2. m < P /\ P \in Nat \ {0} /\ Base \in Nat \ {0} /\ o \in Int
      BY <1>5, <3>1, BaseToFacts
    <3> HIDE DEF P, j
    <3>3. m \in 0 .. P - 1 /\ o * P + m = m
      BY <1>1, <3>2
    <3> HIDE DEF o
    <3>4. m \div P = o
      <4>1. (o * P + m) \div P = o
        BY <3>2, <3>3, QuotientUnique
      <4> QED BY <3>3, <4>1
    <3>5. o % Base = 0
      BY <3>2, ModSmall DEF o
    <3>6. t[i] = 0
      BY <1>7, <1>8, <2>1, <1>1
    <3> QED BY <3>4, <3>5, <3>6 DEF P, j
  <2>2. CASE i > l - L
    <3> DEFINE j == i - (l - L)
    <3>1. j \in 1 .. L /\ L - j = l - i
      BY <1>1, <2>2
    <3>2. t[i] = s[j]
      BY <1>1, <1>8, <2>2
    <3>3. s[j] = (m \div BaseTo(L - j)) % Base
      <4> HIDE DEF j
      <4> QED BY <1>2, <3>1 DEF DigitsOf
    <3> HIDE DEF j
    <3> QED BY <3>1, <3>2, <3>3
  <2> QED BY <1>1, <2>1, <2>2
<1>10. DigitsOf(t, m, l)
  <2>1. DOMAIN t = 1 .. l
    BY <1>8
  <2> QED BY <1>8, <1>9, <2>1 DEF DigitsOf
<1> QED BY <1>3, <1>10 DEF m

\* Two digits of a byte keep it.
LEMMA HexKeeps ==
  ASSUME NEW n \in Int
  PROVE  /\ Len(HexDigits(ToBytes(n))) = 2 * ByteLength(n)
         /\ HexBytes(HexDigits(ToBytes(n))) = ToBytes(n)
<1> DEFINE L == ByteLength(n)
           s == ToBytes(n)
           K == 2 * L
           H == HexBase
           d == HexDigits(s)
           h == HexBytes(d)
<1>1. L \in Nat /\ s \in Seq(Int) /\ Len(s) = L /\ DOMAIN s = 1 .. L
  BY ByteLengthFacts, ToBytesDigits DEF DigitsOf
<1>2. H \in Nat \ {0}
  <2>1. ByteBits \div 2 \in Nat
    BY BigIntAssumption, ByteAssumption
  <2> QED BY <2>1, TwoToFacts DEF HexBase
<1>3. d = [i \in 1 .. K |-> IF i % 2 = 1 THEN s[(i + 1) \div 2] \div H ELSE s[i \div 2] % H]
  BY <1>1 DEF HexDigits
<1>4. h = [i \in 1 .. (Len(d) \div 2) |-> d[2 * i - 1] * H + d[2 * i]]
  BY DEF HexBytes
<1>5. K \in Nat /\ K \div 2 = L
  BY <1>1
<1> HIDE DEF L, s, H, d, h, K
<1>6. ASSUME NEW i \in 1 .. L
      PROVE  /\ s[i] \in Int
             /\ 2 * i - 1 \in 1 .. K /\ 2 * i \in 1 .. K
             /\ (2 * i - 1) % 2 = 1 /\ (2 * i) % 2 = 0
             /\ ((2 * i - 1) + 1) \div 2 = i /\ (2 * i) \div 2 = i
  BY <1>1 DEF K
<1>7. \A i \in 1 .. L : d[2 * i - 1] = s[i] \div H /\ d[2 * i] = s[i] % H
  <2> TAKE i \in 1 .. L
  <2>1. d[2 * i - 1] = s[((2 * i - 1) + 1) \div 2] \div H
    <3> DEFINE j == 2 * i - 1
    <3>1. j \in 1 .. K /\ j % 2 = 1
      BY <1>6
    <3> HIDE DEF j
    <3>2. d[j] = s[(j + 1) \div 2] \div H
      BY <1>3, <3>1
    <3> QED BY <3>2 DEF j
  <2>2. d[2 * i] = s[(2 * i) \div 2] % H
    <3> DEFINE j == 2 * i
    <3>1. j \in 1 .. K /\ ~ (j % 2 = 1)
      BY <1>6
    <3> HIDE DEF j
    <3>2. d[j] = s[j \div 2] % H
      BY <1>3, <3>1
    <3> QED BY <3>2 DEF j
  <2> QED BY <1>6, <2>1, <2>2
<1>8. Len(d) = K
  <2>1. ASSUME NEW j \in 1 .. K PROVE d[j] \in Int
    <3>1. PICK i \in 1 .. L : j = 2 * i - 1 \/ j = 2 * i
      <4>1. CASE j % 2 = 1
        <5>1. (j + 1) \div 2 \in 1 .. L /\ j = 2 * ((j + 1) \div 2) - 1
          BY <1>1, <4>1 DEF K
        <5> QED BY <5>1
      <4>2. CASE j % 2 = 0
        <5>1. j \div 2 \in 1 .. L /\ j = 2 * (j \div 2)
          BY <1>1, <4>2 DEF K
        <5> QED BY <5>1
      <4> QED BY <4>1, <4>2
    <3>2. s[i] \div H \in Int /\ s[i] % H \in Int
      BY <1>2, <1>6
    <3> QED BY <1>7, <3>1, <3>2
  <2>2. d \in [1 .. K -> Int]
    BY <1>3, <2>1
  <2> QED BY <1>5, <2>2, DigitsSequence
<1>9. h = [i \in 1 .. L |-> s[i]]
  <2>1. \A i \in 1 .. L : d[2 * i - 1] * H + d[2 * i] = s[i]
    <3> TAKE i \in 1 .. L
    <3> DEFINE x == s[i]
    <3>1. x \in Int
      BY <1>6
    <3> HIDE DEF x
    <3>2. (x \div H) * H + (x % H) = x
      BY <1>2, <3>1
    <3> QED BY <1>7, <3>2 DEF x
  <2>2. Len(d) \div 2 = L
    BY <1>5, <1>8
  <2>3. h = [i \in 1 .. L |-> d[2 * i - 1] * H + d[2 * i]]
    BY <1>4, <2>2
  <2> QED BY <2>1, <2>3
<1>10. h = s
  BY <1>1, <1>9
<1> QED BY <1>8, <1>10 DEF h, d, s, K, L

\* The bytes of a number are read as its magnitude.
LEMMA BytesRead == \A n \in Int : FromBytes(ToBytes(n)) = Abs(n)
<1> SUFFICES ASSUME NEW n \in Int PROVE FromBytes(ToBytes(n)) = Abs(n)
  OBVIOUS
<1> DEFINE L == ByteLength(n)
<1>1. L \in Nat \ {0} /\ Abs(n) \in Nat
  BY ByteLengthFacts, AbsFacts
<1>2. Len(ToBytes(n)) = L /\ DigitsOf(ToBytes(n), Abs(n), L)
  BY ToBytesDigits
<1>3. \A l \in Nat \ {0} : Abs(n) < BaseTo(l) <=> L <= l
  BY ByteLengthFacts
<1> HIDE DEF L
<1>4. Abs(n) < BaseTo(L)
  BY <1>1, <1>3
<1> QED BY <1>1, <1>2, <1>4, DigitsRead

\* For every two integers, of either sign, and every positive modulus, the modular
\* operations give the one residue below it; and a number comes back as its
\* absolute value from its bytes, an array it fits in, of any length, and either
\* form of serde, for every size of a byte (big_native.rs:54-62, 152-182,
\* serde_support.rs:9-69).
THEOREM NumbersCorrect == Spec => []NumbersAgree
<1>1. BytesKeepTheMagnitude
  <2> SUFFICES ASSUME NEW n \in Int
               PROVE  /\ \A l \in Nat \ {0} : LET array == ToBytesArray(n, l)
                                              IN  IF Abs(n) < BaseTo(l)
                                                    THEN Len(array) = l /\ FromBytes(array) = Abs(n)
                                                    ELSE array = None
                      /\ \A readable \in BOOLEAN : Deserialized(Serialized(n, readable), readable) = Abs(n)
    BY BigIntAssumption, ByteAssumption DEF BytesKeepTheMagnitude
  <2> DEFINE L == ByteLength(n)
  <2>1. L \in Nat \ {0} /\ Abs(n) \in Nat
    BY ByteLengthFacts, AbsFacts
  <2>2. Len(ToBytes(n)) = L /\ DigitsOf(ToBytes(n), Abs(n), L)
    BY ToBytesDigits
  <2>3. \A l \in Nat \ {0} : Abs(n) < BaseTo(l) <=> L <= l
    BY ByteLengthFacts
  <2> HIDE DEF L
  <2>4. FromBytes(ToBytes(n)) = Abs(n)
    BY BytesRead
  <2>5. ASSUME NEW l \in Nat \ {0}, Abs(n) < BaseTo(l)
        PROVE  Len(ToBytesArray(n, l)) = l /\ FromBytes(ToBytesArray(n, l)) = Abs(n)
    <3>1. DigitsOf(ToBytesArray(n, l), Abs(n), l)
      BY <2>3, <2>5, PaddedDigits DEF L
    <3>2. FromBytes(ToBytesArray(n, l)) = Abs(n)
      BY <2>1, <2>5, <3>1, DigitsRead
    <3> QED BY <3>1, <3>2 DEF DigitsOf
  <2>6. ASSUME NEW l \in Nat \ {0}, ~ (Abs(n) < BaseTo(l))
        PROVE  ToBytesArray(n, l) = None
    <3>1. Len(ToBytes(n)) > l
      BY <2>1, <2>2, <2>3, <2>6
    <3> QED BY <3>1 DEF ToBytesArray
  <2>7. Deserialized(Serialized(n, FALSE), FALSE) = Abs(n)
    BY <2>4 DEF Serialized, Deserialized
  <2>8. Deserialized(Serialized(n, TRUE), TRUE) = Abs(n)
    <3> DEFINE d == HexDigits(ToBytes(n))
    <3>1. Len(d) = 2 * L /\ HexBytes(d) = ToBytes(n)
      BY HexKeeps DEF L
    <3>2. Serialized(n, TRUE) = d
      BY DEF Serialized
    <3> HIDE DEF d
    <3>3. Len(d) % 2 # 1
      BY <2>1, <3>1
    <3>4. Deserialized(d, TRUE) = FromBytes(HexBytes(d))
      BY <3>3 DEF Deserialized
    <3> QED BY <2>4, <3>1, <3>2, <3>4
  <2> QED BY <2>5, <2>6, <2>7, <2>8
<1>2. Spec => []ResiduesAgree
  BY SignedResidues
<1> QED BY <1>1, <1>2, PTL DEF NumbersAgree

-----------------------------------------------------------------------------
(* The plane of the points. *)

Plane == Scalar \X Scalar

LEMMA PlaneFacts ==
  /\ \A p \in Plane : p[1] \in Scalar /\ p[2] \in Scalar /\ p[1] \in Int /\ p[2] \in Int
  /\ \A p, q \in Plane : p[1] = q[1] /\ p[2] = q[2] => p = q
  /\ G \in Plane /\ H2 \in Plane
<1>1. 0 \in Scalar /\ 1 \in Scalar
  BY OrderFacts DEF Scalar
<1> QED BY <1>1, OrderFacts DEF Plane, G, H2

\* Scalars reduced by the operations, and what that leaves of the laws of a ring.
Laws(c, d, j, k) ==
  /\ (c * (k % Order)) % Order = (c * k) % Order
  /\ (c * (j + k)) % Order = (((c * j) % Order) + ((c * k) % Order)) % Order
  /\ (((c * j) % Order) * k) % Order = (c * (j * k)) % Order
  /\ (((c + d) % Order) * k) % Order = (((c * k) % Order) + ((d * k) % Order)) % Order

LEMMA ScalarLaws ==
  ASSUME NEW c \in Int, NEW d \in Int, NEW j \in Int, NEW k \in Int
  PROVE  Laws(c, d, j, k)
<1> DEFINE cj == c * j
           ck == c * k
           dk == d * k
           jk == j * k
           r  == k % Order
           s  == c + d
<1>1. cj \in Int /\ ck \in Int /\ dk \in Int /\ jk \in Int /\ r \in Int /\ s \in Int
  BY OrderFacts, ModRange
<1>2. c * (j + k) = cj + ck /\ cj * k = c * jk /\ s * k = ck + dk
  OBVIOUS
<1>3. r * c = c * r /\ k * c = ck
  <2> HIDE DEF r
  <2> QED BY <1>1
<1>4. (r * c) % Order = (k * c) % Order
  BY OrderFacts, ModTimes
<1> HIDE DEF cj, ck, dk, jk, r, s
<1>5. ((cj % Order) + (ck % Order)) % Order = (cj + ck) % Order
  BY <1>1, OrderFacts, ModSum
<1>6. ((cj % Order) * k) % Order = (cj * k) % Order
  BY <1>1, OrderFacts, ModTimes
<1>7. ((s % Order) * k) % Order = (s * k) % Order
  BY <1>1, OrderFacts, ModTimes
<1>8. ((ck % Order) + (dk % Order)) % Order = (ck + dk) % Order
  BY <1>1, OrderFacts, ModSum
<1>9. /\ (c * r) % Order = ck % Order
      /\ (c * (j + k)) % Order = ((cj % Order) + (ck % Order)) % Order
      /\ ((cj % Order) * k) % Order = (c * jk) % Order
      /\ ((s % Order) * k) % Order = ((ck % Order) + (dk % Order)) % Order
  BY <1>2, <1>3, <1>4, <1>5, <1>6, <1>7, <1>8
<1> QED BY <1>9 DEF cj, ck, dk, jk, r, s, Laws

Sums(c, d, e) == (((c + d) % Order) + e) % Order = (c + ((d + e) % Order)) % Order

LEMMA ScalarSums ==
  ASSUME NEW c \in Int, NEW d \in Int, NEW e \in Int
  PROVE  Sums(c, d, e)
<1> DEFINE s == c + d
           t == d + e
           r == t % Order
<1>1. s \in Int /\ t \in Int /\ r \in Int
  BY OrderFacts, ModRange
<1>2. ((s % Order) + e) % Order = (s + e) % Order
  BY <1>1, OrderFacts, ModPlus
<1>3. ((t % Order) + c) % Order = (t + c) % Order
  BY <1>1, OrderFacts, ModPlus
<1>4. s + e = t + c
  OBVIOUS
<1> HIDE DEF s, t
<1>5. r + c = c + r
  BY <1>1
<1> QED BY <1>2, <1>3, <1>4, <1>5 DEF s, t, Sums

LEMMA PlaneTypes ==
  ASSUME NEW p \in Plane, NEW q \in Plane, NEW k \in Int
  PROVE  Add(p, q) \in Plane /\ Mul(p, k) \in Plane /\ Neg(p) \in Plane
<1>1. ASSUME NEW i \in {1, 2}, NEW n \in Int PROVE (p[i] + q[i]) % Order \in Scalar /\ (p[i] * n) % Order \in Scalar
  <2>1. p[i] \in Int /\ q[i] \in Int
    BY PlaneFacts
  <2>2. p[i] + q[i] \in Int /\ p[i] * n \in Int
    BY <2>1
  <2> QED BY <2>2, OrderFacts
<1>2. -1 \in Int
  OBVIOUS
<1> QED BY <1>1, <1>2 DEF Add, Mul, Neg, Plane

\* The points are a module over the integers.
LEMMA MulLaws ==
  ASSUME NEW p \in Plane, NEW q \in Plane, NEW j \in Int, NEW k \in Int
  PROVE  /\ Mul(p, k % Order) = Mul(p, k)
         /\ Mul(p, j + k) = Add(Mul(p, j), Mul(p, k))
         /\ Mul(Mul(p, j), k) = Mul(p, j * k)
         /\ Mul(Add(p, q), k) = Add(Mul(p, k), Mul(q, k))
         /\ Mul(p, 1) = p
<1>1. p[1] \in Int /\ p[2] \in Int /\ q[1] \in Int /\ q[2] \in Int
  BY PlaneFacts
<1>2. Laws(p[1], q[1], j, k) /\ Laws(p[2], q[2], j, k)
  BY <1>1, ScalarLaws
<1>3. Mul(p, k % Order) = Mul(p, k) /\ Mul(p, j + k) = Add(Mul(p, j), Mul(p, k))
  BY <1>2, Zenon DEF Mul, Add, Laws
<1>4. Mul(Mul(p, j), k) = Mul(p, j * k)
  BY <1>2, Zenon DEF Mul, Laws
<1>5. Mul(Add(p, q), k) = Add(Mul(p, k), Mul(q, k))
  BY <1>2, Zenon DEF Mul, Add, Laws
<1>6. Mul(p, 1) = p
  <2>1. p[1] * 1 = p[1] /\ p[2] * 1 = p[2] /\ p = <<p[1], p[2]>>
    BY <1>1 DEF Plane
  <2> QED BY <2>1, PlaneFacts, OrderFacts DEF Mul
<1> QED BY <1>3, <1>4, <1>5, <1>6

LEMMA MulTwice ==
  ASSUME NEW p \in Plane, NEW j \in Int, NEW k \in Int
  PROVE  Mul(Mul(p, j), k) = Mul(p, j * k)
BY MulLaws, ZenonT(60)

LEMMA MulSums ==
  ASSUME NEW p \in Plane, NEW j \in Int, NEW k \in Int
  PROVE  Mul(p, j + k) = Add(Mul(p, j), Mul(p, k))
BY MulLaws, ZenonT(60)

LEMMA AddLaws ==
  ASSUME NEW p \in Plane, NEW q \in Plane, NEW r \in Plane
  PROVE  Add(p, q) = Add(q, p) /\ Add(Add(p, q), r) = Add(p, Add(q, r))
<1>1. /\ p[1] \in Int /\ p[2] \in Int /\ q[1] \in Int /\ q[2] \in Int
      /\ r[1] \in Int /\ r[2] \in Int
  BY PlaneFacts
<1>2. p[1] + q[1] = q[1] + p[1] /\ p[2] + q[2] = q[2] + p[2]
  BY <1>1
<1>3. Add(p, q) = Add(q, p)
  BY <1>2 DEF Add
<1>4. Add(Add(p, q), r) = Add(p, Add(q, r))
  <2>1. Sums(p[1], q[1], r[1]) /\ Sums(p[2], q[2], r[2])
    BY <1>1, ScalarSums
  <2> QED BY <2>1, Zenon DEF Add, Sums
<1> QED BY <1>3, <1>4

\* Zero, and taking a point off again.
LEMMA ZeroLaws ==
  ASSUME NEW p \in Plane, NEW q \in Plane
  PROVE  /\ Mul(q, 0) = <<0, 0>> /\ <<0, 0>> \in Plane
         /\ Add(p, <<0, 0>>) = p
         /\ Add(Add(p, q), Neg(q)) = p /\ Add(Add(p, Neg(q)), q) = p
<1> DEFINE zero == <<0, 0>>
<1>1. p[1] \in Scalar /\ p[2] \in Scalar /\ q[1] \in Int /\ q[2] \in Int /\ p = <<p[1], p[2]>>
  BY PlaneFacts DEF Plane
<1>2. 0 \in Scalar /\ 0 % Order = 0
  BY OrderFacts DEF Scalar
<1>3. Mul(q, 0) = zero
  <2>1. q[1] * 0 = 0 /\ q[2] * 0 = 0
    BY <1>1
  <2> QED BY <1>2, <2>1 DEF Mul
<1>4. zero \in Plane
  BY <1>2 DEF Plane
<1>5. Add(p, zero) = p
  <2>1. p[1] + 0 = p[1] /\ p[2] + 0 = p[2] /\ p[1] % Order = p[1] /\ p[2] % Order = p[2]
    BY <1>1, OrderFacts
  <2> QED BY <1>1, <2>1 DEF Add
<1>6. -1 \in Int /\ 1 + (-1) = 0 /\ (-1) + 1 = 0 /\ 1 \in Int
  OBVIOUS
<1>7. Add(q, Neg(q)) = zero /\ Add(Neg(q), q) = zero
  <2>1. Mul(q, 1 + (-1)) = Add(Mul(q, 1), Mul(q, -1))
    BY <1>6, MulLaws
  <2>2. Mul(q, (-1) + 1) = Add(Mul(q, -1), Mul(q, 1))
    BY <1>6, MulLaws
  <2>3. Mul(q, 1) = q
    BY <1>6, MulLaws
  <2> QED BY <1>3, <1>6, <2>1, <2>2, <2>3 DEF Neg
<1> HIDE DEF zero
<1>8. Neg(q) \in Plane
  BY <1>6, PlaneTypes
<1>9. Add(Add(p, q), Neg(q)) = p /\ Add(Add(p, Neg(q)), q) = p
  BY <1>5, <1>7, <1>8, AddLaws
<1>10. zero = <<0, 0>>
  BY DEF zero
<1> QED BY <1>3, <1>4, <1>5, <1>9, <1>10

LEMMA AddSwap ==
  ASSUME NEW p \in Plane, NEW q \in Plane, NEW r \in Plane, NEW s \in Plane
  PROVE  Add(Add(p, q), Add(r, s)) = Add(Add(p, r), Add(q, s))
<1>1. Add(q, r) = Add(r, q) /\ Add(r, s) \in Plane /\ Add(q, s) \in Plane
  BY AddLaws, PlaneTypes, 0 \in Int
<1>2. Add(Add(p, q), Add(r, s)) = Add(p, Add(q, Add(r, s)))
  BY <1>1, AddLaws
<1>3. Add(q, Add(r, s)) = Add(Add(q, r), s)
  BY AddLaws
<1>4. Add(Add(r, q), s) = Add(r, Add(q, s))
  BY AddLaws
<1>5. Add(p, Add(r, Add(q, s))) = Add(Add(p, r), Add(q, s))
  BY <1>1, AddLaws
<1> QED BY <1>1, <1>2, <1>3, <1>4, <1>5

-----------------------------------------------------------------------------
(* What the responses do to a point. *)

\* A point's multiple by a combination of scalars.
LEMMA MulCombined ==
  ASSUME NEW p \in Plane, NEW x \in Int, NEW j \in Int, NEW y \in Int, NEW k \in Int
  PROVE  Mul(p, (x * j + y * k) % Order) = Add(Mul(Mul(p, x), j), Mul(Mul(p, y), k))
<1> DEFINE u == x * j
           v == y * k
<1>1. u \in Int /\ v \in Int
  OBVIOUS
<1>2. Mul(Mul(p, x), j) = Mul(p, u) /\ Mul(Mul(p, y), k) = Mul(p, v)
  <2>1. Mul(Mul(p, x), j) = Mul(p, x * j)
    BY MulTwice
  <2>2. Mul(Mul(p, y), k) = Mul(p, y * k)
    BY MulTwice
  <2> QED BY <2>1, <2>2
<1> HIDE DEF u, v
<1> DEFINE s == u + v
<1>3. Mul(p, s) = Add(Mul(p, u), Mul(p, v)) /\ s \in Int
  BY <1>1, MulLaws
<1> HIDE DEF s
<1>4. Mul(p, s % Order) = Mul(p, s)
  BY <1>3, MulLaws
<1> QED BY <1>2, <1>3, <1>4 DEF s, u, v

\* Opposite multiples of a point cancel.
LEMMA MulCancels ==
  ASSUME NEW p \in Plane, NEW q \in Plane, NEW k \in Int
  PROVE  /\ Add(Mul(p, k), Mul(p, 0 - k)) = <<0, 0>>
         /\ Add(Add(q, Mul(p, 0 - k)), Mul(p, k)) = q
<1> DEFINE m == 0 - k
<1>1. m \in Int /\ k + m = 0
  OBVIOUS
<1> HIDE DEF m
<1>2. Mul(p, k + m) = Add(Mul(p, k), Mul(p, m)) /\ Mul(p, k) \in Plane /\ Mul(p, m) \in Plane
  BY <1>1, MulSums, PlaneTypes
<1>3. Mul(p, 0) = <<0, 0>> /\ Add(q, <<0, 0>>) = q
  BY ZeroLaws
<1>4. Add(Mul(p, m), Mul(p, k)) = Add(Mul(p, k), Mul(p, m))
  BY <1>2, AddLaws
<1>5. Add(Add(q, Mul(p, m)), Mul(p, k)) = Add(q, Add(Mul(p, m), Mul(p, k)))
  BY <1>2, AddLaws
<1> QED BY <1>1, <1>2, <1>3, <1>4, <1>5 DEF m

\* The sum of two points and its multiple.
LEMMA MulPairs ==
  ASSUME NEW p1 \in Plane, NEW q1 \in Plane, NEW p2 \in Plane, NEW q2 \in Plane, NEW j \in Int, NEW k \in Int
  PROVE  Add(Add(Mul(p1, j), Mul(p2, k)), Add(Mul(q1, j), Mul(q2, k))) =
           Add(Mul(Add(p1, q1), j), Mul(Add(p2, q2), k))
<1>1. Mul(p1, j) \in Plane /\ Mul(q1, j) \in Plane /\ Mul(p2, k) \in Plane /\ Mul(q2, k) \in Plane
  BY PlaneTypes
<1>2. Mul(Add(p1, q1), j) = Add(Mul(p1, j), Mul(q1, j)) /\ Mul(Add(p2, q2), k) = Add(Mul(p2, k), Mul(q2, k))
  BY MulLaws
<1> QED BY <1>1, <1>2, AddSwap

\* Two answers to one commitment.
LEMMA Extraction ==
  ASSUME NEW p1 \in Plane, NEW p2 \in Plane, NEW x \in Plane,
         NEW e1 \in Scalar, NEW e2 \in Scalar, e1 # e2, NEW c, c = Invert((e2 - e1) % Order),
         Add(p1, Mul(x, e1)) = Add(p2, Mul(x, e2))
  PROVE  c \in Int /\ c \in Scalar /\ x = Add(Mul(p1, c), Mul(p2, 0 - c))
<1> DEFINE n1 == e1 * c
           n2 == e2 * c
           m  == 0 - c
           m1 == 0 - n1
           d  == n2 + m1
           zero == <<0, 0>>
<1>1. c \in Scalar /\ ((e2 - e1) * c) % Order = 1
  BY InvertFacts
<1>2. c \in Int /\ e1 \in Int /\ e2 \in Int
  BY <1>1, ScalarsAreInts
<1>3. n1 \in Int /\ n2 \in Int /\ m \in Int /\ m1 \in Int /\ d \in Int
  BY <1>2
<1>4. d = (e2 - e1) * c
  BY <1>2
<1>5. d % Order = 1
  BY <1>1, <1>4
<1>6. /\ Mul(p1, c) \in Plane /\ Mul(p2, c) \in Plane /\ Mul(p2, m) \in Plane
      /\ Mul(x, e1) \in Plane /\ Mul(x, e2) \in Plane
  BY <1>2, <1>3, PlaneTypes
<1>7. Mul(x, n1) \in Plane /\ Mul(x, n2) \in Plane /\ Mul(x, m1) \in Plane
  <2> HIDE DEF n1, n2, m1
  <2> QED BY <1>3, PlaneTypes
<1>8. Mul(Add(p1, Mul(x, e1)), c) = Add(Mul(p1, c), Mul(x, n1))
  BY <1>2, <1>6, MulLaws
<1>9. Mul(Add(p2, Mul(x, e2)), c) = Add(Mul(p2, c), Mul(x, n2))
  BY <1>2, <1>6, MulLaws
<1>10. Add(Mul(p1, c), Mul(x, n1)) = Add(Mul(p2, c), Mul(x, n2))
  BY <1>8, <1>9
<1>11. Add(Mul(p2, c), Mul(p2, m)) = zero
  BY <1>2, MulCancels
<1> HIDE DEF n1, n2, m
<1>12. Add(Mul(x, n1), Mul(x, m1)) = zero
  BY <1>3, MulCancels
<1> HIDE DEF m1
<1>13. Add(Mul(x, n2), Mul(x, m1)) = x
  <2>1. Mul(x, d) = Add(Mul(x, n2), Mul(x, m1))
    BY <1>3, MulLaws
  <2> HIDE DEF d
  <2>2. Mul(x, d) = Mul(x, d % Order) /\ Mul(x, 1) = x
    BY <1>3, MulLaws, 1 \in Int
  <2> QED BY <1>5, <2>1, <2>2
<1> HIDE DEF zero
<1>14. zero \in Plane /\ \A q \in Plane : Add(q, zero) = q /\ Add(zero, q) = q
  <2>1. zero \in Plane /\ \A q \in Plane : Add(q, zero) = q
    BY ZeroLaws DEF zero
  <2> QED BY <2>1, AddLaws
<1> DEFINE s == Add(Mul(p2, m), Mul(x, m1))
<1>15. Add(Add(Mul(p1, c), Mul(x, n1)), s) = Add(Add(Mul(p1, c), Mul(p2, m)), zero)
  BY <1>6, <1>7, <1>12, AddSwap
<1>16. Add(Add(Mul(p2, c), Mul(x, n2)), s) = Add(zero, x)
  BY <1>6, <1>7, <1>11, <1>13, AddSwap
<1>17. Add(Mul(p1, c), Mul(p2, m)) \in Plane
  BY <1>6, PlaneTypes, 1 \in Int
<1> HIDE DEF s
<1>18. Add(Mul(p1, c), Mul(p2, m)) = x
  BY <1>10, <1>14, <1>15, <1>16, <1>17
<1> QED BY <1>1, <1>2, <1>18 DEF m

\* The same where the answers stand alone and the commitment is what is added to.
LEMMA ExtractionTurned ==
  ASSUME NEW p1 \in Plane, NEW p2 \in Plane, NEW x \in Plane, NEW q \in Plane,
         NEW e1 \in Scalar, NEW e2 \in Scalar, e1 # e2, NEW c, c = Invert((e1 - e2) % Order),
         p1 = Add(q, Mul(x, e1)), p2 = Add(q, Mul(x, e2))
  PROVE  c \in Int /\ c \in Scalar /\ x = Add(Mul(p1, c), Mul(p2, 0 - c))
<1>1. e1 \in Int /\ e2 \in Int
  BY ScalarsAreInts
<1>2. Mul(x, e1) \in Plane /\ Mul(x, e2) \in Plane
  BY <1>1, PlaneTypes
<1>3. Add(p1, Mul(x, e2)) = Add(q, Add(Mul(x, e1), Mul(x, e2)))
  BY <1>2, AddLaws
<1>4. Add(p2, Mul(x, e1)) = Add(q, Add(Mul(x, e2), Mul(x, e1)))
  BY <1>2, AddLaws
<1>5. Add(p1, Mul(x, e2)) = Add(p2, Mul(x, e1))
  BY <1>2, <1>3, <1>4, AddLaws
<1> QED BY <1>5, Extraction

\* What n responses are, and what two vectors of them give.
Responses(n) == [1 .. n -> Scalar]

LEMMA ResponsesFacts ==
  ASSUME NEW n \in Nat \ {0}, NEW z \in Responses(n)
  PROVE  /\ z \in Seq(Scalar) /\ Len(z) = n /\ z # <<>>
         /\ \A i \in 1 .. n : z[i] \in Scalar /\ z[i] \in Int /\ Coefficient(z, i) = z[i]
<1>1. z \in Seq(Scalar) /\ DOMAIN z = 1 .. n
  BY DEF Responses
<1>2. Len(z) = n
  BY <1>1
<1>3. z # <<>>
  BY <1>2
<1>4. ASSUME NEW i \in 1 .. n PROVE z[i] \in Scalar /\ z[i] \in Int /\ Coefficient(z, i) = z[i]
  <2>1. z[i] \in Scalar
    BY DEF Responses
  <2>2. Coefficient(z, i) = z[i]
    BY <1>1 DEF Coefficient
  <2> QED BY <2>1, <2>2, ScalarsAreInts
<1> QED BY <1>1, <1>2, <1>3, <1>4

Difference(y, z, c) == Times(Minus(y, z), c)

LEMMA DifferenceFacts ==
  ASSUME NEW n \in Nat \ {0}, NEW y \in Responses(n), NEW z \in Responses(n), NEW c \in Int,
         NEW i \in 1 .. n, NEW p \in Plane
  PROVE  Mul(p, Difference(y, z, c)[i]) = Add(Mul(Mul(p, y[i]), c), Mul(Mul(p, z[i]), 0 - c))
<1> DEFINE d == Minus(y, z)
           r == Difference(y, z, c)
           k == 0 - c
<1>1. /\ y \in Seq(Scalar) /\ z \in Seq(Scalar) /\ Len(y) = n /\ i \in Nat /\ k \in Int
      /\ y[i] \in Int /\ z[i] \in Int /\ Coefficient(y, i) = y[i] /\ Coefficient(z, i) = z[i]
  BY ResponsesFacts
<1>2. d \in Seq(Scalar) /\ Len(d) >= n /\ Len(d) \in Nat
  BY <1>1, MinusFacts
<1>3. r = Times(d, c)
  BY DEF Difference
<1>4. CombinedTerms(r, c, y, k, z)
  BY <1>1, ExtractedCombined DEF Difference
<1> HIDE DEF d, r, k
<1>5. r \in Seq(Scalar) /\ Len(r) = Len(d)
  BY <1>2, <1>3, TimesFacts
<1>6. i \in 1 .. Len(r)
  BY <1>1, <1>2, <1>5
<1>7. r[i] \in Scalar /\ Coefficient(r, i) = r[i]
  <2>1. i \in DOMAIN r
    BY <1>5, <1>6
  <2> QED BY <1>5, <2>1 DEF Coefficient
<1>8. Combined(Order, r[i], c, y[i], k, z[i])
  BY <1>1, <1>4, <1>7 DEF CombinedTerms
<1>9. r[i] % Order = r[i]
  BY <1>7, OrderFacts
<1>10. r[i] = (y[i] * c + z[i] * k) % Order
  BY <1>8, <1>9 DEF Combined, Same
<1>11. Mul(p, (y[i] * c + z[i] * k) % Order) = Add(Mul(Mul(p, y[i]), c), Mul(Mul(p, z[i]), k))
  <2> DEFINE u == y[i]
             v == z[i]
  <2>1. u \in Int /\ v \in Int
    BY <1>1
  <2> HIDE DEF u, v
  <2>2. Mul(p, (u * c + v * k) % Order) = Add(Mul(Mul(p, u), c), Mul(Mul(p, v), k))
    BY <1>1, <2>1, MulCombined
  <2> QED BY <2>2 DEF u, v
<1> QED BY <1>10, <1>11 DEF r, k

\* An equation with one response.
LEMMA OneResponse ==
  ASSUME NEW n \in Nat \ {0}, NEW y \in Responses(n), NEW z \in Responses(n), NEW i \in 1 .. n,
         NEW p \in Plane, NEW x \in Plane, NEW q \in Plane,
         NEW e1 \in Scalar, NEW e2 \in Scalar, e1 # e2,
         Mul(p, y[i]) = Add(q, Mul(x, e1)), Mul(p, z[i]) = Add(q, Mul(x, e2))
  PROVE  x = Mul(p, Difference(y, z, Invert((e1 - e2) % Order))[i])
<1> DEFINE c  == Invert((e1 - e2) % Order)
           p1 == Mul(p, y[i])
           p2 == Mul(p, z[i])
<1>1. y[i] \in Int /\ z[i] \in Int
  BY ResponsesFacts
<1>2. p1 \in Plane /\ p2 \in Plane
  BY <1>1, PlaneTypes
<1>3. p1 = Add(q, Mul(x, e1)) /\ p2 = Add(q, Mul(x, e2))
  OBVIOUS
<1> HIDE DEF p1, p2
<1>4. c \in Int /\ x = Add(Mul(p1, c), Mul(p2, 0 - c))
  BY <1>2, <1>3, ExtractionTurned
<1> HIDE DEF c
<1>5. Mul(p, Difference(y, z, c)[i]) = Add(Mul(p1, c), Mul(p2, 0 - c))
  BY <1>4, DifferenceFacts DEF p1, p2
<1> QED BY <1>4, <1>5 DEF c

\* An equation with two.
LEMMA TwoResponses ==
  ASSUME NEW y \in Responses(2), NEW z \in Responses(2),
         NEW p \in Plane, NEW r \in Plane, NEW x \in Plane, NEW q \in Plane,
         NEW e1 \in Scalar, NEW e2 \in Scalar, e1 # e2,
         Add(Mul(p, y[1]), Mul(r, y[2])) = Add(q, Mul(x, e1)),
         Add(Mul(p, z[1]), Mul(r, z[2])) = Add(q, Mul(x, e2))
  PROVE  x = Add(Mul(p, Difference(y, z, Invert((e1 - e2) % Order))[1]),
                 Mul(r, Difference(y, z, Invert((e1 - e2) % Order))[2]))
<1> DEFINE c  == Invert((e1 - e2) % Order)
           k  == 0 - c
           y1 == Mul(p, y[1])
           y2 == Mul(r, y[2])
           z1 == Mul(p, z[1])
           z2 == Mul(r, z[2])
           p1 == Add(y1, y2)
           p2 == Add(z1, z2)
           d  == Difference(y, z, c)
<1>1. y[1] \in Int /\ z[1] \in Int /\ y[2] \in Int /\ z[2] \in Int
  BY ResponsesFacts
<1>2. y1 \in Plane /\ y2 \in Plane /\ z1 \in Plane /\ z2 \in Plane
  BY <1>1, PlaneTypes
<1>3. p1 = Add(q, Mul(x, e1)) /\ p2 = Add(q, Mul(x, e2))
  OBVIOUS
<1> HIDE DEF y1, y2, z1, z2
<1>4. p1 \in Plane /\ p2 \in Plane
  BY <1>2, PlaneTypes, 1 \in Int
<1>5. c \in Int /\ x = Add(Mul(p1, c), Mul(p2, k))
  <2> HIDE DEF p1, p2
  <2> QED BY <1>3, <1>4, ExtractionTurned
<1> HIDE DEF c
<1>6. Mul(p, d[1]) = Add(Mul(y1, c), Mul(z1, k))
  BY <1>5, DifferenceFacts DEF y1, z1
<1>7. Mul(r, d[2]) = Add(Mul(y2, c), Mul(z2, k))
  BY <1>5, DifferenceFacts DEF y2, z2
<1>8. k \in Int
  BY <1>5
<1> HIDE DEF k, d
<1>9. Add(Add(Mul(y1, c), Mul(z1, k)), Add(Mul(y2, c), Mul(z2, k))) = Add(Mul(p1, c), Mul(p2, k))
  BY <1>2, <1>5, <1>8, MulPairs
<1> QED BY <1>5, <1>6, <1>7, <1>9 DEF c, d

\* The responses of the prover.
LEMMA AddedFacts ==
  ASSUME NEW n \in Nat \ {0}, NEW w \in Responses(n), NEW s \in Responses(n), NEW e \in Scalar
  PROVE  /\ Added(w, s, e) \in Responses(n)
         /\ \A i \in 1 .. n, p \in Plane :
              Mul(p, Added(w, s, e)[i]) = Add(Mul(p, s[i]), Mul(Mul(p, w[i]), e))
<1>1. DOMAIN s = 1 .. n /\ e \in Int
  BY ScalarsAreInts DEF Responses
<1>2. ASSUME NEW i \in 1 .. n PROVE s[i] \in Int /\ w[i] \in Int /\ s[i] + e * w[i] \in Int
  <2>1. s[i] \in Int /\ w[i] \in Int
    BY ResponsesFacts
  <2> QED BY <1>1, <2>1
<1>3. \A i \in 1 .. n : (s[i] + e * w[i]) % Order \in Scalar
  BY <1>2, OrderFacts
<1>4. Added(w, s, e) = [i \in 1 .. n |-> (s[i] + e * w[i]) % Order]
  BY <1>1 DEF Added
<1>5. Added(w, s, e) \in Responses(n)
  BY <1>3, <1>4 DEF Responses
<1>6. ASSUME NEW i \in 1 .. n, NEW p \in Plane
      PROVE  Mul(p, Added(w, s, e)[i]) = Add(Mul(p, s[i]), Mul(Mul(p, w[i]), e))
  <2> DEFINE u == s[i]
             v == w[i]
  <2>1. u \in Int /\ v \in Int /\ Added(w, s, e)[i] = (u + e * v) % Order
    BY <1>2, <1>4
  <2> HIDE DEF u, v
  <2>2. u + e * v = u * 1 + v * e
    BY <1>1, <2>1
  <2>3. Mul(p, (u * 1 + v * e) % Order) = Add(Mul(Mul(p, u), 1), Mul(Mul(p, v), e))
    BY <1>1, <2>1, MulCombined
  <2>4. Mul(p, u) \in Plane
    BY <2>1, PlaneTypes
  <2>5. Mul(Mul(p, u), 1) = Mul(p, u)
    BY <2>4, MulLaws, 1 \in Int
  <2> QED BY <2>1, <2>2, <2>3, <2>5 DEF u, v
<1> QED BY <1>5, <1>6

LEMMA TakenFacts ==
  ASSUME NEW n \in Nat \ {0}, NEW w \in Responses(n), NEW s \in Responses(n), NEW e \in Scalar
  PROVE  /\ Taken(w, s, e) \in Responses(n)
         /\ \A i \in 1 .. n, p \in Plane :
              Add(Mul(p, Taken(w, s, e)[i]), Mul(Mul(p, w[i]), e)) = Mul(p, s[i])
<1>1. DOMAIN s = 1 .. n /\ e \in Int /\ 0 - e \in Int
  BY ScalarsAreInts DEF Responses
<1>2. ASSUME NEW i \in 1 .. n PROVE s[i] \in Int /\ w[i] \in Int /\ s[i] - e * w[i] \in Int
  <2>1. s[i] \in Int /\ w[i] \in Int
    BY ResponsesFacts
  <2> QED BY <1>1, <2>1
<1>3. \A i \in 1 .. n : (s[i] - e * w[i]) % Order \in Scalar
  BY <1>2, OrderFacts
<1>4. Taken(w, s, e) = [i \in 1 .. n |-> (s[i] - e * w[i]) % Order]
  BY <1>1 DEF Taken
<1>5. Taken(w, s, e) \in Responses(n)
  BY <1>3, <1>4 DEF Responses
<1>6. ASSUME NEW i \in 1 .. n, NEW p \in Plane
      PROVE  Add(Mul(p, Taken(w, s, e)[i]), Mul(Mul(p, w[i]), e)) = Mul(p, s[i])
  <2> DEFINE u == s[i]
             v == w[i]
             k == 0 - e
  <2>1. u \in Int /\ v \in Int /\ k \in Int /\ Taken(w, s, e)[i] = (u - e * v) % Order
    BY <1>1, <1>2, <1>4
  <2> HIDE DEF u, v
  <2>2. u - e * v = u * 1 + v * k
    BY <1>1, <2>1
  <2> HIDE DEF k
  <2>3. Mul(p, (u * 1 + v * k) % Order) = Add(Mul(Mul(p, u), 1), Mul(Mul(p, v), k))
    BY <1>1, <2>1, MulCombined
  <2>4. Mul(p, u) \in Plane /\ Mul(p, v) \in Plane
    BY <2>1, PlaneTypes
  <2>5. Mul(Mul(p, u), 1) = Mul(p, u)
    BY <2>4, MulLaws, 1 \in Int
  <2>6. Add(Add(Mul(p, u), Mul(Mul(p, v), k)), Mul(Mul(p, v), e)) = Mul(p, u)
    BY <1>1, <2>4, MulCancels DEF k
  <2> QED BY <2>1, <2>2, <2>3, <2>5, <2>6 DEF u, v
<1> QED BY <1>5, <1>6

-----------------------------------------------------------------------------
(* The proofs about points: what a statement, its commitments and its responses *)
(* are, that the prover's verify, and what two of them give.                      *)

Points == {"dlog", "ddh", "pedersen", "blinding", "elgamal", "elgamal_dlog"}

Statements(k) ==
  CASE k = "dlog"         -> [pk : Plane]
    [] k = "ddh"          -> [g1 : Plane, h1 : Plane, g2 : Plane, h2 : Plane]
    [] k = "pedersen"     -> [com : Plane]
    [] k = "blinding"     -> [m : Scalar, com : Plane]
    [] k = "elgamal"      -> [g : Plane, h : Plane, y : Plane, d : Plane, e : Plane]
    [] k = "elgamal_dlog" -> [g : Plane, y : Plane, q : Plane, d : Plane, e : Plane]

Size(k) == IF k \in {"dlog", "ddh", "blinding"} THEN 1 ELSE 2

Turns(k) ==
  CASE k \in {"dlog", "blinding"}          -> 1
    [] k \in {"ddh", "pedersen", "elgamal"} -> 2
    [] k = "elgamal_dlog"                   -> 3

\* A proof that verifies for the statement of its witness.
Verifies(k, w, d, c, e, z) ==
  /\ d \in Statements(k) /\ c \in [1 .. Turns(k) -> Plane] /\ z \in Responses(Size(k))
  /\ Holds(k, d, w) /\ Satisfied(k, d, c, e, z)

LEMMA DLogVerifies ==
  ASSUME NEW w \in Responses(1), NEW s \in Responses(1), NEW e \in Scalar
  PROVE  Verifies("dlog", w, DLogStatement(w), DLogCommit(s), e, Taken(w, s, e))
<1> DEFINE d == DLogStatement(w)
           z == Taken(w, s, e)
<1>1. w[1] \in Int /\ s[1] \in Int
  BY ResponsesFacts
<1>2. Mul(G, w[1]) \in Plane /\ Mul(G, s[1]) \in Plane
  BY <1>1, PlaneFacts, PlaneTypes
<1>3. d \in Statements("dlog") /\ d.pk = Mul(G, w[1])
  BY <1>2 DEF DLogStatement, Statements
<1>4. DLogCommit(s) \in [1 .. 1 -> Plane] /\ DLogCommit(s)[1] = Mul(G, s[1])
  BY <1>2 DEF DLogCommit
<1>5. z \in Responses(1) /\ Add(Mul(G, z[1]), Mul(Mul(G, w[1]), e)) = Mul(G, s[1])
  BY PlaneFacts, TakenFacts
<1> HIDE DEF z, d
<1>6. DLogVerify(d, DLogCommit(s), e, z)
  BY <1>3, <1>4, <1>5 DEF DLogVerify
<1> QED BY <1>3, <1>4, <1>5, <1>6 DEF Verifies, Turns, Size, Holds, Satisfied, d, z

LEMMA DdhVerifies ==
  ASSUME NEW g1 \in Plane, NEW g2 \in Plane,
         NEW w \in Responses(1), NEW s \in Responses(1), NEW e \in Scalar
  PROVE  Verifies("ddh", w, DdhStatement(g1, g2, w), DdhCommit(DdhStatement(g1, g2, w), s), e, Added(w, s, e))
<1> DEFINE d == DdhStatement(g1, g2, w)
           c == DdhCommit(d, s)
           z == Added(w, s, e)
<1>1. w[1] \in Int /\ s[1] \in Int
  BY ResponsesFacts
<1>2. Mul(g1, w[1]) \in Plane /\ Mul(g1, s[1]) \in Plane /\ Mul(g2, w[1]) \in Plane /\ Mul(g2, s[1]) \in Plane
  BY <1>1, PlaneTypes
<1>3. /\ d \in Statements("ddh") /\ d.g1 = g1 /\ d.g2 = g2
      /\ d.h1 = Mul(g1, w[1]) /\ d.h2 = Mul(g2, w[1])
  BY <1>2 DEF DdhStatement, Statements
<1>4. c \in [1 .. 2 -> Plane] /\ c[1] = Mul(g1, s[1]) /\ c[2] = Mul(g2, s[1])
  BY <1>2, <1>3 DEF DdhCommit
<1>5. z \in Responses(1) /\ \A p \in Plane : Mul(p, z[1]) = Add(Mul(p, s[1]), Mul(Mul(p, w[1]), e))
  BY AddedFacts
<1>6. d = DdhStatement(d.g1, d.g2, w)
  BY <1>3
<1> HIDE DEF z, d, c
<1>7. DdhVerify(d, c, e, z)
  BY <1>3, <1>4, <1>5 DEF DdhVerify
<1> QED BY <1>3, <1>4, <1>5, <1>6, <1>7 DEF Verifies, Turns, Size, Holds, Satisfied, d, c, z

LEMMA PedersenVerifies ==
  ASSUME NEW w \in Responses(2), NEW s \in Responses(2), NEW e \in Scalar
  PROVE  Verifies("pedersen", w, PedersenStatement(w), PedersenCommit(s), e, Added(w, s, e))
<1> DEFINE d == PedersenStatement(w)
           c == PedersenCommit(s)
           z == Added(w, s, e)
           w1 == Mul(G, w[1])
           w2 == Mul(H2, w[2])
           s1 == Mul(G, s[1])
           s2 == Mul(H2, s[2])
<1>1. w[1] \in Int /\ s[1] \in Int /\ w[2] \in Int /\ s[2] \in Int /\ e \in Int
  BY ResponsesFacts, ScalarsAreInts
<1>2. w1 \in Plane /\ w2 \in Plane /\ s1 \in Plane /\ s2 \in Plane
  BY <1>1, PlaneFacts, PlaneTypes
<1>3. /\ z \in Responses(2) /\ Mul(G, z[1]) = Add(s1, Mul(w1, e)) /\ Mul(H2, z[2]) = Add(s2, Mul(w2, e))
  BY PlaneFacts, AddedFacts
<1> HIDE DEF w1, w2, s1, s2
<1>4. Add(w1, w2) \in Plane /\ Mul(w1, e) \in Plane /\ Mul(w2, e) \in Plane
  BY <1>1, <1>2, PlaneTypes
<1>5. d \in Statements("pedersen") /\ d.com = Add(w1, w2)
  BY <1>4 DEF PedersenStatement, Statements, Com, w1, w2
<1>6. c \in [1 .. 2 -> Plane] /\ c[1] = s1 /\ c[2] = s2
  BY <1>2 DEF PedersenCommit, s1, s2
<1> HIDE DEF z, d, c
<1>7. Mul(Add(w1, w2), e) = Add(Mul(w1, e), Mul(w2, e))
  BY <1>1, <1>2, MulLaws
<1>8. Add(Add(s1, Mul(w1, e)), Add(s2, Mul(w2, e))) = Add(Add(s1, s2), Add(Mul(w1, e), Mul(w2, e)))
  BY <1>2, <1>4, AddSwap
<1>9. PedersenVerify(d, c, e, z)
  BY <1>3, <1>5, <1>6, <1>7, <1>8 DEF PedersenVerify, Com
<1> QED BY <1>3, <1>5, <1>6, <1>9 DEF Verifies, Turns, Size, Holds, Satisfied, d, c, z

LEMMA BlindingVerifies ==
  ASSUME NEW m \in Scalar, NEW w \in Responses(1), NEW s \in Responses(1), NEW e \in Scalar
  PROVE  Verifies("blinding", w, BlindingStatement(m, w), BlindingCommit(s), e, Added(w, s, e))
<1> DEFINE d == BlindingStatement(m, w)
           c == BlindingCommit(s)
           z == Added(w, s, e)
           y == Mul(G, m)
           x == Mul(H2, w[1])
           t == Mul(H2, s[1])
<1>1. w[1] \in Int /\ s[1] \in Int /\ e \in Int /\ m \in Int
  BY ResponsesFacts, ScalarsAreInts
<1>2. x \in Plane /\ y \in Plane /\ t \in Plane
  BY <1>1, PlaneFacts, PlaneTypes
<1>3. z \in Responses(1) /\ Mul(H2, z[1]) = Add(t, Mul(x, e))
  BY PlaneFacts, AddedFacts
<1> HIDE DEF x, t, y
<1>4. Add(y, x) \in Plane /\ Mul(x, e) \in Plane /\ Mul(y, e) \in Plane
  BY <1>1, <1>2, PlaneTypes
<1>5. d \in Statements("blinding") /\ d.com = Add(y, x) /\ d.m = m
  BY <1>4 DEF BlindingStatement, Statements, Com, x, y
<1>6. c \in [1 .. 1 -> Plane] /\ c[1] = t
  BY <1>2 DEF BlindingCommit, t
<1>7. d = BlindingStatement(d.m, w)
  BY <1>5
<1> HIDE DEF z, d, c
<1>8. Mul(Add(y, x), e) = Add(Mul(y, e), Mul(x, e))
  BY <1>1, <1>2, MulLaws
<1>9. Add(Add(t, Mul(x, e)), Mul(y, e)) = Add(t, Add(Mul(x, e), Mul(y, e)))
  BY <1>2, <1>4, AddLaws
<1>10. Add(t, Add(Mul(x, e), Mul(y, e))) = Add(Add(Mul(y, e), Mul(x, e)), t)
  <2>1. Add(Mul(x, e), Mul(y, e)) = Add(Mul(y, e), Mul(x, e)) /\ Add(Mul(y, e), Mul(x, e)) \in Plane
    BY <1>4, AddLaws, PlaneTypes, 1 \in Int
  <2> QED BY <1>2, <2>1, AddLaws
<1>11. BlindingVerify(d, c, e, z)
  BY <1>3, <1>5, <1>6, <1>8, <1>9, <1>10 DEF BlindingVerify, y
<1> QED BY <1>3, <1>5, <1>6, <1>7, <1>11 DEF Verifies, Turns, Size, Holds, Satisfied, d, c, z

LEMMA ElGamalVerifies ==
  ASSUME NEW g \in Plane, NEW h \in Plane, NEW y \in Plane,
         NEW w \in Responses(2), NEW s \in Responses(2), NEW e \in Scalar
  PROVE  Verifies("elgamal", w, ElGamalStatement(g, h, y, w),
                  ElGamalCommit(ElGamalStatement(g, h, y, w), s), e, Added(w, s, e))
<1> DEFINE d == ElGamalStatement(g, h, y, w)
           c == ElGamalCommit(d, s)
           z == Added(w, s, e)
           w1 == Mul(h, w[1])
           w2 == Mul(y, w[2])
           s1 == Mul(h, s[1])
           s2 == Mul(y, s[2])
<1>1. w[1] \in Int /\ s[1] \in Int /\ w[2] \in Int /\ s[2] \in Int /\ e \in Int
  BY ResponsesFacts, ScalarsAreInts
<1>2. /\ w1 \in Plane /\ w2 \in Plane /\ s1 \in Plane /\ s2 \in Plane
      /\ Mul(g, w[2]) \in Plane /\ Mul(g, s[2]) \in Plane
  BY <1>1, PlaneTypes
<1>3. /\ z \in Responses(2) /\ Mul(h, z[1]) = Add(s1, Mul(w1, e)) /\ Mul(y, z[2]) = Add(s2, Mul(w2, e))
      /\ Mul(g, z[2]) = Add(Mul(g, s[2]), Mul(Mul(g, w[2]), e))
  BY AddedFacts
<1> HIDE DEF w1, w2, s1, s2
<1>4. Add(w1, w2) \in Plane /\ Add(s1, s2) \in Plane /\ Mul(w1, e) \in Plane /\ Mul(w2, e) \in Plane
  BY <1>1, <1>2, PlaneTypes
<1>5. /\ d \in Statements("elgamal") /\ d.g = g /\ d.h = h /\ d.y = y
      /\ d.d = Add(w1, w2) /\ d.e = Mul(g, w[2])
  BY <1>2, <1>4 DEF ElGamalStatement, Statements, w1, w2
<1>6. c \in [1 .. 2 -> Plane] /\ c[1] = Add(s1, s2) /\ c[2] = Mul(g, s[2])
  BY <1>2, <1>4, <1>5 DEF ElGamalCommit, s1, s2
<1>7. d = ElGamalStatement(d.g, d.h, d.y, w)
  BY <1>5
<1> HIDE DEF z, d, c
<1>8. Mul(Add(w1, w2), e) = Add(Mul(w1, e), Mul(w2, e))
  BY <1>1, <1>2, MulLaws
<1>9. Add(Add(s1, Mul(w1, e)), Add(s2, Mul(w2, e))) = Add(Add(s1, s2), Add(Mul(w1, e), Mul(w2, e)))
  BY <1>2, <1>4, AddSwap
<1>10. ElGamalVerify(d, c, e, z)
  BY <1>3, <1>5, <1>6, <1>8, <1>9 DEF ElGamalVerify
<1> QED BY <1>3, <1>5, <1>6, <1>7, <1>10 DEF Verifies, Turns, Size, Holds, Satisfied, d, c, z

LEMMA ElGamalDlogVerifies ==
  ASSUME NEW g \in Plane, NEW y \in Plane,
         NEW w \in Responses(2), NEW s \in Responses(2), NEW e \in Scalar
  PROVE  Verifies("elgamal_dlog", w, ElGamalDlogStatement(g, y, w),
                  ElGamalDlogCommit(ElGamalDlogStatement(g, y, w), s), e, Added(w, s, e))
<1> DEFINE d == ElGamalDlogStatement(g, y, w)
           c == ElGamalDlogCommit(d, s)
           z == Added(w, s, e)
           w1 == Mul(g, w[1])
           w2 == Mul(y, w[2])
<1>1. w[1] \in Int /\ s[1] \in Int /\ w[2] \in Int /\ s[2] \in Int /\ e \in Int
  BY ResponsesFacts, ScalarsAreInts
<1>2. /\ w1 \in Plane /\ w2 \in Plane /\ Mul(g, w[2]) \in Plane
      /\ Mul(g, s[1]) \in Plane /\ Mul(y, s[2]) \in Plane /\ Mul(g, s[2]) \in Plane
  BY <1>1, PlaneTypes
<1>3. /\ z \in Responses(2)
      /\ Mul(g, z[1]) = Add(Mul(g, s[1]), Mul(w1, e))
      /\ Mul(y, z[2]) = Add(Mul(y, s[2]), Mul(w2, e))
      /\ Mul(g, z[2]) = Add(Mul(g, s[2]), Mul(Mul(g, w[2]), e))
  BY AddedFacts
<1> HIDE DEF w1, w2
<1>4. Add(w1, w2) \in Plane /\ Neg(w1) \in Plane
  BY <1>2, PlaneTypes, 1 \in Int
<1>5. /\ d \in Statements("elgamal_dlog") /\ d.g = g /\ d.y = y /\ d.q = w1
      /\ d.d = Add(w1, w2) /\ d.e = Mul(g, w[2])
  BY <1>2, <1>4 DEF ElGamalDlogStatement, Statements, w1, w2
<1>6. c \in [1 .. 3 -> Plane] /\ c[1] = Mul(g, s[1]) /\ c[2] = Mul(y, s[2]) /\ c[3] = Mul(g, s[2])
  BY <1>2, <1>5 DEF ElGamalDlogCommit
<1>7. d = ElGamalDlogStatement(d.g, d.y, w)
  BY <1>5
<1> HIDE DEF z, d, c
<1>8. Add(Add(w1, w2), Neg(w1)) = w2
  <2>1. Add(w1, w2) = Add(w2, w1)
    BY <1>2, AddLaws
  <2> QED BY <1>2, <2>1, ZeroLaws
<1>9. ElGamalDlogVerify(d, c, e, z)
  BY <1>3, <1>5, <1>6, <1>8 DEF ElGamalDlogVerify
<1> QED BY <1>3, <1>5, <1>6, <1>7, <1>9 DEF Verifies, Turns, Size, Holds, Satisfied, d, c, z

\* Two challenges answered for the same commitments.
LEMMA PointsExtracted ==
  ASSUME NEW k \in Points, NEW d \in Statements(k), NEW c \in [1 .. Turns(k) -> Plane],
         NEW e1 \in Scalar, NEW e2 \in Scalar, e1 # e2,
         NEW z1 \in Responses(Size(k)), NEW z2 \in Responses(Size(k)),
         Satisfied(k, d, c, e1, z1), Satisfied(k, d, c, e2, z2)
  PROVE  Holds(k, d, Extracted(k, e1, z1, e2, z2))
<1> DEFINE f == Invert((e1 - e2) % Order)
           r == Difference(z1, z2, f)
<1>1. e1 \in Int /\ e2 \in Int
  BY ScalarsAreInts
<1>2. k # "dlog" => Extracted(k, e1, z1, e2, z2) = r
  BY DEF Points, Extracted, Difference
<1> HIDE DEF f, r
<1>3. CASE k = "dlog"
  <2> DEFINE g == Invert((e2 - e1) % Order)
             t == Difference(z1, z2, g)
             p1 == Mul(G, z1[1])
             p2 == Mul(G, z2[1])
             x == d.pk
  <2>1. Extracted(k, e1, z1, e2, z2) = t
    BY <1>3 DEF Extracted, Difference
  <2>2. z1 \in Responses(1) /\ z2 \in Responses(1) /\ x \in Plane /\ d = [pk |-> x]
    BY <1>3 DEF Size, Statements
  <2>3. Add(p1, Mul(x, e1)) = Add(p2, Mul(x, e2))
    BY <1>3 DEF Satisfied, DLogVerify
  <2>4. z1[1] \in Int /\ z2[1] \in Int
    BY <2>2, ResponsesFacts
  <2>5. p1 \in Plane /\ p2 \in Plane
    BY <2>4, PlaneFacts, PlaneTypes
  <2> HIDE DEF p1, p2, x
  <2>6. g \in Int /\ x = Add(Mul(p1, g), Mul(p2, 0 - g))
    BY <2>2, <2>3, <2>5, Extraction
  <2> HIDE DEF g
  <2>7. Mul(G, t[1]) = Add(Mul(p1, g), Mul(p2, 0 - g))
    BY <2>2, <2>6, PlaneFacts, DifferenceFacts DEF p1, p2
  <2> HIDE DEF t
  <2>8. d = DLogStatement(t)
    BY <2>2, <2>6, <2>7 DEF DLogStatement
  <2> QED BY <1>3, <2>1, <2>8 DEF Holds
<1>4. CASE k = "ddh"
  <2>0. c[1] \in Plane /\ c[2] \in Plane
    BY <1>4 DEF Turns
  <2>1. z1 \in Responses(1) /\ z2 \in Responses(1)
    BY <1>4 DEF Size
  <2>2. /\ d.g1 \in Plane /\ d.h1 \in Plane /\ d.g2 \in Plane /\ d.h2 \in Plane
        /\ d = [g1 |-> d.g1, h1 |-> d.h1, g2 |-> d.g2, h2 |-> d.h2]
    BY <1>4 DEF Statements
  <2>3. /\ Mul(d.g1, z1[1]) = Add(c[1], Mul(d.h1, e1)) /\ Mul(d.g2, z1[1]) = Add(c[2], Mul(d.h2, e1))
        /\ Mul(d.g1, z2[1]) = Add(c[1], Mul(d.h1, e2)) /\ Mul(d.g2, z2[1]) = Add(c[2], Mul(d.h2, e2))
    BY <1>4 DEF Satisfied, DdhVerify
  <2>4. d.h1 = Mul(d.g1, r[1]) /\ d.h2 = Mul(d.g2, r[1])
    BY <1>1, <2>0, <2>1, <2>2, <2>3, OneResponse DEF r, f
  <2>5. d = DdhStatement(d.g1, d.g2, r)
    BY <2>2, <2>4 DEF DdhStatement
  <2> QED BY <1>2, <1>4, <2>5 DEF Holds
<1>5. CASE k = "pedersen"
  <2> DEFINE q == Add(c[1], c[2])
  <2>0. c[1] \in Plane /\ c[2] \in Plane
    BY <1>5 DEF Turns
  <2>1. z1 \in Responses(2) /\ z2 \in Responses(2) /\ d.com \in Plane /\ d = [com |-> d.com]
    BY <1>5 DEF Size, Statements
  <2>2. /\ Add(Mul(G, z1[1]), Mul(H2, z1[2])) = Add(q, Mul(d.com, e1))
        /\ Add(Mul(G, z2[1]), Mul(H2, z2[2])) = Add(q, Mul(d.com, e2))
    BY <1>5 DEF Satisfied, PedersenVerify, Com
  <2>3. q \in Plane
    BY <1>1, <2>0, PlaneTypes, 1 \in Int
  <2> HIDE DEF q
  <2>4. d.com = Add(Mul(G, r[1]), Mul(H2, r[2]))
    BY <2>1, <2>2, <2>3, PlaneFacts, TwoResponses DEF r, f
  <2>5. d = PedersenStatement(r)
    BY <2>1, <2>4 DEF PedersenStatement, Com
  <2> QED BY <1>2, <1>5, <2>5 DEF Holds
<1>6. CASE k = "blinding"
  <2> DEFINE y == Mul(G, d.m)
             x == Add(d.com, Neg(y))
  <2>0. c[1] \in Plane
    BY <1>6 DEF Turns
  <2>1. /\ z1 \in Responses(1) /\ z2 \in Responses(1) /\ d.com \in Plane /\ d.m \in Scalar /\ d.m \in Int
        /\ d = [m |-> d.m, com |-> d.com]
    BY <1>6, ScalarsAreInts DEF Size, Statements
  <2>2. y \in Plane /\ Neg(y) \in Plane /\ x \in Plane
    BY <2>1, PlaneFacts, PlaneTypes
  <2>3. ASSUME NEW e \in Int, NEW n \in Int, Add(Mul(H2, n), Mul(y, e)) = Add(Mul(d.com, e), c[1])
        PROVE  Mul(H2, n) = Add(c[1], Mul(x, e))
    <3> DEFINE t == Mul(H2, n)
               v == Mul(y, e)
               u == Mul(d.com, e)
    <3>1. t \in Plane /\ v \in Plane /\ u \in Plane
      BY <2>1, <2>2, PlaneFacts, PlaneTypes
    <3>2. Neg(v) \in Plane /\ Add(Add(t, v), Neg(v)) = t
      BY <3>1, PlaneTypes, ZeroLaws, 1 \in Int
    <3>3. Mul(x, e) = Add(u, Mul(Neg(y), e))
      BY <2>1, <2>2, MulLaws
    <3>4. Mul(Neg(y), e) = Neg(v)
      <4> DEFINE o == -1
      <4>1. o \in Int /\ Neg(y) = Mul(y, o) /\ Neg(v) = Mul(v, o) /\ o * e = e * o
        BY DEF Neg
      <4> HIDE DEF o
      <4>2. Mul(Mul(y, o), e) = Mul(y, o * e) /\ Mul(Mul(y, e), o) = Mul(y, e * o)
        BY <2>2, <4>1, MulTwice
      <4> QED BY <4>1, <4>2
    <3>5. Add(t, v) = Add(u, c[1])
      BY <2>3
    <3> HIDE DEF t, u, v
    <3>6. Add(Add(u, c[1]), Neg(v)) = Add(c[1], Add(u, Neg(v)))
      BY <1>1, <2>0, <3>1, <3>2, AddLaws
    <3>7. t = Add(c[1], Mul(x, e))
      BY <3>2, <3>3, <3>4, <3>5, <3>6
    <3> QED BY <3>7 DEF t
  <2>4. z1[1] \in Int /\ z2[1] \in Int
    BY <2>1, ResponsesFacts
  <2>5. /\ Add(Mul(H2, z1[1]), Mul(y, e1)) = Add(Mul(d.com, e1), c[1])
        /\ Add(Mul(H2, z2[1]), Mul(y, e2)) = Add(Mul(d.com, e2), c[1])
    BY <1>6 DEF Satisfied, BlindingVerify
  <2>6. d.com = Add(x, y)
    BY <2>1, <2>2, ZeroLaws
  <2> HIDE DEF x
  <2>7. Mul(H2, z1[1]) = Add(c[1], Mul(x, e1)) /\ Mul(H2, z2[1]) = Add(c[1], Mul(x, e2))
    BY <1>1, <2>3, <2>4, <2>5
  <2>8. x = Mul(H2, r[1])
    <3>1. H2 \in Plane /\ 1 \in 1 .. 1 /\ 1 \in Nat \ {0}
      BY PlaneFacts
    <3> HIDE DEF y
    <3> QED BY <1>1, <2>0, <2>1, <2>2, <2>7, <3>1, OneResponse DEF r, f
  <2>9. Add(x, y) = Add(y, x)
    BY <2>2, AddLaws
  <2>10. d = BlindingStatement(d.m, r)
    BY <2>1, <2>6, <2>8, <2>9 DEF BlindingStatement, Com
  <2> QED BY <1>2, <1>6, <2>10 DEF Holds
<1>7. CASE k = "elgamal"
  <2>0. c[1] \in Plane /\ c[2] \in Plane
    BY <1>7 DEF Turns
  <2>1. z1 \in Responses(2) /\ z2 \in Responses(2)
    BY <1>7 DEF Size
  <2>2. /\ d.g \in Plane /\ d.h \in Plane /\ d.y \in Plane /\ d.d \in Plane /\ d.e \in Plane
        /\ d = [g |-> d.g, h |-> d.h, y |-> d.y, d |-> d.d, e |-> d.e]
    BY <1>7 DEF Statements
  <2>3. /\ Add(Mul(d.h, z1[1]), Mul(d.y, z1[2])) = Add(c[1], Mul(d.d, e1))
        /\ Add(Mul(d.h, z2[1]), Mul(d.y, z2[2])) = Add(c[1], Mul(d.d, e2))
        /\ Mul(d.g, z1[2]) = Add(c[2], Mul(d.e, e1)) /\ Mul(d.g, z2[2]) = Add(c[2], Mul(d.e, e2))
    BY <1>7 DEF Satisfied, ElGamalVerify
  <2>4. d.d = Add(Mul(d.h, r[1]), Mul(d.y, r[2]))
    <3> DEFINE h == d.h
               y == d.y
               x == d.d
    <3>1. /\ h \in Plane /\ y \in Plane /\ x \in Plane
          /\ Add(Mul(h, z1[1]), Mul(y, z1[2])) = Add(c[1], Mul(x, e1))
          /\ Add(Mul(h, z2[1]), Mul(y, z2[2])) = Add(c[1], Mul(x, e2))
      BY <2>2, <2>3
    <3> HIDE DEF h, y, x
    <3>2. x = Add(Mul(h, r[1]), Mul(y, r[2]))
      BY <1>1, <2>0, <2>1, <3>1, TwoResponses DEF r, f
    <3> QED BY <3>2 DEF h, y, x
  <2>5. d.e = Mul(d.g, r[2])
    <3> DEFINE g == d.g
               x == d.e
               a2 == c[2]
    <3>1. /\ g \in Plane /\ x \in Plane /\ a2 \in Plane /\ 2 \in 1 .. 2 /\ 2 \in Nat \ {0}
          /\ Mul(g, z1[2]) = Add(a2, Mul(x, e1)) /\ Mul(g, z2[2]) = Add(a2, Mul(x, e2))
      BY <2>0, <2>2, <2>3
    <3> HIDE DEF g, x, a2
    <3>2. x = Mul(g, r[2])
      BY <1>1, <2>1, <3>1, OneResponse DEF r, f
    <3> QED BY <3>2 DEF g, x
  <2>6. d = ElGamalStatement(d.g, d.h, d.y, r)
    BY <2>2, <2>4, <2>5 DEF ElGamalStatement
  <2> QED BY <1>2, <1>7, <2>6 DEF Holds
<1>8. CASE k = "elgamal_dlog"
  <2> DEFINE x == Add(d.d, Neg(d.q))
  <2>0. c[1] \in Plane /\ c[2] \in Plane /\ c[3] \in Plane
    BY <1>8 DEF Turns
  <2>1. z1 \in Responses(2) /\ z2 \in Responses(2)
    BY <1>8 DEF Size
  <2>2. /\ d.g \in Plane /\ d.q \in Plane /\ d.y \in Plane /\ d.d \in Plane /\ d.e \in Plane
        /\ d = [g |-> d.g, y |-> d.y, q |-> d.q, d |-> d.d, e |-> d.e]
    BY <1>8 DEF Statements
  <2>3. /\ Mul(d.g, z1[1]) = Add(c[1], Mul(d.q, e1)) /\ Mul(d.g, z2[1]) = Add(c[1], Mul(d.q, e2))
        /\ Mul(d.g, z1[2]) = Add(c[3], Mul(d.e, e1)) /\ Mul(d.g, z2[2]) = Add(c[3], Mul(d.e, e2))
        /\ Mul(d.y, z1[2]) = Add(c[2], Mul(x, e1)) /\ Mul(d.y, z2[2]) = Add(c[2], Mul(x, e2))
    BY <1>8 DEF Satisfied, ElGamalDlogVerify
  <2>4. Neg(d.q) \in Plane
    BY <2>2, PlaneTypes, 1 \in Int
  <2>5. x \in Plane /\ Add(x, d.q) = d.d
    BY <2>2, <2>4, PlaneTypes, ZeroLaws, 1 \in Int
  <2> HIDE DEF x
  <2>6. d.q = Mul(d.g, r[1]) /\ d.e = Mul(d.g, r[2]) /\ x = Mul(d.y, r[2])
    <3> DEFINE g == d.g
               y == d.y
               q == d.q
               u == d.e
    <3>1. /\ g \in Plane /\ q \in Plane /\ y \in Plane /\ u \in Plane
          /\ 1 \in 1 .. 2 /\ 2 \in 1 .. 2 /\ 2 \in Nat \ {0}
          /\ Mul(g, z1[1]) = Add(c[1], Mul(q, e1)) /\ Mul(g, z2[1]) = Add(c[1], Mul(q, e2))
          /\ Mul(g, z1[2]) = Add(c[3], Mul(u, e1)) /\ Mul(g, z2[2]) = Add(c[3], Mul(u, e2))
          /\ Mul(y, z1[2]) = Add(c[2], Mul(x, e1)) /\ Mul(y, z2[2]) = Add(c[2], Mul(x, e2))
      BY <2>2, <2>3
    <3> HIDE DEF g, y, q, u
    <3>2. q = Mul(g, r[1])
      BY <1>1, <2>0, <2>1, <3>1, OneResponse DEF r, f
    <3>3. u = Mul(g, r[2])
      BY <1>1, <2>0, <2>1, <3>1, OneResponse DEF r, f
    <3>4. x = Mul(y, r[2])
      BY <1>1, <2>0, <2>1, <2>5, <3>1, OneResponse DEF r, f
    <3> QED BY <3>2, <3>3, <3>4 DEF g, y, q, u
  <2>7. Add(x, d.q) = Add(d.q, x)
    BY <2>2, <2>5, AddLaws
  <2>8. d = ElGamalDlogStatement(d.g, d.y, r)
    BY <2>2, <2>5, <2>6, <2>7 DEF ElGamalDlogStatement
  <2> QED BY <1>2, <1>8, <2>8 DEF Holds
<1> QED BY <1>3, <1>4, <1>5, <1>6, <1>7, <1>8 DEF Points

-----------------------------------------------------------------------------
(* The proof about a polynomial. *)

LEMMA LargestMember ==
  ASSUME NEW m \in Nat, NEW S \in SUBSET (1 .. m), S # {}
  PROVE  \E i \in S : \A j \in S : j <= i
<1> DEFINE T == {n \in Nat : (\E i \in S : i <= n) => \E i \in S : i <= n /\ \A j \in S : j <= n => j <= i}
<1>1. \A i \in S : i \in Nat /\ i >= 1 /\ i <= m
  OBVIOUS
<1>2. 0 \in T
  BY <1>1
<1>3. ASSUME NEW n \in T PROVE n + 1 \in T
  <2>1. n \in Nat /\ \A j \in S : j <= n + 1 => j <= n \/ j = n + 1
    BY <1>1
  <2>2. CASE n + 1 \in S
    <3>1. n + 1 <= n + 1 /\ \A j \in S : j <= n + 1 => j <= n + 1
      BY <2>1
    <3>2. \E i \in S : i <= n + 1 /\ \A j \in S : j <= n + 1 => j <= i
      BY <2>2, <3>1
    <3> QED BY <2>1, <3>2
  <2>3. CASE n + 1 \notin S
    <3>1. \A j \in S : j <= n + 1 => j <= n
      BY <2>1, <2>3
    <3>2. \A j \in S : j <= n => j <= n + 1
      BY <1>1, <2>1
    <3>3. SUFFICES ASSUME \E i \in S : i <= n + 1
                   PROVE  \E i \in S : i <= n + 1 /\ \A j \in S : j <= n + 1 => j <= i
      BY <2>1
    <3>4. PICK i \in S : i <= n /\ \A j \in S : j <= n => j <= i
      BY <3>1, <3>3
    <3> QED BY <3>1, <3>2, <3>4
  <2> QED BY <2>2, <2>3
<1>4. T = Nat
  <2>1. T \in SUBSET Nat
    OBVIOUS
  <2> HIDE DEF T
  <2> QED BY <1>2, <1>3, <2>1, NatSetInduction
<1>5. m \in T
  BY <1>4
<1> QED BY <1>1, <1>5

\* No coefficient above the one of degree n.
Below(p, n) == \A i \in DOMAIN p : p[i] # 0 => i <= n + 1

LEMMA DegreeFacts ==
  ASSUME NEW p \in Seq(Scalar), NEW n \in Nat, n < Infinity
  PROVE  /\ Degree(p) <= n => p # <<>> /\ Below(p, n)
         /\ Below(p, n) => (Degree(p) <= n <=> Degree(p) # Infinity)
<1> DEFINE S == {i \in DOMAIN p : p[i] # 0}
           i0 == CHOOSE i \in S : \A j \in S : j <= i
<1>1. S \in SUBSET (1 .. Len(p)) /\ Len(p) \in Nat
  OBVIOUS
<1>2. CASE S = {}
  <2>1. Degree(p) = Infinity /\ Infinity \in Nat
    BY <1>2 DEF Degree, Infinity
  <2> QED BY <2>1
<1>3. CASE S # {}
  <2>1. Degree(p) = i0 - 1
    BY <1>3 DEF Degree
  <2>2. i0 \in S /\ \A j \in S : j <= i0
    <3>1. \E i \in S : \A j \in S : j <= i
      BY <1>1, <1>3, LargestMember
    <3> HIDE DEF S
    <3> QED BY <3>1
  <2> HIDE DEF i0
  <2>3. i0 \in Nat /\ i0 \in DOMAIN p /\ p[i0] # 0
    BY <1>1, <2>2
  <2>4. ASSUME i0 - 1 <= n PROVE p # <<>> /\ Below(p, n)
    <3>1. p # <<>>
      BY <2>3
    <3>2. \A i \in DOMAIN p : i \in Nat
      BY <1>1
    <3>3. \A i \in DOMAIN p : p[i] # 0 => i <= n + 1
      BY <2>2, <2>3, <2>4, <3>2
    <3> QED BY <3>1, <3>3 DEF Below
  <2>5. ASSUME Below(p, n) PROVE i0 - 1 <= n /\ i0 - 1 # Infinity
    <3>1. i0 <= n + 1
      BY <2>3, <2>5 DEF Below
    <3>2. Infinity \in Nat
      BY DEF Infinity
    <3> HIDE DEF Infinity
    <3> QED BY <2>3, <3>1, <3>2
  <2> QED BY <2>1, <2>4, <2>5
<1> QED BY <1>2, <1>3

\* A sum of multiples of two polynomials ends where they do.
LEMMA CombinedBelow ==
  ASSUME NEW r \in Seq(Scalar), NEW p \in Seq(Scalar), NEW q \in Seq(Scalar), NEW n \in Nat,
         NEW j \in Int, NEW k \in Int, CombinedTerms(r, j, p, k, q), Below(p, n), Below(q, n)
  PROVE  Below(r, n)
<1>1. ASSUME NEW i \in DOMAIN r, i > n + 1 PROVE r[i] = 0
  <2>1. i \in Nat /\ r[i] \in Scalar
    OBVIOUS
  <2>2. Coefficient(r, i) = r[i]
    BY DEF Coefficient
  <2>3. Coefficient(p, i) = 0 /\ Coefficient(q, i) = 0
    <3>1. i \in DOMAIN p => p[i] = 0
      BY <1>1, <2>1 DEF Below
    <3>2. i \in DOMAIN q => q[i] = 0
      BY <1>1, <2>1 DEF Below
    <3> QED BY <3>1, <3>2 DEF Coefficient
  <2>4. 0 * j + 0 * k = 0
    OBVIOUS
  <2>5. Same(Order, r[i], 0)
    BY <2>1, <2>2, <2>3, <2>4 DEF CombinedTerms, Combined
  <2>6. 0 \in Scalar
    BY OrderFacts DEF Scalar
  <2>7. 0 % Order = 0 /\ r[i] % Order = r[i]
    BY <2>1, <2>6, OrderFacts
  <2> QED BY <2>5, <2>7 DEF Same
<1>2. \A i \in DOMAIN r : i \in Nat
  OBVIOUS
<1>3. \A i \in DOMAIN r : r[i] # 0 => i <= n + 1
  BY <1>1, <1>2
<1> QED BY <1>3 DEF Below

\* The response's coefficients end where the prover's and the witness's do.
LEMMA ResponseBelow ==
  ASSUME NEW p \in Seq(Scalar), NEW q \in Seq(Scalar), NEW s \in Int, NEW n \in Nat,
         Below(p, n), Below(q, n)
  PROVE  Below(Minus(p, Times(q, s)), n)
<1> DEFINE d == Minus(p, Times(q, s))
           k == 0 - s
<1>1. d \in Seq(Scalar)
  BY TimesFacts, MinusFacts
<1>2. CombinedTerms(d, 1, p, k, q) /\ k \in Int
  BY ResponseCombined
<1> HIDE DEF d, k
<1>3. Below(d, n)
  BY <1>1, <1>2, CombinedBelow, 1 \in Int
<1> QED BY <1>3 DEF d

\* What LdeiStatement::new lets through, and the verifier's variations of it.
LdeiFits(d) ==
  /\ d = [alpha |-> d.alpha, g |-> d.g, x |-> d.x, d |-> d.d]
  /\ d.alpha \in Seq(Scalar) /\ d.g \in Seq(Plane) /\ Len(d.alpha) = Len(d.g)
  /\ d.x \in [DOMAIN d.g -> Plane] /\ d.d \in Nat /\ d.d < Infinity

Polynomial == Seq(Scalar) \ {<<>>}

LEMMA ValuesFacts ==
  ASSUME NEW g \in Seq(Plane), NEW alpha \in Seq(Scalar), Len(alpha) = Len(g), NEW w \in Polynomial
  PROVE  /\ Values(g, alpha, w) \in [DOMAIN g -> Plane]
         /\ \A i \in DOMAIN g : g[i] \in Plane /\ alpha[i] \in Scalar
<1>1. DOMAIN g = 1 .. Len(g) /\ DOMAIN alpha = 1 .. Len(g)
  OBVIOUS
<1>2. ASSUME NEW i \in DOMAIN g
      PROVE  g[i] \in Plane /\ alpha[i] \in Scalar /\ Mul(g[i], Evaluate(w, alpha[i])) \in Plane
  <2>1. g[i] \in Plane /\ alpha[i] \in Scalar
    BY <1>1
  <2>2. Evaluate(w, alpha[i]) \in Scalar
    BY <2>1, EvaluateSum DEF Polynomial
  <2>3. Evaluate(w, alpha[i]) \in Int
    BY <2>2, ScalarsAreInts
  <2> QED BY <2>1, <2>3, PlaneTypes
<1> QED BY <1>2 DEF Values

\* The multiple of a point by the value of a polynomial made of two others.
LEMMA MulEvaluated ==
  ASSUME NEW p \in Polynomial, NEW q \in Polynomial, NEW r \in Polynomial, NEW x \in Scalar,
         NEW j \in Int, NEW k \in Int, CombinedTerms(r, j, p, k, q), NEW g \in Plane
  PROVE  Mul(g, Evaluate(r, x)) = Add(Mul(Mul(g, Evaluate(p, x)), j), Mul(Mul(g, Evaluate(q, x)), k))
<1> DEFINE u == Evaluate(p, x)
           v == Evaluate(q, x)
<1>1. u \in Scalar /\ v \in Scalar
  BY EvaluateSum DEF Polynomial
<1>2. Evaluate(r, x) = (u * j + v * k) % Order
  BY EvaluateCombined DEF Polynomial
<1> HIDE DEF u, v
<1>3. u \in Int /\ v \in Int
  BY <1>1, ScalarsAreInts
<1>4. Mul(g, (u * j + v * k) % Order) = Add(Mul(Mul(g, u), j), Mul(Mul(g, v), k))
  BY <1>3, MulCombined
<1> QED BY <1>2, <1>4 DEF u, v

LEMMA LdeiVerifies ==
  ASSUME NEW d, LdeiFits(d), NEW w \in Polynomial, Degree(w) <= d.d, d.x = Values(d.g, d.alpha, w),
         NEW u \in Responses(d.d + 1), NEW e \in Scalar
  PROVE  /\ Holds("ldei", d, w)
         /\ Minus(u, Times(w, e)) \in Polynomial
         /\ Values(d.g, d.alpha, u) \in [DOMAIN d.g -> Plane]
         /\ LdeiVerify(d, Values(d.g, d.alpha, u), e, Minus(u, Times(w, e))) <=>
              Degree(Minus(u, Times(w, e))) # Infinity
<1> DEFINE z == Minus(u, Times(w, e))
           c == Values(d.g, d.alpha, u)
           k == 0 - e
           n == d.d
<1>1. /\ d.g \in Seq(Plane) /\ d.alpha \in Seq(Scalar) /\ Len(d.alpha) = Len(d.g)
      /\ n \in Nat /\ n < Infinity /\ e \in Int /\ k \in Int /\ w \in Seq(Scalar)
  BY ScalarsAreInts DEF LdeiFits, Polynomial
<1>2. u \in Seq(Scalar) /\ Len(u) = n + 1 /\ u \in Polynomial
  <2>1. n + 1 \in Nat \ {0}
    BY <1>1
  <2>2. u \in Seq(Scalar) /\ Len(u) = n + 1 /\ u # <<>>
    BY <2>1, ResponsesFacts
  <2> QED BY <2>2 DEF Polynomial
<1>3. Holds("ldei", d, w)
  <2>1. d = LdeiStatement(d.alpha, d.g, d.d, w)
    BY DEF LdeiFits, LdeiStatement
  <2>2. Below(w, d.d)
    BY <1>1, DegreeFacts
  <2> QED BY <2>1, <2>2 DEF Holds, Below
<1>4. z \in Polynomial
  <2>1. Times(w, e) \in Seq(Scalar)
    BY <1>1, TimesFacts
  <2>2. z \in Seq(Scalar) /\ Len(z) >= Len(u)
    BY <1>2, <2>1, MinusFacts
  <2> HIDE DEF z
  <2>3. z # <<>>
    BY <1>1, <1>2, <2>2
  <2> QED BY <2>2, <2>3 DEF Polynomial
<1>5. c \in [DOMAIN d.g -> Plane]
  BY <1>1, <1>2, ValuesFacts
<1>6. Degree(z) <= n <=> Degree(z) # Infinity
  <2>1. Below(u, n)
    BY <1>1, <1>2 DEF Below
  <2>2. Below(w, n)
    BY <1>1, DegreeFacts
  <2>3. Below(z, n)
    BY <1>1, <1>2, <2>1, <2>2, ResponseBelow
  <2> HIDE DEF z
  <2> QED BY <1>1, <1>4, <2>3, DegreeFacts DEF Polynomial
<1>7. CombinedTerms(z, 1, u, k, w)
  BY <1>1, <1>2, ResponseCombined
<1> HIDE DEF z
<1>8. ASSUME NEW i \in DOMAIN d.g
      PROVE  c[i] = Add(Mul(d.g[i], Evaluate(z, d.alpha[i])), Mul(d.x[i], e))
  <2> DEFINE g == d.g[i]
             y == d.alpha[i]
             x == d.x[i]
             t == Mul(g, Evaluate(u, y))
  <2>1. g \in Plane /\ y \in Scalar /\ x = Mul(g, Evaluate(w, y)) /\ x \in Plane /\ c[i] = t /\ t \in Plane
    <3>1. g \in Plane /\ y \in Scalar
      BY <1>1, ValuesFacts
    <3>2. x = Mul(g, Evaluate(w, y)) /\ c[i] = t
      BY DEF Values
    <3>3. x \in Plane
      BY DEF LdeiFits
    <3> QED BY <1>5, <3>1, <3>2, <3>3
  <2> HIDE DEF g, y, x
  <2>2. Mul(g, Evaluate(z, y)) = Add(Mul(t, 1), Mul(Mul(g, Evaluate(w, y)), k))
    BY <1>1, <1>2, <1>4, <1>7, <2>1, MulEvaluated, 1 \in Int
  <2> HIDE DEF t
  <2>3. Mul(t, 1) = t
    BY <2>1, MulLaws, 1 \in Int
  <2>4. Add(Add(t, Mul(x, k)), Mul(x, e)) = t
    BY <1>1, <2>1, MulCancels DEF k
  <2> QED BY <2>1, <2>2, <2>3, <2>4 DEF g, x, y
<1>9. c = [i \in DOMAIN d.g |-> Add(Mul(d.g[i], Evaluate(z, d.alpha[i])), Mul(d.x[i], e))]
  <2> HIDE DEF c
  <2> QED BY <1>5, <1>8
<1> QED BY <1>3, <1>4, <1>5, <1>6, <1>9 DEF LdeiVerify, z

LEMMA LdeiExtracted ==
  ASSUME NEW d, LdeiFits(d), NEW c, NEW e1 \in Scalar, NEW e2 \in Scalar, e1 # e2,
         NEW z1 \in Polynomial, NEW z2 \in Polynomial,
         LdeiVerify(d, c, e1, z1), LdeiVerify(d, c, e2, z2)
  PROVE  Holds("ldei", d, Extracted("ldei", e1, z1, e2, z2))
<1> DEFINE f == Invert((e2 - e1) % Order)
           r == Difference(z1, z2, f)
<1>1. Extracted("ldei", e1, z1, e2, z2) = r
  BY DEF Extracted, Difference
<1>2. f \in Int
  BY InvertFacts, ScalarsAreInts
<1>3. z1 \in Seq(Scalar) /\ z2 \in Seq(Scalar) /\ Len(z1) # 0 /\ Len(z1) \in Nat
  BY DEF Polynomial
<1>4. r \in Polynomial
  <2> DEFINE t == Minus(z1, z2)
  <2>1. t \in Seq(Scalar) /\ Len(t) >= Len(z1) /\ Len(t) \in Nat
    BY <1>3, MinusFacts
  <2>2. r = Times(t, f)
    BY DEF Difference
  <2> HIDE DEF t, r, f
  <2>3. r \in Seq(Scalar) /\ Len(r) = Len(t)
    BY <1>2, <2>1, <2>2, TimesFacts
  <2>4. r # <<>>
    BY <1>3, <2>1, <2>3
  <2> QED BY <2>3, <2>4 DEF Polynomial
<1>5. CombinedTerms(r, f, z1, 0 - f, z2)
  BY <1>2, <1>3, ExtractedCombined DEF Difference
<1> HIDE DEF r
<1>6. /\ d.g \in Seq(Plane) /\ d.alpha \in Seq(Scalar) /\ Len(d.alpha) = Len(d.g)
      /\ d.x \in [DOMAIN d.g -> Plane]
  BY DEF LdeiFits
<1>7. ASSUME NEW i \in DOMAIN d.g PROVE d.x[i] = Mul(d.g[i], Evaluate(r, d.alpha[i]))
  <2> DEFINE g == d.g[i]
             y == d.alpha[i]
             x == d.x[i]
             p1 == Mul(g, Evaluate(z1, y))
             p2 == Mul(g, Evaluate(z2, y))
  <2>1. g \in Plane /\ y \in Scalar /\ x \in Plane
    BY <1>4, <1>6, ValuesFacts
  <2>2. Add(p1, Mul(x, e1)) = Add(p2, Mul(x, e2))
    <3>1. c[i] = Add(p1, Mul(x, e1))
      BY DEF LdeiVerify
    <3>2. c[i] = Add(p2, Mul(x, e2))
      BY DEF LdeiVerify
    <3> QED BY <3>1, <3>2
  <2> HIDE DEF g, y, x
  <2>3. p1 \in Plane /\ p2 \in Plane
    <3>1. Evaluate(z1, y) \in Scalar /\ Evaluate(z2, y) \in Scalar
      BY <2>1, EvaluateSum DEF Polynomial
    <3>2. Evaluate(z1, y) \in Int /\ Evaluate(z2, y) \in Int
      BY <3>1, ScalarsAreInts
    <3> QED BY <2>1, <3>2, PlaneTypes
  <2>4. x = Add(Mul(p1, f), Mul(p2, 0 - f))
    <3> HIDE DEF p1, p2
    <3> QED BY <2>1, <2>2, <2>3, Extraction
  <2> HIDE DEF f
  <2>5. 0 - f \in Int
    BY <1>2
  <2>6. Mul(g, Evaluate(r, y)) = Add(Mul(p1, f), Mul(p2, 0 - f))
    BY <1>2, <1>4, <1>5, <2>1, <2>5, MulEvaluated
  <2> QED BY <2>4, <2>6 DEF g, y, x
<1>8. d.x = Values(d.g, d.alpha, r)
  BY <1>6, <1>7 DEF Values
<1>9. d = LdeiStatement(d.alpha, d.g, d.d, r)
  BY <1>8 DEF LdeiFits, LdeiStatement
<1>10. Below(r, d.d)
  <2>1. d.d \in Nat /\ d.d < Infinity
    BY DEF LdeiFits
  <2>2. Degree(z1) <= d.d /\ Degree(z2) <= d.d
    BY DEF LdeiVerify
  <2>3. Below(z1, d.d) /\ Below(z2, d.d)
    BY <1>3, <2>1, <2>2, DegreeFacts
  <2> QED BY <1>2, <1>3, <1>4, <1>5, <2>1, <2>3, CombinedBelow DEF Polynomial
<1> QED BY <1>1, <1>9, <1>10 DEF Holds, Below

-----------------------------------------------------------------------------
(* The invariant: what was proved fits its witness and verifies with the        *)
(* challenge the oracle keeps for it, and what verify said is what it checked.  *)

Kinds == Points \cup {"ldei"}
Fits(k, d)         == IF k = "ldei" THEN LdeiFits(d) ELSE d \in Statements(k)
Committed(k, c)    == k # "ldei" => c \in [1 .. Turns(k) -> Plane]
Answered(k, z)     == z \in IF k = "ldei" THEN Polynomial ELSE Responses(Size(k))
Unanswered(k, z)   == k = "ldei" /\ Degree(z) = Infinity
Made(k, w, d, c, e, z) ==
  /\ Fits(k, d) /\ Committed(k, c) /\ Answered(k, z) /\ Holds(k, d, w)
  /\ Satisfied(k, d, c, e, z) <=> ~Unanswered(k, z)

Asked(e) ==
  answer.by = "prove" /\ answer.e = e /\ oracle = [h \in {Hashed(kind, stmt, proof.a)} |-> e]
Told ==
  /\ answer.by = "verify" /\ answer.e \in Scalar /\ Fits(kind, answer.stmt)
  /\ answer.outcome = "ok" => Satisfied(kind, answer.stmt, proof.a, answer.e, proof.z)
  /\ answer.stmt = stmt => (answer.outcome = "ok" <=> ~Unanswered(kind, proof.z))

SigmaIInv ==
  \/ kind = "none" /\ answer.by = "none" /\ oracle = <<>>
  \/ kind = "refused" /\ answer.by \in {"new", "prove"}
  \/ /\ kind \in Kinds
     /\ \E e \in Scalar : Made(kind, wit, stmt, proof.a, e, proof.z) /\ (Asked(e) \/ Told)

LEMMA AfterProof ==
  ASSUME NEW k \in Kinds, NEW w, NEW d, NEW c, NEW e \in Scalar, NEW z, Made(k, w, d, c, e, z),
         kind' = k, wit' = w, stmt' = d, proof' = [a |-> c, z |-> z],
         oracle' = [h \in {Hashed(k, d, c)} |-> e],
         answer' = [by |-> "prove", stmt |-> d, e |-> e, outcome |-> "proved"]
  PROVE  SigmaIInv'
<1>1. proof'.a = c /\ proof'.z = z /\ answer'.by = "prove" /\ answer'.e = e
  OBVIOUS
<1>2. Made(kind, wit, stmt, proof.a, e, proof.z)'
  BY <1>1
<1>3. Asked(e)'
  BY <1>1 DEF Asked
<1> QED BY <1>2, <1>3 DEF SigmaIInv

LEMMA InputFacts ==
  /\ One \subseteq Responses(1) /\ Two \subseteq Responses(2)
  /\ \A n \in Nat : Random(n) \subseteq Responses(n)
  /\ BasePoints \subseteq Plane /\ Witnesses \subseteq Scalar
<1>1. Witnesses \subseteq Scalar /\ Bases \subseteq Scalar
  BY SigmaAssumption
<1>2. One \subseteq Responses(1) /\ Two \subseteq Responses(2)
  BY <1>1 DEF One, Two, Responses
<1>3. \A n \in Nat : Random(n) \subseteq Responses(n)
  BY DEF Random, Responses, Nonzero
<1>4. BasePoints \subseteq Plane
  <2>1. ASSUME NEW n \in Bases PROVE Mul(G, n) \in Plane
    <3>1. n \in Int
      BY <1>1, ScalarsAreInts
    <3> QED BY <3>1, PlaneFacts, PlaneTypes
  <2> QED BY <2>1 DEF BasePoints
<1> QED BY <1>1, <1>2, <1>3, <1>4

\* The first challenge is any scalar.
LEMMA FirstChallenge ==
  ASSUME oracle = <<>>, NEW h
  PROVE  Challenges(h) = Scalar
BY DEF Challenges

LEMMA PointsMade ==
  ASSUME NEW k \in Points, NEW w, NEW d, NEW c, NEW e, NEW z, Verifies(k, w, d, c, e, z)
  PROVE  Made(k, w, d, c, e, z) /\ k \in Kinds
<1>1. k # "ldei"
  BY DEF Points
<1> QED BY <1>1 DEF Verifies, Made, Fits, Committed, Answered, Unanswered, Kinds

\* The provers about points.
LEMMA PointsProved ==
  ASSUME kind = "none", oracle = <<>>,
         DLogProve \/ DdhProve \/ PedersenProve \/ BlindingProve \/ ElGamalProve \/ ElGamalDlogProve
  PROVE  SigmaIInv'
<1>1. CASE DLogProve
  <2>1. PICK w \in One, s \in Random(1) :
          LET d == DLogStatement(w)
              c == DLogCommit(s)
              f(e) == Taken(w, s, e)
          IN  Proved("dlog", w, d, c, DLogHashed(d, c), f)
    BY <1>1 DEF DLogProve
  <2> DEFINE d == DLogStatement(w)
             c == DLogCommit(s)
  <2>2. PICK e \in Scalar :
          /\ kind' = "dlog" /\ wit' = w /\ stmt' = d /\ proof' = [a |-> c, z |-> Taken(w, s, e)]
          /\ oracle' = [i \in {DLogHashed(d, c)} |-> e] /\ Answer("prove", d, e, "proved")
    BY <2>1, FirstChallenge DEF Proved
  <2>3. w \in Responses(1) /\ s \in Responses(1)
    BY InputFacts
  <2>4. Verifies("dlog", w, d, c, e, Taken(w, s, e))
    BY <2>3, DLogVerifies
  <2>5. Hashed("dlog", d, c) = DLogHashed(d, c)
    BY DEF Hashed
  <2> HIDE DEF d, c
  <2>6. Made("dlog", w, d, c, e, Taken(w, s, e)) /\ "dlog" \in Kinds
    BY <2>4, PointsMade DEF Points
  <2> QED BY <2>2, <2>5, <2>6, AfterProof DEF Answer
<1>2. CASE DdhProve
  <2>1. PICK w \in One, g1, g2 \in BasePoints, s \in Random(1) :
          LET d == DdhStatement(g1, g2, w)
              c == DdhCommit(d, s)
              f(e) == Added(w, s, e)
          IN  Proved("ddh", w, d, c, DdhHashed(d, c), f)
    BY <1>2 DEF DdhProve
  <2> DEFINE d == DdhStatement(g1, g2, w)
             c == DdhCommit(d, s)
  <2>2. PICK e \in Scalar :
          /\ kind' = "ddh" /\ wit' = w /\ stmt' = d /\ proof' = [a |-> c, z |-> Added(w, s, e)]
          /\ oracle' = [i \in {DdhHashed(d, c)} |-> e] /\ Answer("prove", d, e, "proved")
    BY <2>1, FirstChallenge DEF Proved
  <2>3. w \in Responses(1) /\ s \in Responses(1) /\ g1 \in Plane /\ g2 \in Plane
    BY InputFacts
  <2>4. Verifies("ddh", w, d, c, e, Added(w, s, e))
    BY <2>3, DdhVerifies
  <2>5. Hashed("ddh", d, c) = DdhHashed(d, c)
    BY DEF Hashed
  <2> HIDE DEF d, c
  <2>6. Made("ddh", w, d, c, e, Added(w, s, e)) /\ "ddh" \in Kinds
    BY <2>4, PointsMade DEF Points
  <2> QED BY <2>2, <2>5, <2>6, AfterProof DEF Answer
<1>3. CASE PedersenProve
  <2>1. PICK w \in Two, s \in Random(2) :
          LET d == PedersenStatement(w)
              c == PedersenCommit(s)
              f(e) == Added(w, s, e)
          IN  Proved("pedersen", w, d, c, PedersenHashed(d, c), f)
    BY <1>3 DEF PedersenProve
  <2> DEFINE d == PedersenStatement(w)
             c == PedersenCommit(s)
  <2>2. PICK e \in Scalar :
          /\ kind' = "pedersen" /\ wit' = w /\ stmt' = d /\ proof' = [a |-> c, z |-> Added(w, s, e)]
          /\ oracle' = [i \in {PedersenHashed(d, c)} |-> e] /\ Answer("prove", d, e, "proved")
    BY <2>1, FirstChallenge DEF Proved
  <2>3. w \in Responses(2) /\ s \in Responses(2)
    BY InputFacts
  <2>4. Verifies("pedersen", w, d, c, e, Added(w, s, e))
    BY <2>3, PedersenVerifies
  <2>5. Hashed("pedersen", d, c) = PedersenHashed(d, c)
    BY DEF Hashed
  <2> HIDE DEF d, c
  <2>6. Made("pedersen", w, d, c, e, Added(w, s, e)) /\ "pedersen" \in Kinds
    BY <2>4, PointsMade DEF Points
  <2> QED BY <2>2, <2>5, <2>6, AfterProof DEF Answer
<1>4. CASE BlindingProve
  <2>1. PICK w \in One, m \in Witnesses, s \in Random(1) :
          LET d == BlindingStatement(m, w)
              c == BlindingCommit(s)
              f(e) == Added(w, s, e)
          IN  Proved("blinding", w, d, c, BlindingHashed(d, c), f)
    BY <1>4 DEF BlindingProve
  <2> DEFINE d == BlindingStatement(m, w)
             c == BlindingCommit(s)
  <2>2. PICK e \in Scalar :
          /\ kind' = "blinding" /\ wit' = w /\ stmt' = d /\ proof' = [a |-> c, z |-> Added(w, s, e)]
          /\ oracle' = [i \in {BlindingHashed(d, c)} |-> e] /\ Answer("prove", d, e, "proved")
    BY <2>1, FirstChallenge DEF Proved
  <2>3. w \in Responses(1) /\ s \in Responses(1) /\ m \in Scalar
    BY InputFacts
  <2>4. Verifies("blinding", w, d, c, e, Added(w, s, e))
    BY <2>3, BlindingVerifies
  <2>5. Hashed("blinding", d, c) = BlindingHashed(d, c)
    BY DEF Hashed
  <2> HIDE DEF d, c
  <2>6. Made("blinding", w, d, c, e, Added(w, s, e)) /\ "blinding" \in Kinds
    BY <2>4, PointsMade DEF Points
  <2> QED BY <2>2, <2>5, <2>6, AfterProof DEF Answer
<1>5. CASE ElGamalProve
  <2>1. PICK w \in Two, g, u, y \in BasePoints, s \in Random(2) :
          LET d == ElGamalStatement(g, u, y, w)
              c == ElGamalCommit(d, s)
              f(e) == Added(w, s, e)
          IN  Proved("elgamal", w, d, c, ElGamalHashed(d, c), f)
    BY <1>5 DEF ElGamalProve
  <2> DEFINE d == ElGamalStatement(g, u, y, w)
             c == ElGamalCommit(d, s)
  <2>2. PICK e \in Scalar :
          /\ kind' = "elgamal" /\ wit' = w /\ stmt' = d /\ proof' = [a |-> c, z |-> Added(w, s, e)]
          /\ oracle' = [i \in {ElGamalHashed(d, c)} |-> e] /\ Answer("prove", d, e, "proved")
    BY <2>1, FirstChallenge DEF Proved
  <2>3. w \in Responses(2) /\ s \in Responses(2) /\ g \in Plane /\ u \in Plane /\ y \in Plane
    BY InputFacts
  <2>4. Verifies("elgamal", w, d, c, e, Added(w, s, e))
    BY <2>3, ElGamalVerifies
  <2>5. Hashed("elgamal", d, c) = ElGamalHashed(d, c)
    BY DEF Hashed
  <2> HIDE DEF d, c
  <2>6. Made("elgamal", w, d, c, e, Added(w, s, e)) /\ "elgamal" \in Kinds
    BY <2>4, PointsMade DEF Points
  <2> QED BY <2>2, <2>5, <2>6, AfterProof DEF Answer
<1>6. CASE ElGamalDlogProve
  <2>1. PICK w \in Two, g, y \in BasePoints, s \in Random(2) :
          LET d == ElGamalDlogStatement(g, y, w)
              c == ElGamalDlogCommit(d, s)
              f(e) == Added(w, s, e)
          IN  Proved("elgamal_dlog", w, d, c, ElGamalDlogHashed(d, c), f)
    BY <1>6 DEF ElGamalDlogProve
  <2> DEFINE d == ElGamalDlogStatement(g, y, w)
             c == ElGamalDlogCommit(d, s)
  <2>2. PICK e \in Scalar :
          /\ kind' = "elgamal_dlog" /\ wit' = w /\ stmt' = d /\ proof' = [a |-> c, z |-> Added(w, s, e)]
          /\ oracle' = [i \in {ElGamalDlogHashed(d, c)} |-> e] /\ Answer("prove", d, e, "proved")
    BY <2>1, FirstChallenge DEF Proved
  <2>3. w \in Responses(2) /\ s \in Responses(2) /\ g \in Plane /\ y \in Plane
    BY InputFacts
  <2>4. Verifies("elgamal_dlog", w, d, c, e, Added(w, s, e))
    BY <2>3, ElGamalDlogVerifies
  <2>5. Hashed("elgamal_dlog", d, c) = ElGamalDlogHashed(d, c)
    BY DEF Hashed
  <2> HIDE DEF d, c
  <2>6. Made("elgamal_dlog", w, d, c, e, Added(w, s, e)) /\ "elgamal_dlog" \in Kinds
    BY <2>4, PointsMade DEF Points
  <2> QED BY <2>2, <2>5, <2>6, AfterProof DEF Answer
<1> QED BY <1>1, <1>2, <1>3, <1>4, <1>5, <1>6

LEMMA DegreeType ==
  ASSUME NEW p \in Seq(Scalar)
  PROVE  Degree(p) \in Int
<1> DEFINE S == {i \in DOMAIN p : p[i] # 0}
           i0 == CHOOSE i \in S : \A j \in S : j <= i
<1>1. S \in SUBSET (1 .. Len(p)) /\ Len(p) \in Nat
  OBVIOUS
<1>2. CASE S = {}
  BY <1>2 DEF Degree, Infinity
<1>3. CASE S # {}
  <2>1. Degree(p) = i0 - 1
    BY <1>3 DEF Degree
  <2>2. \E i \in S : \A j \in S : j <= i
    BY <1>1, <1>3, LargestMember
  <2> HIDE DEF S
  <2>3. i0 \in S
    BY <2>2
  <2> HIDE DEF i0
  <2>4. i0 \in Int
    BY <1>1, <2>3
  <2> QED BY <2>1, <2>4
<1> QED BY <1>2, <1>3

\* The prover of a polynomial, and what refuses it.
LEMMA LdeiProved ==
  ASSUME kind = "none", oracle = <<>>, LdeiProve
  PROVE  SigmaIInv'
<1>1. ASSUME NEW by \in {"new", "prove"}, NEW why, LdeiRefused(by, why) PROVE SigmaIInv'
  <2>1. kind' = "refused" /\ answer'.by = by
    BY <1>1 DEF LdeiRefused, Answer
  <2> QED BY <2>1 DEF SigmaIInv
<1>2. PICK w0 \in Polys, alpha \in Alphas, dlogs \in Generators, d \in Degrees :
        LET g   == [i \in DOMAIN dlogs |-> Mul(G, dlogs[i])]
            why == InvalidStatement(alpha, g, d, w0)
        IN  \/ why # "valid" /\ LdeiRefused("new", why)
            \/ /\ why = "valid"
               /\ \E w \in Polys :
                    LET t  == LdeiStatement(alpha, g, d, w0)
                        no == InvalidProof(t, w)
                    IN  \/ no # "valid" /\ LdeiRefused("prove", no)
                        \/ /\ no = "valid"
                           /\ \E u \in Random(d + 1) :
                                LET c == Values(g, alpha, u)
                                    f(e) == Minus(u, Times(w, e))
                                IN  Proved("ldei", w, t, c, LdeiHashed(t, c), f)
  BY DEF LdeiProve
<1> DEFINE g == [i \in DOMAIN dlogs |-> Mul(G, dlogs[i])]
           why == InvalidStatement(alpha, g, d, w0)
           t == LdeiStatement(alpha, g, d, w0)
<1>3. CASE LdeiRefused("new", why)
  BY <1>1, <1>3
<1>4. CASE \E w \in Polys : LdeiRefused("prove", InvalidProof(t, w))
  BY <1>1, <1>4
<1>5. ASSUME why = "valid", NEW w \in Polys, InvalidProof(t, w) = "valid", NEW u \in Random(d + 1),
             LET c == Values(g, alpha, u)
                 f(e) == Minus(u, Times(w, e))
             IN  Proved("ldei", w, t, c, LdeiHashed(t, c), f)
      PROVE  SigmaIInv'
  <2> DEFINE c == Values(g, alpha, u)
             z(e) == Minus(u, Times(w, e))
  <2>1. PICK e \in Scalar :
          /\ kind' = "ldei" /\ wit' = w /\ stmt' = t /\ proof' = [a |-> c, z |-> z(e)]
          /\ oracle' = [i \in {LdeiHashed(t, c)} |-> e] /\ Answer("prove", t, e, "proved")
    BY <1>5, FirstChallenge DEF Proved
  <2>2. /\ alpha \in Seq(Scalar) /\ dlogs \in Seq(Scalar) /\ w0 \in Seq(Scalar) /\ w \in Seq(Scalar)
        /\ d \in Nat /\ d < Infinity
    BY SigmaAssumption
  <2>3. u \in Responses(d + 1)
    BY <2>2, InputFacts
  <2>4. g \in Seq(Plane)
    <3>1. \A i \in DOMAIN dlogs : Mul(G, dlogs[i]) \in Plane
      <4> SUFFICES ASSUME NEW i \in DOMAIN dlogs PROVE Mul(G, dlogs[i]) \in Plane
        OBVIOUS
      <4>1. dlogs[i] \in Scalar
        BY <2>2
      <4>2. dlogs[i] \in Int
        BY <4>1, ScalarsAreInts
      <4> QED BY <4>2, PlaneFacts, PlaneTypes
    <3>2. DOMAIN dlogs = 1 .. Len(dlogs) /\ Len(dlogs) \in Nat
      BY <2>2
    <3>3. g \in [1 .. Len(dlogs) -> Plane]
      BY <3>1, <3>2
    <3> QED BY <3>2, <3>3
  <2> HIDE DEF g
  <2>5. /\ t.alpha = alpha /\ t.g = g /\ t.d = d /\ t.x = Values(g, alpha, w0)
        /\ t = [alpha |-> t.alpha, g |-> t.g, x |-> t.x, d |-> t.d]
    BY DEF LdeiStatement
  <2>6. Len(alpha) = Len(g) /\ ~(Degree(w0) > d)
    BY <1>5 DEF InvalidStatement
  <2>7. InvalidStatement(alpha, g, d, w) = "valid" /\ t.x = Values(g, alpha, w)
    <3> DEFINE no == InvalidStatement(t.alpha, t.g, t.d, w)
    <3>1. IF no = "valid" /\ t.x # Values(t.g, t.alpha, w) THEN FALSE ELSE no = "valid"
      <4> HIDE DEF t
      <4> QED BY <1>5 DEF InvalidProof
    <3>2. no = "valid" /\ t.x = Values(t.g, t.alpha, w)
      BY <3>1
    <3> QED BY <2>5, <3>2
  <2>8. ~(Degree(w) > d)
    BY <2>7 DEF InvalidStatement
  <2>9. Degree(w0) <= d /\ Degree(w) <= d
    <3>1. Degree(w0) \in Int /\ Degree(w) \in Int
      BY <2>2, DegreeType
    <3> QED BY <2>2, <2>6, <2>8, <3>1
  <2>10. w0 \in Polynomial /\ w \in Polynomial
    BY <2>2, <2>9, DegreeFacts DEF Polynomial
  <2>11. Values(g, alpha, w0) \in [DOMAIN g -> Plane]
    BY <2>2, <2>4, <2>6, <2>10, ValuesFacts
  <2> HIDE DEF t
  <2>12. LdeiFits(t)
    BY <2>2, <2>4, <2>5, <2>6, <2>11 DEF LdeiFits
  <2>13. c = Values(t.g, t.alpha, u)
    BY <2>5
  <2>14. /\ Holds("ldei", t, w) /\ z(e) \in Polynomial
         /\ LdeiVerify(t, c, e, z(e)) <=> Degree(z(e)) # Infinity
    BY <2>3, <2>5, <2>7, <2>9, <2>10, <2>12, <2>13, LdeiVerifies
  <2> HIDE DEF c, z
  <2>15. Made("ldei", w, t, c, e, z(e))
    BY <2>12, <2>14 DEF Made, Fits, Committed, Answered, Unanswered, Satisfied
  <2>16. Hashed("ldei", t, c) = LdeiHashed(t, c)
    BY DEF Hashed
  <2> QED BY <2>1, <2>15, <2>16, AfterProof DEF Answer, Kinds
<1> QED BY <1>2, <1>3, <1>4, <1>5

-----------------------------------------------------------------------------
\* The verifiers.

LEMMA NeighboursFit ==
  ASSUME NEW k \in Kinds, NEW d, Fits(k, d), NEW n \in Neighbours(k, d)
  PROVE  Fits(k, n)
<1>1. ASSUME NEW p \in Plane PROVE Add(p, G) \in Plane
  BY <1>1, PlaneFacts, PlaneTypes, 1 \in Int
<1>2. ASSUME NEW v \in Scalar PROVE (v + 1) % Order \in Scalar
  <2>1. v + 1 \in Int
    BY ScalarsAreInts
  <2> QED BY <2>1, OrderFacts
<1>3. CASE n = d
  BY <1>3
<1>4. CASE k = "ldei" /\ n # d
  <2>1. LdeiFits(d)
    BY <1>4 DEF Fits
  <2>2. CASE \E i \in DOMAIN d.x : n = [d EXCEPT !.x[i] = Add(@, G)]
    <3>1. PICK i \in DOMAIN d.x : n = [d EXCEPT !.x[i] = Add(@, G)]
      BY <2>2
    <3> DEFINE x == [d.x EXCEPT ![i] = Add(d.x[i], G)]
    <3>2. n = [alpha |-> d.alpha, g |-> d.g, x |-> x, d |-> d.d]
      BY <2>1, <3>1 DEF LdeiFits
    <3>3. x \in [DOMAIN d.g -> Plane]
      BY <1>1, <2>1 DEF LdeiFits
    <3> HIDE DEF x
    <3>4. LdeiFits(n)
      BY <2>1, <3>2, <3>3 DEF LdeiFits
    <3> QED BY <1>4, <3>4 DEF Fits
  <2>3. CASE \E i \in DOMAIN d.alpha : n = [d EXCEPT !.alpha[i] = (@ + 1) % Order]
    <3>1. PICK i \in DOMAIN d.alpha : n = [d EXCEPT !.alpha[i] = (@ + 1) % Order]
      BY <2>3
    <3> DEFINE x == [d.alpha EXCEPT ![i] = (d.alpha[i] + 1) % Order]
    <3>2. n = [alpha |-> x, g |-> d.g, x |-> d.x, d |-> d.d]
      BY <2>1, <3>1 DEF LdeiFits
    <3>3. x \in Seq(Scalar) /\ Len(x) = Len(d.alpha)
      <4>1. d.alpha \in Seq(Scalar)
        BY <2>1 DEF LdeiFits
      <4>2. d.alpha[i] \in Scalar
        BY <4>1
      <4> QED BY <1>2, <4>1, <4>2
    <3> HIDE DEF x
    <3>4. LdeiFits(n)
      BY <2>1, <3>2, <3>3 DEF LdeiFits
    <3> QED BY <1>4, <3>4 DEF Fits
  <2> QED BY <1>4, <2>2, <2>3 DEF Neighbours
<1>5. CASE k # "ldei" /\ n # d
  <2>1. k \in Points /\ d \in Statements(k)
    BY <1>5 DEF Kinds, Fits
  <2>2. PICK f \in DOMAIN d : n = [d EXCEPT ![f] = Shifted(f, d[f])]
    BY <1>5 DEF Neighbours
  <2>3. k = "dlog" => n \in Statements(k)
    BY <1>1, <2>1, <2>2 DEF Statements, Shifted
  <2>4. k = "ddh" => n \in Statements(k)
    BY <1>1, <2>1, <2>2 DEF Statements, Shifted
  <2>5. k = "pedersen" => n \in Statements(k)
    BY <1>1, <2>1, <2>2 DEF Statements, Shifted
  <2>6. k = "blinding" => n \in Statements(k)
    BY <1>1, <1>2, <2>1, <2>2 DEF Statements, Shifted
  <2>7. k = "elgamal" => n \in Statements(k)
    BY <1>1, <2>1, <2>2 DEF Statements, Shifted
  <2>8. k = "elgamal_dlog" => n \in Statements(k)
    BY <1>1, <2>1, <2>2 DEF Statements, Shifted
  <2> QED BY <1>5, <2>1, <2>3, <2>4, <2>5, <2>6, <2>7, <2>8 DEF Points, Fits
<1> QED BY <1>3, <1>4, <1>5

LEMMA Verified ==
  ASSUME SigmaIInv, kind \notin {"none", "refused"}, answer.by = "prove",
         NEW d \in Neighbours(kind, stmt), Verify(d)
  PROVE  SigmaIInv'
<1>1. kind \in Kinds
  BY DEF SigmaIInv
<1>2. PICK e0 \in Scalar : Made(kind, wit, stmt, proof.a, e0, proof.z) /\ (Asked(e0) \/ Told)
  BY DEF SigmaIInv
<1>3. Asked(e0)
  BY <1>2 DEF Told
<1> DEFINE h0 == Hashed(kind, stmt, proof.a)
           hd == Hashed(kind, d, proof.a)
<1>4. answer.e = e0 /\ DOMAIN oracle = {h0} /\ oracle[h0] = e0
  BY <1>3 DEF Asked
<1>5. PICK e \in Challenges(hd) :
        Answer("verify", d, e, IF /\ kind = "ldei" => e = answer.e
                                  /\ Satisfied(kind, d, proof.a, e, proof.z) THEN "ok" ELSE "err")
  BY DEF Verify
<1>6. kind' = kind /\ wit' = wit /\ stmt' = stmt /\ proof' = proof
  BY DEF Verify
<1>7. e \in Scalar /\ (d = stmt => e = e0)
  BY <1>4, <1>5 DEF Challenges
<1>8. /\ answer'.by = "verify" /\ answer'.stmt = d /\ answer'.e = e
      /\ answer'.outcome = "ok" <=> (kind = "ldei" => e = e0) /\ Satisfied(kind, d, proof.a, e, proof.z)
  BY <1>4, <1>5 DEF Answer
<1>9. Fits(kind, d)
  BY <1>1, <1>2, NeighboursFit DEF Made
<1>10. d = stmt => (answer'.outcome = "ok" <=> ~Unanswered(kind, proof.z))
  BY <1>2, <1>7, <1>8 DEF Made
<1>11. Told'
  BY <1>6, <1>7, <1>8, <1>9, <1>10 DEF Told
<1>12. Made(kind, wit, stmt, proof.a, e0, proof.z)'
  BY <1>2, <1>6
<1> QED BY <1>1, <1>6, <1>11, <1>12 DEF SigmaIInv

-----------------------------------------------------------------------------
\* The invariant holds at first and is kept.
LEMMA SigmaInitial == SigmaInit => SigmaIInv
BY DEF SigmaInit, SigmaIInv

LEMMA SigmaInductive == SigmaIInv /\ [SigmaNext]_sigmaVars => SigmaIInv'
<1> SUFFICES ASSUME SigmaIInv, [SigmaNext]_sigmaVars PROVE SigmaIInv'
  OBVIOUS
<1>1. ASSUME kind = "none",
             \/ DLogProve \/ DdhProve \/ PedersenProve \/ BlindingProve
             \/ ElGamalProve \/ ElGamalDlogProve \/ LdeiProve
      PROVE  SigmaIInv'
  <2>1. oracle = <<>>
    BY <1>1 DEF SigmaIInv, Kinds, Points
  <2> QED BY <1>1, <2>1, PointsProved, LdeiProved
<1>2. ASSUME kind \notin {"none", "refused"}, answer.by = "prove", NEW d \in Neighbours(kind, stmt), Verify(d)
      PROVE  SigmaIInv'
  BY <1>2, Verified
<1>3. CASE UNCHANGED sigmaVars
  BY <1>3 DEF sigmaVars, SigmaIInv, Asked, Told
<1> QED BY <1>1, <1>2, <1>3 DEF SigmaNext

LEMMA SigmaInvariant == SigmaSpec => []SigmaIInv
<1>1. SigmaInit => SigmaIInv
  BY SigmaInitial
<1>2. SigmaIInv /\ [SigmaNext]_sigmaVars => SigmaIInv'
  BY SigmaInductive
<1> QED BY <1>1, <1>2, PTL DEF SigmaSpec

\* Whatever the witness and the randomness, a proof verifies for the statement it
\* was made for, but for a response of sigma_ldei that is zero
\* (proofs/*.rs, prove and verify).
THEOREM HonestProofs == SigmaSpec => []HonestProofsVerify
<1>1. SigmaIInv => HonestProofsVerify
  <2> SUFFICES ASSUME SigmaIInv PROVE HonestProofsVerify
    OBVIOUS
  <2>1. CASE kind \in {"none", "refused"}
    BY <2>1 DEF SigmaIInv, HonestProofsVerify, Kinds, Points
  <2>2. CASE kind \notin {"none", "refused"}
    <3>1. PICK e \in Scalar : Made(kind, wit, stmt, proof.a, e, proof.z) /\ (Asked(e) \/ Told)
      BY <2>2 DEF SigmaIInv
    <3>2. Holds(kind, stmt, wit)
      BY <3>1 DEF Made
    <3>3. answer.by = "verify" => Told
      BY <3>1 DEF Asked
    <3> QED BY <3>2, <3>3 DEF HonestProofsVerify, Told, Unanswered
  <2> QED BY <2>1, <2>2
<1> QED BY <1>1, SigmaInvariant, PTL

\* What anyone may hand in as z is of the kind of answers the extraction takes.
LEMMA AnswersFacts ==
  ASSUME NEW k \in Kinds, NEW z \in Answers(k)
  PROVE  Answered(k, z)
<1>1. CASE k = "ldei"
  <2>1. z \in UNION {[1 .. n -> Scalar] : n \in 1 .. MaxAnswer}
    BY <1>1 DEF Answers
  <2>2. PICK n \in 1 .. MaxAnswer : z \in [1 .. n -> Scalar]
    BY <2>1
  <2>3. n \in Nat \ {0}
    BY SigmaAssumption
  <2>4. z \in Responses(n)
    BY <2>2 DEF Responses
  <2>5. z \in Polynomial
    BY <2>3, <2>4, ResponsesFacts DEF Polynomial
  <2> QED BY <1>1, <2>5 DEF Answered
<1>2. CASE k # "ldei"
  <2>1. k \in Points
    BY <1>2 DEF Kinds
  <2>2. z \in Responses(Size(k))
    BY <1>2, <2>1 DEF Answers, Responses, Size, Points
  <2> QED BY <1>2, <2>2 DEF Answered
<1> QED BY <1>1, <1>2

\* Special soundness: of any statement, answers to two challenges after the same
\* commitments give a witness, in every field of prime order; of a polynomial one
\* of the claimed degree (proofs/*.rs, verify).
THEOREM WitnessExtracted == SigmaSpec => []TwoAnswersGiveWitness
<1>1. SigmaIInv => TwoAnswersGiveWitness
  <2> SUFFICES ASSUME SigmaIInv, answer.by = "verify",
                      NEW e1 \in Scalar, NEW z1 \in Answers(kind),
                      Satisfied(kind, answer.stmt, proof.a, e1, z1),
                      NEW e2 \in Scalar \ {e1}, NEW z2 \in Answers(kind),
                      Satisfied(kind, answer.stmt, proof.a, e2, z2)
               PROVE  Holds(kind, answer.stmt, Extracted(kind, e1, z1, e2, z2))
    BY DEF TwoAnswersGiveWitness
  <2>1. kind \in Kinds
    BY DEF SigmaIInv
  <2>2. PICK e0 \in Scalar : Made(kind, wit, stmt, proof.a, e0, proof.z) /\ (Asked(e0) \/ Told)
    BY <2>1 DEF SigmaIInv, Kinds, Points
  <2>3. Told
    BY <2>2 DEF Asked
  <2> DEFINE d == answer.stmt
             c == proof.a
  <2>4. Fits(kind, d) /\ Committed(kind, c) /\ Answered(kind, z1) /\ Answered(kind, z2)
    BY <2>1, <2>2, <2>3, AnswersFacts DEF Told, Made
  <2>5. CASE kind = "ldei"
    <3>1. LdeiFits(d) /\ z1 \in Polynomial /\ z2 \in Polynomial
      BY <2>4, <2>5 DEF Fits, Answered
    <3>2. LdeiVerify(d, c, e1, z1) /\ LdeiVerify(d, c, e2, z2)
      BY <2>5 DEF Satisfied
    <3> HIDE DEF d, c
    <3>3. Holds("ldei", d, Extracted("ldei", e1, z1, e2, z2))
      BY <3>1, <3>2, LdeiExtracted
    <3> QED BY <2>5, <3>3 DEF d
  <2>6. CASE kind # "ldei"
    <3>1. /\ kind \in Points /\ d \in Statements(kind) /\ c \in [1 .. Turns(kind) -> Plane]
          /\ z1 \in Responses(Size(kind)) /\ z2 \in Responses(Size(kind))
      BY <2>1, <2>4, <2>6 DEF Kinds, Fits, Committed, Answered
    <3>2. Satisfied(kind, d, c, e1, z1) /\ Satisfied(kind, d, c, e2, z2)
      OBVIOUS
    <3> HIDE DEF d, c
    <3>3. Holds(kind, d, Extracted(kind, e1, z1, e2, z2))
      BY <3>1, <3>2, PointsExtracted
    <3> QED BY <3>3 DEF d
  <2> QED BY <2>5, <2>6
<1> QED BY <1>1, SigmaInvariant, PTL

-----------------------------------------------------------------------------
(* Hashing. *)

\* What a node of a tree of n leaves is hashed of.
NodeIs(f, ps, n, j) ==
  f[j] = IF j >= n - 1 THEN HashLeaf(ps[j - n + 2]) ELSE Merge(f[2 * j + 1], f[2 * j + 2])

\* The array of nodes can be filled from its end.
LEMMA NodesFill ==
  ASSUME NEW ps, NEW n \in Nat \ {0}, NEW k \in Nat, k <= 2 * n - 1
  PROVE  \E f : \A j \in 0 .. 2 * n - 2 : j + k >= 2 * n - 1 => NodeIs(f, ps, n, j)
<1> DEFINE T == {m \in Nat : m <= 2 * n - 1 =>
                   \E f : \A j \in 0 .. 2 * n - 2 : j + m >= 2 * n - 1 => NodeIs(f, ps, n, j)}
<1>1. 0 \in T
  OBVIOUS
<1>2. ASSUME NEW m \in T PROVE m + 1 \in T
  <2> SUFFICES ASSUME m + 1 <= 2 * n - 1
               PROVE  \E f : \A j \in 0 .. 2 * n - 2 : j + (m + 1) >= 2 * n - 1 => NodeIs(f, ps, n, j)
    OBVIOUS
  <2>1. PICK f : \A j \in 0 .. 2 * n - 2 : j + m >= 2 * n - 1 => NodeIs(f, ps, n, j)
    OBVIOUS
  <2> DEFINE i == 2 * n - 2 - m
             v == IF i >= n - 1 THEN HashLeaf(ps[i - n + 2]) ELSE Merge(f[2 * i + 1], f[2 * i + 2])
             g == [j \in 0 .. 2 * n - 2 |-> IF j = i THEN v ELSE f[j]]
  <2>2. m \in Nat /\ i \in 0 .. 2 * n - 2
    OBVIOUS
  <2>3. ASSUME NEW j \in 0 .. 2 * n - 2, j + (m + 1) >= 2 * n - 1 PROVE NodeIs(g, ps, n, j)
    <3>1. j >= i
      BY <2>2, <2>3
    <3>2. ASSUME j < n - 1 PROVE /\ 2 * j + 1 \in 0 .. 2 * n - 2 /\ 2 * j + 1 # i
                                 /\ 2 * j + 2 \in 0 .. 2 * n - 2 /\ 2 * j + 2 # i
      BY <2>2, <3>1, <3>2
    <3>3. ASSUME j < n - 1 PROVE g[2 * j + 1] = f[2 * j + 1] /\ g[2 * j + 2] = f[2 * j + 2]
      BY <3>2, <3>3
    <3> HIDE DEF i
    <3>4. CASE j = i
      <4>1. g[j] = v
        BY <3>4
      <4> HIDE DEF g
      <4> QED BY <3>3, <3>4, <4>1, <2>2 DEF NodeIs
    <3>5. CASE j # i
      <4>1. g[j] = f[j]
        BY <3>5
      <4>2. NodeIs(f, ps, n, j)
        BY <2>1, <2>2, <3>1, <3>5 DEF i
      <4> HIDE DEF g
      <4> QED BY <3>3, <4>1, <4>2 DEF NodeIs
    <3> QED BY <3>4, <3>5
  <2> HIDE DEF g
  <2> QED BY <2>3
<1>3. T = Nat
  <2> HIDE DEF T
  <2>1. T \in SUBSET Nat
    BY DEF T
  <2> QED BY <1>1, <1>2, <2>1, NatSetInduction
<1> QED BY <1>3

\* The array has the nodes.
LEMMA NodesAre ==
  ASSUME NEW ps, NEW n \in Nat \ {0}, Len(ps) = n
  PROVE  \A j \in 0 .. 2 * n - 2 : NodeIs(Nodes(ps), ps, n, j)
<1>1. PICK f : \A j \in 0 .. 2 * n - 2 : NodeIs(f, ps, n, j)
  <2> DEFINE k == 2 * n - 1
  <2>1. k \in Nat /\ k <= 2 * n - 1 /\ \A j \in 0 .. 2 * n - 2 : j + k >= 2 * n - 1
    OBVIOUS
  <2> HIDE DEF k
  <2>2. PICK f : \A j \in 0 .. 2 * n - 2 : j + k >= 2 * n - 1 => NodeIs(f, ps, n, j)
    BY <2>1, NodesFill
  <2> QED BY <2>1, <2>2
<1> DEFINE g == [j \in 0 .. 2 * n - 2 |-> f[j]]
<1>2. ASSUME NEW j \in 0 .. 2 * n - 2
      PROVE  g[j] = IF j >= n - 1 THEN HashLeaf(ps[j - n + 2]) ELSE Merge(g[2 * j + 1], g[2 * j + 2])
  <2>1. NodeIs(f, ps, n, j) /\ g[j] = f[j]
    BY <1>1
  <2>2. j < n - 1 => g[2 * j + 1] = f[2 * j + 1] /\ g[2 * j + 2] = f[2 * j + 2]
    OBVIOUS
  <2> HIDE DEF g
  <2> QED BY <2>1, <2>2 DEF NodeIs
<1>3. g = [j \in 0 .. 2 * n - 2 |->
             IF j >= n - 1 THEN HashLeaf(ps[j - n + 2]) ELSE Merge(g[2 * j + 1], g[2 * j + 2])]
  <2>1. g = [j \in 0 .. 2 * n - 2 |-> g[j]]
    OBVIOUS
  <2> HIDE DEF g
  <2> QED BY <1>2, <2>1
<1> HIDE DEF g
<1>4. Nodes(ps) = [j \in 0 .. 2 * n - 2 |->
             IF j >= n - 1 THEN HashLeaf(ps[j - n + 2])
             ELSE Merge(Nodes(ps)[2 * j + 1], Nodes(ps)[2 * j + 2])]
  <2> DEFINE Is(h) == h = [j \in 0 .. 2 * Len(ps) - 2 |->
                            IF j >= Len(ps) - 1 THEN HashLeaf(ps[j - Len(ps) + 2])
                            ELSE Merge(h[2 * j + 1], h[2 * j + 2])]
  <2>1. Nodes(ps) = CHOOSE h : Is(h)
    BY Zenon DEF Nodes
  <2>2. Is(g)
    BY <1>3, Zenon
  <2>3. Is(Nodes(ps))
    <3> HIDE DEF Is
    <3> QED BY <2>1, <2>2, Zenon
  <2> QED BY <2>3, Zenon
<1> DEFINE N == Nodes(ps)
<1> HIDE DEF N
<1>5. N = [j \in 0 .. 2 * n - 2 |->
             IF j >= n - 1 THEN HashLeaf(ps[j - n + 2]) ELSE Merge(N[2 * j + 1], N[2 * j + 2])]
  BY <1>4 DEF N
<1>6. ASSUME NEW j \in 0 .. 2 * n - 2
      PROVE  N[j] = IF j >= n - 1 THEN HashLeaf(ps[j - n + 2]) ELSE Merge(N[2 * j + 1], N[2 * j + 2])
  BY <1>5
<1> QED BY <1>6 DEF NodeIs, N

\* What is above a node, and where: its parent is a smaller number, of which it is
\* one child and its sibling the other.
LEMMA ParentFacts ==
  ASSUME NEW n \in Nat \ {0}, NEW j \in 1 .. 2 * n - 2
  PROVE  /\ Parent(j) \in 0 .. j - 1 /\ Parent(j) < n - 1
         /\ Sibling(j) \in 0 .. 2 * n - 2
         /\ IsLeft(j) => j = 2 * Parent(j) + 1 /\ Sibling(j) = 2 * Parent(j) + 2
         /\ ~ IsLeft(j) => j = 2 * Parent(j) + 2 /\ Sibling(j) = 2 * Parent(j) + 1
<1>1. (j % 2 = 1 /\ j = 2 * ((j - 1) \div 2) + 1) \/ (j % 2 # 1 /\ j = 2 * ((j - 1) \div 2) + 2)
  OBVIOUS
<1>2. (j - 1) \div 2 \in Int
  OBVIOUS
<1>3. Parent(j) = (j - 1) \div 2 /\ (IsLeft(j) <=> j % 2 = 1)
  BY DEF Parent, IsLeft
<1>4. Sibling(j) = IF j % 2 = 1 THEN j + 1 ELSE j - 1
  BY <1>3 DEF Sibling
<1> HIDE DEF Parent, IsLeft, Sibling
<1> QED BY <1>1, <1>2, <1>3, <1>4

\* The lemmas of a node are those of its parent after its sibling.
LemmaIs(f, N, j) ==
  f[j] = IF j = 0 THEN <<>> ELSE <<N[Sibling(j)]>> \o f[Parent(j)]

LEMMA LemmasFill ==
  ASSUME NEW N, NEW n \in Nat \ {0}, NEW k \in Nat
  PROVE  \E f : \A j \in 0 .. 2 * n - 2 : j < k => LemmaIs(f, N, j)
<1> DEFINE T == {m \in Nat : \E f : \A j \in 0 .. 2 * n - 2 : j < m => LemmaIs(f, N, j)}
<1>1. 0 \in T
  OBVIOUS
<1>2. ASSUME NEW m \in T PROVE m + 1 \in T
  <2>1. PICK f : \A j \in 0 .. 2 * n - 2 : j < m => LemmaIs(f, N, j)
    OBVIOUS
  <2> DEFINE v == IF m = 0 THEN <<>> ELSE <<N[Sibling(m)]>> \o f[Parent(m)]
             g == [j \in 0 .. 2 * n - 2 |-> IF j = m THEN v ELSE f[j]]
  <2>2. ASSUME NEW j \in 0 .. 2 * n - 2, j < m + 1 PROVE LemmaIs(g, N, j)
    <3>1. j # 0 => Parent(j) \in 0 .. 2 * n - 2 /\ Parent(j) # m /\ Parent(j) \in 0 .. j - 1
      BY <2>2, ParentFacts
    <3>2. j # 0 => g[Parent(j)] = f[Parent(j)]
      BY <3>1
    <3>3. CASE j = m
      <4>1. g[j] = v
        BY <3>3
      <4> HIDE DEF g
      <4> QED BY <3>2, <3>3, <4>1 DEF LemmaIs
    <3>4. CASE j # m
      <4>1. g[j] = f[j] /\ LemmaIs(f, N, j)
        BY <2>1, <2>2, <3>4
      <4> HIDE DEF g
      <4> QED BY <3>2, <4>1 DEF LemmaIs
    <3> QED BY <3>3, <3>4
  <2> HIDE DEF g
  <2> QED BY <2>2
<1>3. T = Nat
  <2> HIDE DEF T
  <2>1. T \in SUBSET Nat
    BY DEF T
  <2> QED BY <1>1, <1>2, <2>1, NatSetInduction
<1> QED BY <1>3

LEMMA LemmasAre ==
  ASSUME NEW ps, NEW n \in Nat \ {0}, Len(ps) = n
  PROVE  \A j \in 0 .. 2 * n - 2 : LemmaIs(Lemmas(ps), Nodes(ps), j)
<1> DEFINE N == Nodes(ps)
<1>1. PICK f : \A j \in 0 .. 2 * n - 2 : LemmaIs(f, N, j)
  <2> DEFINE k == 2 * n - 1
  <2>1. k \in Nat /\ \A j \in 0 .. 2 * n - 2 : j < k
    OBVIOUS
  <2> HIDE DEF k, N
  <2>2. PICK f : \A j \in 0 .. 2 * n - 2 : j < k => LemmaIs(f, N, j)
    BY <2>1, LemmasFill
  <2> QED BY <2>1, <2>2
<1> DEFINE g == [j \in 0 .. 2 * n - 2 |-> f[j]]
<1>2. ASSUME NEW j \in 0 .. 2 * n - 2
      PROVE  g[j] = IF j = 0 THEN <<>> ELSE <<N[Sibling(j)]>> \o g[Parent(j)]
  <2>1. LemmaIs(f, N, j) /\ g[j] = f[j]
    BY <1>1
  <2>2. j # 0 => Parent(j) \in 0 .. 2 * n - 2
    <3> SUFFICES ASSUME j # 0 PROVE Parent(j) \in 0 .. 2 * n - 2
      OBVIOUS
    <3>1. j \in 1 .. 2 * n - 2 /\ j - 1 <= 2 * n - 2
      OBVIOUS
    <3>2. Parent(j) \in 0 .. j - 1
      BY ONLY n \in Nat \ {0}, <3>1, ParentFacts, ZenonT(60)
    <3> HIDE DEF g, N
    <3> QED BY <3>1, <3>2
  <2>3. j # 0 => g[Parent(j)] = f[Parent(j)]
    BY <2>2
  <2> HIDE DEF g, N
  <2> QED BY <2>1, <2>3 DEF LemmaIs
<1>3. g = [j \in 0 .. 2 * n - 2 |-> IF j = 0 THEN <<>> ELSE <<N[Sibling(j)]>> \o g[Parent(j)]]
  <2>1. g = [j \in 0 .. 2 * n - 2 |-> g[j]]
    OBVIOUS
  <2> HIDE DEF g, N
  <2> QED BY <1>2, <2>1
<1> HIDE DEF g
<1>4. Lemmas(ps) = [j \in 0 .. 2 * n - 2 |->
                      IF j = 0 THEN <<>> ELSE <<N[Sibling(j)]>> \o Lemmas(ps)[Parent(j)]]
  BY <1>3 DEF Lemmas
<1> DEFINE L == Lemmas(ps)
<1> HIDE DEF L, N
<1>5. L = [j \in 0 .. 2 * n - 2 |-> IF j = 0 THEN <<>> ELSE <<N[Sibling(j)]>> \o L[Parent(j)]]
  BY <1>4 DEF L
<1>6. ASSUME NEW j \in 0 .. 2 * n - 2
      PROVE  L[j] = IF j = 0 THEN <<>> ELSE <<N[Sibling(j)]>> \o L[Parent(j)]
  BY <1>5
<1> QED BY <1>6 DEF LemmaIs, L, N

\* A turn of verify.
ClimbIs(f, p, k) ==
  f[k] = IF k = 0 THEN [index |-> p.index, node |-> HashLeaf(p.point)]
         ELSE [index |-> IF f[k - 1].index = 0 THEN -1 ELSE Parent(f[k - 1].index),
               node |-> IF IsLeft(f[k - 1].index) THEN Merge(f[k - 1].node, p.lemmas[k])
                                                  ELSE Merge(p.lemmas[k], f[k - 1].node)]

LEMMA ClimbFill ==
  ASSUME NEW p, NEW m \in Nat
  PROVE  \E f : \A k \in 0 .. m : ClimbIs(f, p, k)
<1> DEFINE T == {l \in Nat : \E f : \A k \in 0 .. l : ClimbIs(f, p, k)}
           c == [index |-> p.index, node |-> HashLeaf(p.point)]
<1>1. 0 \in T
  <2> DEFINE f == [k \in 0 .. 0 |-> c]
  <2>1. f[0] = c
    OBVIOUS
  <2> HIDE DEF f
  <2>2. \A k \in 0 .. 0 : ClimbIs(f, p, k)
    BY <2>1 DEF ClimbIs
  <2> QED BY <2>2
<1>2. ASSUME NEW l \in T PROVE l + 1 \in T
  <2>1. PICK f : \A k \in 0 .. l : ClimbIs(f, p, k)
    OBVIOUS
  <2> DEFINE v == [index |-> IF f[l].index = 0 THEN -1 ELSE Parent(f[l].index),
                   node |-> IF IsLeft(f[l].index) THEN Merge(f[l].node, p.lemmas[l + 1])
                                                  ELSE Merge(p.lemmas[l + 1], f[l].node)]
             g == [k \in 0 .. l + 1 |-> IF k = l + 1 THEN v ELSE f[k]]
  <2>2. ASSUME NEW k \in 0 .. l + 1 PROVE ClimbIs(g, p, k)
    <3>1. k # 0 => g[k - 1] = f[k - 1]
      OBVIOUS
    <3>2. CASE k = l + 1
      <4>1. g[k] = v /\ k # 0 /\ k - 1 = l
        BY <3>2
      <4> HIDE DEF g
      <4> QED BY <3>1, <3>2, <4>1 DEF ClimbIs
    <3>3. CASE k # l + 1
      <4>1. g[k] = f[k] /\ k \in 0 .. l
        BY <3>3
      <4>2. ClimbIs(f, p, k)
        BY <2>1, <4>1
      <4> HIDE DEF g
      <4> QED BY <3>1, <4>1, <4>2 DEF ClimbIs
    <3> QED BY <3>2, <3>3
  <2> HIDE DEF g
  <2> QED BY <2>2
<1>3. T = Nat
  <2> HIDE DEF T
  <2>1. T \in SUBSET Nat
    BY DEF T
  <2> QED BY <1>1, <1>2, <2>1, NatSetInduction
<1> QED BY <1>3

LEMMA ClimbAre ==
  ASSUME NEW p, NEW m \in Nat, Len(p.lemmas) = m
  PROVE  \A k \in 0 .. m : ClimbIs(Climb(p), p, k)
<1>1. PICK f : \A k \in 0 .. m : ClimbIs(f, p, k)
  BY ClimbFill
<1> DEFINE g == [k \in 0 .. m |-> f[k]]
           E(h, k) == IF k = 0 THEN [index |-> p.index, node |-> HashLeaf(p.point)]
                      ELSE [index |-> IF h[k - 1].index = 0 THEN -1 ELSE Parent(h[k - 1].index),
                            node |-> IF IsLeft(h[k - 1].index) THEN Merge(h[k - 1].node, p.lemmas[k])
                                                               ELSE Merge(p.lemmas[k], h[k - 1].node)]
<1>2. ASSUME NEW k \in 0 .. m PROVE g[k] = E(g, k)
  <2>1. ClimbIs(f, p, k) /\ g[k] = f[k] /\ (k # 0 => g[k - 1] = f[k - 1])
    BY <1>1
  <2> HIDE DEF g
  <2> QED BY <2>1 DEF ClimbIs
<1>3. g = [k \in 0 .. m |-> E(g, k)]
  <2>1. g = [k \in 0 .. m |-> g[k]]
    OBVIOUS
  <2> HIDE DEF g, E
  <2> QED BY <1>2, <2>1
<1> HIDE DEF g
<1>4. Climb(p) = [k \in 0 .. m |-> E(Climb(p), k)]
  BY <1>3 DEF Climb
<1> DEFINE C == Climb(p)
<1> HIDE DEF C
<1>5. C = [k \in 0 .. m |-> E(C, k)]
  BY <1>4 DEF C
<1>6. ASSUME NEW k \in 0 .. m PROVE C[k] = E(C, k)
  <2> HIDE DEF E
  <2> QED BY <1>5
<1> QED BY <1>6 DEF ClimbIs, C

\* A sequence with one more at its head.
LEMMA HeadFacts ==
  ASSUME NEW S, NEW x \in S, NEW s \in Seq(S)
  PROVE  /\ <<x>> \o s \in Seq(S) /\ Len(<<x>> \o s) = Len(s) + 1 /\ Len(s) \in Nat
         /\ (<<x>> \o s)[1] = x /\ \A i \in 1 .. Len(s) : (<<x>> \o s)[i + 1] = s[i]
OBVIOUS

\* Two sequences that agree everywhere are one.
LEMMA SameSequences ==
  ASSUME NEW S, NEW s \in Seq(S), NEW t \in Seq(S), Len(s) = Len(t), \A i \in 1 .. Len(s) : s[i] = t[i]
  PROVE  s = t
<1>1. s = [i \in 1 .. Len(s) |-> s[i]] /\ t = [i \in 1 .. Len(t) |-> t[i]]
  OBVIOUS
<1> QED BY <1>1

\* s is what t has after the k-th.
Rest(s, t, k) == Len(s) = Len(t) - k /\ \A i \in 1 .. Len(s) : s[i] = t[k + i]

LEMMA RestTurn ==
  ASSUME NEW S, NEW x \in S, NEW s \in Seq(S), NEW t \in Seq(S), NEW k \in Nat, k < Len(t)
  PROVE  Rest(<<x>> \o s, t, k) <=> x = t[k + 1] /\ Rest(s, t, k + 1)
<1> DEFINE u == <<x>> \o s
<1>1. Len(u) = Len(s) + 1 /\ Len(s) \in Nat /\ u[1] = x /\ (\A i \in 1 .. Len(s) : u[i + 1] = s[i]) /\ Len(t) \in Nat
  BY HeadFacts
<1> HIDE DEF u
<1>2. ASSUME Rest(u, t, k) PROVE x = t[k + 1] /\ Rest(s, t, k + 1)
  <2>1. Len(s) = Len(t) - (k + 1) /\ \A i \in 1 .. Len(s) + 1 : u[i] = t[k + i]
    <3>1. Len(s) + 1 = Len(t) - k /\ \A i \in 1 .. Len(u) : u[i] = t[k + i]
      BY <1>1, <1>2 DEF Rest
    <3>2. Len(s) = Len(t) - (k + 1)
      BY <1>1, <3>1
    <3> QED BY <1>1, <3>1, <3>2
  <2>2. u[1] = t[k + 1]
    BY <1>1, <2>1
  <2>3. ASSUME NEW i \in 1 .. Len(s) PROVE s[i] = t[(k + 1) + i]
    <3>1. u[i + 1] = t[k + (i + 1)] /\ k + (i + 1) = (k + 1) + i
      BY <1>1, <2>1
    <3> QED BY <1>1, <3>1
  <2> QED BY <1>1, <2>1, <2>2, <2>3 DEF Rest
<1>3. ASSUME x = t[k + 1], Rest(s, t, k + 1) PROVE Rest(u, t, k)
  <2>1. Len(u) = Len(t) - k
    BY <1>1, <1>3 DEF Rest
  <2>2. ASSUME NEW i \in 1 .. Len(u) PROVE u[i] = t[k + i]
    <3>1. CASE i = 1
      BY <1>1, <1>3, <3>1
    <3>2. CASE i # 1
      <4>1. i - 1 \in 1 .. Len(s) /\ (i - 1) + 1 = i /\ (k + 1) + (i - 1) = k + i
        BY <1>1, <3>2
      <4>2. u[(i - 1) + 1] = s[i - 1] /\ s[i - 1] = t[(k + 1) + (i - 1)]
        BY <1>1, <1>3, <4>1 DEF Rest
      <4> QED BY <4>1, <4>2
    <3> QED BY <3>1, <3>2
  <2> QED BY <2>1, <2>2 DEF Rest
<1> QED BY <1>2, <1>3 DEF u

\* All that is hashed in the tree.
NodesOf(ps) == {Nodes(ps)[j] : j \in 0 .. 2 * Len(ps) - 2}

LEMMA LemmasType ==
  ASSUME NEW ps, NEW n \in Nat \ {0}, Len(ps) = n, NEW S, NodesOf(ps) \subseteq S
  PROVE  \A j \in 0 .. 2 * n - 2 : Lemmas(ps)[j] \in Seq(S)
<1> DEFINE N == Nodes(ps)
           L == Lemmas(ps)
           T == {m \in Nat : \A j \in 0 .. 2 * n - 2 : j < m => L[j] \in Seq(S)}
<1>1. \A j \in 0 .. 2 * n - 2 : N[j] \in S /\ LemmaIs(L, N, j)
  BY LemmasAre DEF NodesOf
<1> HIDE DEF N, L
<1>2. 0 \in T
  OBVIOUS
<1>3. ASSUME NEW m \in T PROVE m + 1 \in T
  <2> SUFFICES ASSUME NEW j \in 0 .. 2 * n - 2, j < m + 1 PROVE L[j] \in Seq(S)
    OBVIOUS
  <2>1. CASE j = 0
    <3>1. L[j] = <<>>
      BY <1>1, <2>1 DEF LemmaIs
    <3> QED BY <3>1, EmptySeq
  <2>2. CASE j # 0
    <3>1. Parent(j) \in 0 .. 2 * n - 2 /\ Parent(j) < m /\ Sibling(j) \in 0 .. 2 * n - 2
      <4>1. j \in 1 .. 2 * n - 2 /\ m \in Nat
        BY <2>2
      <4>2. Parent(j) \in 0 .. j - 1 /\ Sibling(j) \in 0 .. 2 * n - 2
        BY <4>1, ParentFacts
      <4> QED BY <4>1, <4>2
    <3>2. L[Parent(j)] \in Seq(S) /\ N[Sibling(j)] \in S
      BY <1>1, <3>1
    <3>3. <<N[Sibling(j)]>> \o L[Parent(j)] \in Seq(S)
      BY <3>2, HeadFacts
    <3>4. L[j] = <<N[Sibling(j)]>> \o L[Parent(j)]
      BY <1>1, <2>2 DEF LemmaIs
    <3> QED BY <3>3, <3>4
  <2> QED BY <2>1, <2>2
<1>4. T = Nat
  <2> HIDE DEF T
  <2>1. T \in SUBSET Nat
    BY DEF T
  <2> QED BY <1>2, <1>3, <2>1, NatSetInduction
<1>5. ASSUME NEW j \in 0 .. 2 * n - 2 PROVE L[j] \in Seq(S)
  <2>1. j + 1 \in Nat /\ j < j + 1
    OBVIOUS
  <2>2. j + 1 \in T
    BY <1>4, <2>1
  <2> QED BY <2>1, <2>2
<1> QED BY <1>5 DEF L

\* The places of a proof that is on its way up the tree.
OnTheWay(ps, p, k) ==
  /\ Climb(p)[k].index \in 0 .. 2 * Len(ps) - 2
  /\ Climb(p)[k].node = Nodes(ps)[Climb(p)[k].index]
  /\ Rest(Lemmas(ps)[Climb(p)[k].index], p.lemmas, k)

\* One turn of verify, seen from below and from above.
LEMMA ClimbsUp ==
  ASSUME NEW ps, NEW n \in Nat \ {0}, Len(ps) = n, NEW S, NodesOf(ps) \subseteq S,
         NEW p, p.lemmas \in Seq(S), NEW k \in 0 .. Len(p.lemmas) - 1, OnTheWay(ps, p, k)
  PROVE  Climb(p)[k].index > 0 /\ OnTheWay(ps, p, k + 1)
<1> DEFINE N == Nodes(ps)
           L == Lemmas(ps)
           C == Climb(p)
           m == Len(p.lemmas)
           j == C[k].index
<1>1. m \in Nat
  OBVIOUS
<1>2. ClimbIs(C, p, k + 1)
  <2>1. \A l \in 0 .. m : ClimbIs(Climb(p), p, l)
    BY <1>1, ClimbAre
  <2>2. k + 1 \in 0 .. m
    BY <1>1
  <2> QED BY <2>1, <2>2
<1>3. /\ j \in 0 .. 2 * n - 2 /\ C[k].node = N[j] /\ Rest(L[j], p.lemmas, k)
  BY DEF OnTheWay
<1>4. LemmaIs(L, N, j) /\ NodeIs(N, ps, n, j)
  BY <1>3, LemmasAre, NodesAre
<1>5. j # 0
  <2>1. ASSUME j = 0 PROVE FALSE
    <3>1. Len(L[j]) = 0
      BY <1>4, <2>1, EmptySeq DEF LemmaIs
    <3>2. Len(L[j]) = m - k
      BY <1>3 DEF Rest
    <3> QED BY <1>1, <3>1, <3>2
  <2> QED BY <2>1
<1> DEFINE q == Parent(j)
<1>6. /\ q \in 0 .. 2 * n - 2 /\ q < n - 1 /\ Sibling(j) \in 0 .. 2 * n - 2
      /\ IsLeft(j) => j = 2 * q + 1 /\ Sibling(j) = 2 * q + 2
      /\ ~ IsLeft(j) => j = 2 * q + 2 /\ Sibling(j) = 2 * q + 1
  <2>1. j \in 1 .. 2 * n - 2
    BY <1>3, <1>5
  <2> HIDE DEF j
  <2>2. /\ q \in 0 .. j - 1 /\ q < n - 1 /\ Sibling(j) \in 0 .. 2 * n - 2
        /\ IsLeft(j) => j = 2 * q + 1 /\ Sibling(j) = 2 * q + 2
        /\ ~ IsLeft(j) => j = 2 * q + 2 /\ Sibling(j) = 2 * q + 1
    BY <2>1, ParentFacts
  <2> HIDE DEF q
  <2> QED BY <2>1, <2>2
<1>7. L[q] \in Seq(S) /\ N[Sibling(j)] \in S
  BY <1>6, LemmasType DEF NodesOf
<1>8. NodeIs(N, ps, n, q)
  BY <1>6, NodesAre
<1> HIDE DEF N, L, C, m, q
<1>9. L[j] = <<N[Sibling(j)]>> \o L[q]
  BY <1>4, <1>5 DEF LemmaIs, q
<1>10. N[Sibling(j)] = p.lemmas[k + 1] /\ Rest(L[q], p.lemmas, k + 1)
  <2> DEFINE x == N[Sibling(j)]
             s == L[q]
             t == p.lemmas
  <2>1. x \in S /\ s \in Seq(S) /\ t \in Seq(S) /\ k \in Nat /\ k < Len(t)
    BY <1>1, <1>7
  <2>2. Rest(<<x>> \o s, t, k)
    BY <1>3, <1>9
  <2> HIDE DEF x, s, t
  <2>3. x = t[k + 1] /\ Rest(s, t, k + 1)
    BY <2>1, <2>2, RestTurn
  <2> QED BY <2>3 DEF x, s, t
<1> HIDE DEF j
<1>11. C[k + 1] = [index |-> IF j = 0 THEN -1 ELSE Parent(j),
                   node  |-> IF IsLeft(j) THEN Merge(C[k].node, p.lemmas[k + 1])
                             ELSE Merge(p.lemmas[k + 1], C[k].node)]
  <2>1. k + 1 # 0 /\ (k + 1) - 1 = k
    BY <1>1
  <2> QED BY <1>2, <2>1 DEF ClimbIs, j
<1>12. C[k + 1].index = q
  BY <1>5, <1>11 DEF q
<1>13. C[k + 1].node = IF IsLeft(j) THEN Merge(N[j], p.lemmas[k + 1]) ELSE Merge(p.lemmas[k + 1], N[j])
  BY <1>3, <1>11
<1>14. N[q] = Merge(N[2 * q + 1], N[2 * q + 2])
  BY <1>6, <1>8 DEF NodeIs
<1>15. C[k + 1].node = N[q]
  BY <1>6, <1>10, <1>14, <1>13
<1>16. OnTheWay(ps, p, k + 1)
  BY <1>6, <1>10, <1>12, <1>15 DEF OnTheWay, N, L, C
<1> QED BY <1>3, <1>5, <1>16 DEF C, j

\* The hashes are free.
LEMMA HashesDiffer ==
  /\ \A x, l, r : HashLeaf(x) # Merge(l, r)
  /\ \A x, y : HashLeaf(x) = HashLeaf(y) => x = y
  /\ \A l, r, u, v : Merge(l, r) = Merge(u, v) => l = u /\ r = v
BY DEF HashLeaf, Merge

LEMMA ClimbsDown ==
  ASSUME NEW ps, NEW n \in Nat \ {0}, Len(ps) = n, NEW S, NodesOf(ps) \subseteq S,
         NEW p, p.lemmas \in Seq(S), NEW k \in 0 .. Len(p.lemmas) - 1, OnTheWay(ps, p, k + 1),
         Climb(p)[k].index \in Nat \ {0}
  PROVE  OnTheWay(ps, p, k)
<1> DEFINE N == Nodes(ps)
           L == Lemmas(ps)
           C == Climb(p)
           m == Len(p.lemmas)
           j == C[k].index
           q == C[k + 1].index
<1>1. m \in Nat
  OBVIOUS
<1>2. ClimbIs(C, p, k + 1)
  <2>1. \A l \in 0 .. m : ClimbIs(Climb(p), p, l)
    BY <1>1, ClimbAre
  <2>2. k + 1 \in 0 .. m
    BY <1>1
  <2> QED BY <2>1, <2>2
<1>3. /\ q \in 0 .. 2 * n - 2 /\ C[k + 1].node = N[q] /\ Rest(L[q], p.lemmas, k + 1)
  BY DEF OnTheWay
<1>4. NodeIs(N, ps, n, q) /\ L[q] \in Seq(S)
  BY <1>3, LemmasType, NodesAre
<1> HIDE DEF N, L, C, m
<1>5. q = Parent(j)
  BY <1>1, <1>2 DEF ClimbIs, C
<1>6. C[k + 1].node = IF IsLeft(j) THEN Merge(C[k].node, p.lemmas[k + 1]) ELSE Merge(p.lemmas[k + 1], C[k].node)
  BY <1>1, <1>2 DEF ClimbIs
<1>7. q < n - 1 /\ N[q] = Merge(N[2 * q + 1], N[2 * q + 2])
  BY <1>3, <1>4, <1>6, HashesDiffer DEF NodeIs
<1>8. j \in 1 .. 2 * n - 2
  <2>1. q = (j - 1) \div 2 /\ j \in Nat \ {0}
    BY <1>5 DEF Parent, C
  <2> HIDE DEF j, q
  <2> QED BY <1>3, <1>7, <2>1
<1>9. /\ Sibling(j) \in 0 .. 2 * n - 2
      /\ IsLeft(j) => j = 2 * q + 1 /\ Sibling(j) = 2 * q + 2
      /\ ~ IsLeft(j) => j = 2 * q + 2 /\ Sibling(j) = 2 * q + 1
  BY <1>5, <1>8, ParentFacts
<1>10. C[k].node = N[j] /\ p.lemmas[k + 1] = N[Sibling(j)]
  <2>1. CASE IsLeft(j)
    <3>1. Merge(C[k].node, p.lemmas[k + 1]) = Merge(N[j], N[Sibling(j)])
      BY <1>3, <1>6, <1>7, <1>9, <2>1
    <3> QED BY <3>1, HashesDiffer
  <2>2. CASE ~ IsLeft(j)
    <3>1. Merge(p.lemmas[k + 1], C[k].node) = Merge(N[Sibling(j)], N[j])
      BY <1>3, <1>6, <1>7, <1>9, <2>2
    <3> QED BY <3>1, HashesDiffer
  <2> QED BY <2>1, <2>2
<1>11. N[Sibling(j)] \in S
  BY <1>9 DEF NodesOf, N
<1>12. LemmaIs(L, N, j)
  BY <1>8, LemmasAre DEF L, N
<1>13. L[j] = <<N[Sibling(j)]>> \o L[q]
  BY <1>5, <1>8, <1>12 DEF LemmaIs
<1>14. Rest(L[j], p.lemmas, k)
  BY <1>3, <1>4, <1>10, <1>11, <1>13, RestTurn
<1> QED BY <1>8, <1>10, <1>14 DEF OnTheWay, N, L, C

\* verify accepts exactly the proofs that ProofOf makes, of any leaf.
LEMMA ProofsVerify ==
  ASSUME NEW ps, NEW n \in Nat \ {0}, Len(ps) = n, NEW S, NodesOf(ps) \subseteq S,
         NEW p, p.lemmas \in Seq(S), NEW i \in 1 .. n, p = ProofOf(ps, i)
  PROVE  VerifiesProof(p, RootOf(ps))
<1> DEFINE m == Len(p.lemmas)
           j == i + n - 2
           C == Climb(p)
<1>1. m \in Nat /\ j \in 0 .. 2 * n - 2 /\ j >= n - 1 /\ j - n + 2 = i
  OBVIOUS
<1>2. p.index = j /\ p.lemmas = Lemmas(ps)[j] /\ p.point = ps[i]
  BY DEF ProofOf
<1>3. OnTheWay(ps, p, 0)
  <2>1. ClimbIs(C, p, 0)
    BY <1>1, ClimbAre
  <2>2. C[0].index = j /\ C[0].node = HashLeaf(ps[i])
    BY <1>2, <2>1 DEF ClimbIs
  <2>3. NodeIs(Nodes(ps), ps, n, j)
    BY <1>1, NodesAre
  <2>4. Nodes(ps)[j] = HashLeaf(ps[i])
    BY <1>1, <2>3 DEF NodeIs
  <2>5. Rest(Lemmas(ps)[j], p.lemmas, 0)
    BY <1>1, <1>2 DEF Rest
  <2> QED BY <1>1, <2>2, <2>4, <2>5 DEF OnTheWay
<1> DEFINE T == {k \in Nat : k <= m => OnTheWay(ps, p, k)}
<1>4. T = Nat
  <2>1. 0 \in T
    BY <1>3
  <2>2. ASSUME NEW k \in T PROVE k + 1 \in T
    <3>1. k \in Nat /\ (k + 1 <= m => k \in 0 .. m - 1 /\ OnTheWay(ps, p, k))
      BY <1>1
    <3>2. k + 1 <= m => OnTheWay(ps, p, k + 1)
      BY <3>1, ClimbsUp
    <3> QED BY <3>1, <3>2
  <2> HIDE DEF T
  <2>3. T \in SUBSET Nat
    BY DEF T
  <2> QED BY <2>1, <2>2, <2>3, NatSetInduction
<1>5. \A k \in 0 .. m : OnTheWay(ps, p, k)
  BY <1>1, <1>4
<1>6. \A k \in 0 .. m - 1 : C[k].index > 0
  <2> SUFFICES ASSUME NEW k \in 0 .. m - 1 PROVE C[k].index > 0
    OBVIOUS
  <2>1. OnTheWay(ps, p, k)
    BY <1>1, <1>5
  <2> QED BY <2>1, ClimbsUp
<1> DEFINE q == C[m].index
<1>7. q \in 0 .. 2 * n - 2 /\ C[m].node = Nodes(ps)[q] /\ Rest(Lemmas(ps)[q], p.lemmas, m)
  BY <1>1, <1>5 DEF OnTheWay
<1>8. q = 0
  <2>1. Len(Lemmas(ps)[q]) = 0
    BY <1>1, <1>7 DEF Rest
  <2>2. ASSUME q # 0 PROVE FALSE
    <3> HIDE DEF q
    <3>1. LemmaIs(Lemmas(ps), Nodes(ps), q) /\ q \in 1 .. 2 * n - 2
      BY <1>7, <2>2, LemmasAre
    <3>2. Parent(q) \in 0 .. q - 1 /\ Sibling(q) \in 0 .. 2 * n - 2
      BY <3>1, ParentFacts
    <3>3. Parent(q) \in 0 .. 2 * n - 2
      BY <3>1, <3>2
    <3>4. Lemmas(ps)[Parent(q)] \in Seq(S) /\ Nodes(ps)[Sibling(q)] \in S
      BY <3>2, <3>3, LemmasType DEF NodesOf
    <3>5. Lemmas(ps)[q] = <<Nodes(ps)[Sibling(q)]>> \o Lemmas(ps)[Parent(q)]
      BY <3>1 DEF LemmaIs
    <3>6. Len(Lemmas(ps)[q]) = Len(Lemmas(ps)[Parent(q)]) + 1 /\ Len(Lemmas(ps)[Parent(q)]) \in Nat
      BY <3>4, <3>5, HeadFacts
    <3> QED BY <2>1, <3>6
  <2> QED BY <2>2
<1>9. C[m] = [index |-> 0, node |-> RootOf(ps)]
  <2>1. ClimbIs(C, p, m)
    BY <1>1, ClimbAre
  <2>2. C[m] = [index |-> C[m].index, node |-> C[m].node]
    BY <2>1 DEF ClimbIs
  <2> QED BY <1>7, <1>8, <2>2 DEF RootOf
<1> QED BY <1>6, <1>9 DEF VerifiesProof

LEMMA OnlyProofsVerify ==
  ASSUME NEW ps, NEW n \in Nat \ {0}, Len(ps) = n, NEW S, NodesOf(ps) \subseteq S,
         NEW P, NEW p \in [index : Nat, lemmas : Seq(S), point : P],
         VerifiesProof(p, RootOf(ps))
  PROVE  \E i \in 1 .. n : p = ProofOf(ps, i)
<1> DEFINE m == Len(p.lemmas)
           C == Climb(p)
<1>1. m \in Nat /\ p.lemmas \in Seq(S) /\ p.index \in Nat
  OBVIOUS
<1>2. (\A k \in 0 .. m - 1 : C[k].index > 0) /\ C[m] = [index |-> 0, node |-> RootOf(ps)]
  BY DEF VerifiesProof
<1>3. \A k \in 0 .. m : ClimbIs(C, p, k)
  BY <1>1, ClimbAre
<1>4. \A k \in 0 .. m - 1 : C[k].index \in Nat \ {0}
  <2> HIDE DEF C
  <2> DEFINE T == {k \in Nat : k <= m - 1 => C[k].index \in Nat \ {0}}
  <2>1. 0 \in T
    <3>1. ClimbIs(C, p, 0)
      <4>1. 0 \in 0 .. m
        BY <1>1
      <4> QED BY <1>3, <4>1
    <3>2. C[0] = [index |-> p.index, node |-> HashLeaf(p.point)]
      BY <3>1 DEF ClimbIs
    <3>3. C[0].index = p.index
      BY <3>2
    <3>4. 0 <= m - 1 => 0 \in 0 .. m - 1
      BY <1>1
    <3> QED BY <1>1, <1>2, <3>3, <3>4
  <2>2. ASSUME NEW k \in T PROVE k + 1 \in T
    <3> SUFFICES ASSUME k + 1 <= m - 1 PROVE C[k + 1].index \in Nat \ {0}
      OBVIOUS
    <3>1. k \in Nat /\ C[k].index \in Nat \ {0} /\ k + 1 \in 0 .. m - 1 /\ k + 1 \in 0 .. m
      BY <1>1
    <3>2. ClimbIs(C, p, k + 1)
      BY <1>3, <3>1
    <3>3. C[k + 1].index = Parent(C[k].index)
      BY <3>1, <3>2 DEF ClimbIs
    <3>4. C[k + 1].index > 0
      BY <1>2, <3>1
    <3>5. Parent(C[k].index) \in Int
      BY <3>1 DEF Parent
    <3> QED BY <3>3, <3>4, <3>5
  <2>3. T = Nat
    <3> HIDE DEF T
    <3>1. T \in SUBSET Nat
      BY DEF T
    <3> QED BY <2>1, <2>2, <3>1, NatSetInduction
  <2> QED BY <1>1, <2>3
<1>5. OnTheWay(ps, p, m)
  <2>1. LemmaIs(Lemmas(ps), Nodes(ps), 0)
    BY LemmasAre
  <2>2. Lemmas(ps)[0] = <<>>
    BY <2>1 DEF LemmaIs
  <2>3. Rest(Lemmas(ps)[0], p.lemmas, m)
    BY <1>1, <2>2, EmptySeq DEF Rest
  <2>4. C[m].index = 0 /\ C[m].node = Nodes(ps)[0] /\ 0 \in 0 .. 2 * n - 2
    BY <1>2 DEF RootOf
  <2> QED BY <2>3, <2>4 DEF OnTheWay
<1> DEFINE U == {k \in Nat : k <= m => OnTheWay(ps, p, m - k)}
<1>6. U = Nat
  <2>1. 0 \in U
    <3>1. m - 0 = m
      BY <1>1
    <3> QED BY <1>5, <3>1
  <2>2. ASSUME NEW k \in U PROVE k + 1 \in U
    <3> SUFFICES ASSUME k + 1 <= m PROVE OnTheWay(ps, p, m - (k + 1))
      OBVIOUS
    <3> DEFINE l == m - (k + 1)
    <3>1. k \in Nat /\ l \in 0 .. m - 1 /\ l + 1 = m - k /\ OnTheWay(ps, p, m - k)
      BY <1>1
    <3>2. C[l].index \in Nat \ {0} /\ OnTheWay(ps, p, l + 1)
      BY <1>4, <3>1
    <3> HIDE DEF l
    <3> QED BY <1>1, <3>1, <3>2, ClimbsDown DEF l
  <2> HIDE DEF U
  <2>3. U \in SUBSET Nat
    BY DEF U
  <2> QED BY <2>1, <2>2, <2>3, NatSetInduction
<1>7. OnTheWay(ps, p, 0)
  <2>1. m \in U /\ m - m = 0
    BY <1>1, <1>6
  <2> QED BY <1>1, <2>1
<1> DEFINE j == p.index
           i == j - n + 2
<1>8. C[0].index = j /\ C[0].node = HashLeaf(p.point)
  <2>1. ClimbIs(C, p, 0)
    BY <1>1, <1>3
  <2> QED BY <2>1 DEF ClimbIs
<1>9. j \in 0 .. 2 * n - 2 /\ Nodes(ps)[j] = HashLeaf(p.point) /\ Rest(Lemmas(ps)[j], p.lemmas, 0)
  BY <1>7, <1>8 DEF OnTheWay
<1>10. NodeIs(Nodes(ps), ps, n, j)
  BY <1>9, NodesAre
<1> HIDE DEF j
<1>11. j >= n - 1 /\ ps[i] = p.point
  <2>1. CASE j >= n - 1
    <3>1. HashLeaf(ps[i]) = HashLeaf(p.point)
      BY <1>9, <1>10, <2>1 DEF NodeIs
    <3> QED BY <2>1, <3>1, HashesDiffer
  <2>2. CASE ~ (j >= n - 1)
    <3>1. Merge(Nodes(ps)[2 * j + 1], Nodes(ps)[2 * j + 2]) = HashLeaf(p.point)
      BY <1>9, <1>10, <2>2 DEF NodeIs
    <3> QED BY <3>1, HashesDiffer
  <2> QED BY <2>1, <2>2
<1>12. Lemmas(ps)[j] = p.lemmas
  <2>1. Lemmas(ps)[j] \in Seq(S)
    BY <1>9, LemmasType
  <2>2. Len(Lemmas(ps)[j]) = Len(p.lemmas) /\ \A k \in 1 .. Len(Lemmas(ps)[j]) : Lemmas(ps)[j][k] = p.lemmas[k]
    <3>1. Len(Lemmas(ps)[j]) = Len(p.lemmas) - 0 /\ \A k \in 1 .. Len(Lemmas(ps)[j]) : Lemmas(ps)[j][k] = p.lemmas[0 + k]
      BY <1>9 DEF Rest
    <3> QED BY <1>1, <2>1, <3>1
  <2> QED BY <1>1, <2>1, <2>2, SameSequences
<1>13. i \in 1 .. n /\ i + n - 2 = j
  BY <1>1, <1>9, <1>11
<1>14. p = [index |-> j, lemmas |-> p.lemmas, point |-> p.point]
  BY DEF j
<1> HIDE DEF i
<1>15. p = ProofOf(ps, i)
  BY <1>11, <1>12, <1>13, <1>14 DEF ProofOf
<1> QED BY <1>13, <1>15

\* Everything hashed that a proof of the tree can hold.
HashedAlike(ps) == NodesOf(ps) \cup {HashLeaf(x) : x \in Leaves}
ProofShapes(ps) == [index : Nat, lemmas : Seq(HashedAlike(ps)), point : Leaves]

TreeInv ==
  /\ leaves = <<>> \/ leaves \in LeafTrees
  /\ merkleProof # None => leaves \in LeafTrees /\ merkleProof \in ProofShapes(leaves)
  /\ accepted # None => /\ leaves \in LeafTrees /\ merkleProof \in ProofShapes(leaves)
                        /\ merkleProof # None
                        /\ accepted = VerifiesProof(merkleProof, RootOf(leaves))

WasAsked(q) == q \in DOMAIN digests
CodeInv ==
  verified # None => /\ WasAsked(Question("hmac", verified.key, verified.n)) /\ verified.number \in Nat
                     /\ verified.ok =
                          Matches(digests[Question("hmac", verified.key, verified.n)], verified.number)

CountedHashes == \A q \in DOMAIN digests : q[1] = "digest" => digests[q] \in Nat
ScalarInv == counter \in Nat /\ CountedHashes /\ FirstBelowOrder

HashInv == TreeInv /\ CodeInv /\ ScalarInv

LEMMA TreeFacts ==
  ASSUME NEW ps \in LeafTrees
  PROVE  /\ Len(ps) \in Nat \ {0} /\ DOMAIN ps = 1 .. Len(ps) /\ ps # <<>>
         /\ \A i \in 1 .. Len(ps) : ps[i] \in Leaves
<1>1. PICK n \in 1 .. MaxLeaves : ps \in [1 .. n -> Leaves]
  BY DEF LeafTrees
<1>2. n \in Nat \ {0}
  BY HashAssumption
<1>3. ps \in Seq(Leaves) /\ Len(ps) = n
  BY <1>1, <1>2
<1>4. 1 \in DOMAIN ps
  BY <1>1, <1>2
<1> QED BY <1>1, <1>2, <1>3, <1>4, EmptySeq

LEMMA BuiltProofs ==
  ASSUME NEW ps \in LeafTrees, NEW first \in DOMAIN ps
  PROVE  ProofOf(ps, first) \in ProofShapes(ps)
<1> DEFINE n == Len(ps)
           j == first + n - 2
<1>1. n \in Nat \ {0} /\ first \in 1 .. n /\ ps[first] \in Leaves
  BY TreeFacts
<1>2. j \in 0 .. 2 * n - 2 /\ j \in Nat
  BY <1>1
<1>3. Lemmas(ps)[j] \in Seq(HashedAlike(ps))
  <2>1. NodesOf(ps) \subseteq HashedAlike(ps)
    BY DEF HashedAlike
  <2> HIDE DEF j
  <2> QED BY <1>1, <1>2, <2>1, LemmasType
<1> HIDE DEF j
<1>4. ProofOf(ps, first) = [index |-> j, lemmas |-> Lemmas(ps)[j], point |-> ps[first]]
  BY DEF ProofOf, j
<1> QED BY <1>1, <1>2, <1>3, <1>4 DEF ProofShapes

LEMMA AlteredShapes ==
  ASSUME NEW ps, merkleProof \in ProofShapes(ps), NEW p \in AlteredProofs
  PROVE  p \in ProofShapes(ps)
<1> DEFINE S == HashedAlike(ps)
           l == merkleProof.lemmas
<1>1. merkleProof \in [index : Nat, lemmas : Seq(S), point : Leaves]
  BY DEF ProofShapes
<1>2. l \in Seq(S) /\ \A x \in Leaves : HashLeaf(x) \in S
  BY <1>1 DEF HashedAlike
<1>3. CASE p \in {[merkleProof EXCEPT !.index = i] : i \in 0..(2 * MaxLeaves - 2)}
  BY <1>1, <1>3 DEF ProofShapes
<1>4. CASE p \in {[merkleProof EXCEPT !.point = x] : x \in Leaves}
  BY <1>1, <1>4 DEF ProofShapes
<1>5. CASE p \in {[merkleProof EXCEPT !.lemmas[k] = HashLeaf(x)] : k \in DOMAIN merkleProof.lemmas, x \in Leaves}
  <2>1. PICK k \in DOMAIN l, x \in Leaves : p = [merkleProof EXCEPT !.lemmas[k] = HashLeaf(x)]
    BY <1>5
  <2>2. p = [merkleProof EXCEPT !.lemmas = [l EXCEPT ![k] = HashLeaf(x)]]
    BY <2>1
  <2>3. [l EXCEPT ![k] = HashLeaf(x)] \in Seq(S)
    <3> HIDE DEF l, S
    <3>1. HashLeaf(x) \in S
      BY <1>2
    <3> QED BY <1>2, <3>1
  <2> HIDE DEF l, S
  <2> QED BY <1>1, <2>2, <2>3 DEF ProofShapes, S
<1>6. CASE p \in {[merkleProof EXCEPT !.lemmas = SubSeq(@, 1, k)] : k \in 0..Len(merkleProof.lemmas)}
  <2>1. PICK k \in 0 .. Len(l) : p = [merkleProof EXCEPT !.lemmas = SubSeq(l, 1, k)]
    BY <1>6
  <2>2. SubSeq(l, 1, k) \in Seq(S)
    <3> HIDE DEF l, S
    <3> QED BY <1>2
  <2> HIDE DEF l, S
  <2> QED BY <1>1, <2>1, <2>2 DEF ProofShapes, S
<1> QED BY <1>3, <1>4, <1>5, <1>6 DEF AlteredProofs

LEMMA TreeStep == HashInv /\ [HashNext]_hashVars => TreeInv'
<1> SUFFICES ASSUME HashInv, [HashNext]_hashVars PROVE TreeInv'
  OBVIOUS
<1>1. TreeInv
  BY DEF HashInv
<1>2. CASE UNCHANGED treeVars
  <2>1. leaves' = leaves /\ merkleProof' = merkleProof /\ accepted' = accepted
    BY <1>2 DEF treeVars
  <2>2. ProofShapes(leaves)' = ProofShapes(leaves)
    BY <2>1 DEF ProofShapes, HashedAlike, NodesOf, Nodes
  <2>3. VerifiesProof(merkleProof, RootOf(leaves))' = VerifiesProof(merkleProof, RootOf(leaves))
    <3>1. RootOf(leaves)' = RootOf(leaves)
      BY <2>1 DEF RootOf, Nodes
    <3>2. Climb(merkleProof)' = Climb(merkleProof)
      BY <2>1 DEF Climb
    <3> QED BY <2>1, <3>1, <3>2, SMTT(60) DEF VerifiesProof
  <2> QED BY <1>1, <2>1, <2>2, <2>3 DEF TreeInv
<1>3. ASSUME NEW ps \in LeafTrees, CreateTree(ps) PROVE TreeInv'
  <2>1. leaves = <<>> /\ leaves' = ps /\ merkleProof' = merkleProof /\ accepted' = accepted
    BY <1>3 DEF CreateTree
  <2>2. leaves \notin LeafTrees
    BY <2>1, TreeFacts
  <2>3. merkleProof = None /\ accepted = None
    BY <1>1, <2>2 DEF TreeInv
  <2> QED BY <1>3, <2>1, <2>3 DEF TreeInv
<1>4. ASSUME NEW point \in Leaves, BuildProof(point) PROVE TreeInv'
  <2>1. /\ leaves # <<>> /\ merkleProof = None /\ leaves' = leaves /\ accepted' = accepted
        /\ \E first \in DOMAIN leaves : merkleProof' = ProofOf(leaves, first)
    BY <1>4 DEF BuildProof
  <2>2. leaves \in LeafTrees /\ accepted = None
    BY <1>1, <2>1 DEF TreeInv
  <2>3. merkleProof' \in ProofShapes(leaves)
    BY <2>1, <2>2, BuiltProofs
  <2>4. ProofShapes(leaves)' = ProofShapes(leaves)
    BY <2>1 DEF ProofShapes, HashedAlike, NodesOf, Nodes
  <2> QED BY <2>1, <2>2, <2>3, <2>4 DEF TreeInv
<1>5. CASE AlterProof
  <2>1. /\ merkleProof # None /\ accepted = None /\ leaves' = leaves /\ accepted' = accepted
        /\ merkleProof' \in AlteredProofs
    BY <1>5 DEF AlterProof
  <2>2. leaves \in LeafTrees /\ merkleProof \in ProofShapes(leaves)
    BY <1>1, <2>1 DEF TreeInv
  <2>3. merkleProof' \in ProofShapes(leaves)
    BY <2>1, <2>2, AlteredShapes
  <2>4. ProofShapes(leaves)' = ProofShapes(leaves)
    BY <2>1 DEF ProofShapes, HashedAlike, NodesOf, Nodes
  <2> QED BY <2>1, <2>2, <2>3, <2>4 DEF TreeInv
<1>6. CASE VerifyProof
  <2>1. /\ merkleProof # None /\ leaves' = leaves /\ merkleProof' = merkleProof
        /\ accepted' = VerifiesProof(merkleProof, RootOf(leaves))
    BY <1>6 DEF VerifyProof
  <2>2. leaves \in LeafTrees /\ merkleProof \in ProofShapes(leaves)
    BY <1>1, <2>1 DEF TreeInv
  <2>3. ProofShapes(leaves)' = ProofShapes(leaves)
    BY <2>1 DEF ProofShapes, HashedAlike, NodesOf, Nodes
  <2>4. VerifiesProof(merkleProof, RootOf(leaves))' = VerifiesProof(merkleProof, RootOf(leaves))
    <3>1. RootOf(leaves)' = RootOf(leaves)
      BY <2>1 DEF RootOf, Nodes
    <3>2. Climb(merkleProof)' = Climb(merkleProof)
      BY <2>1 DEF Climb
    <3> QED BY <2>1, <3>1, <3>2, SMTT(60) DEF VerifiesProof
  <2> QED BY <2>1, <2>2, <2>3, <2>4 DEF TreeInv
<1>7. ASSUME NEW k \in Inputs, NEW n \in Inputs, Code(k, n) PROVE UNCHANGED treeVars
  BY <1>7 DEF Code
<1>8. ASSUME NEW k \in Inputs, NEW n \in Inputs, NEW number, VerifyBigint(k, n, number) PROVE UNCHANGED treeVars
  BY <1>8 DEF VerifyBigint
<1>9. ScalarTurn => UNCHANGED treeVars
  BY DEF ScalarTurn
<1>10. CASE UNCHANGED hashVars
  BY <1>2, <1>10 DEF hashVars
<1> QED BY <1>2, <1>3, <1>4, <1>5, <1>6, <1>7, <1>8, <1>9, <1>10 DEF HashNext

\* What was answered stays.
LEMMA AnswersStay ==
  ASSUME NEW q, NEW all, NEW d \in Digests(q, all), digests' = WithDigest(q, d), NEW r, WasAsked(r)
  PROVE  r \in DOMAIN digests' /\ digests'[r] = digests[r]
BY DEF Digests, WithDigest, WasAsked

LEMMA CodeStep == HashInv /\ [HashNext]_hashVars => CodeInv'
<1> SUFFICES ASSUME HashInv, [HashNext]_hashVars PROVE CodeInv'
  OBVIOUS
<1>1. CodeInv
  BY DEF HashInv
<1>2. ASSUME verified' = verified, NEW q, NEW all, NEW d \in Digests(q, all), digests' = WithDigest(q, d)
      PROVE  CodeInv'
  <2> SUFFICES ASSUME verified # None
               PROVE  /\ Question("hmac", verified.key, verified.n) \in DOMAIN digests' /\ verified.number \in Nat
                      /\ verified.ok = Matches(digests'[Question("hmac", verified.key, verified.n)], verified.number)
    BY <1>2 DEF CodeInv, WasAsked, Question, ToBytes, Matches
  <2> DEFINE r == Question("hmac", verified.key, verified.n)
  <2>1. WasAsked(r) /\ verified.number \in Nat /\ verified.ok = Matches(digests[r], verified.number)
    BY <1>1 DEF CodeInv
  <2> HIDE DEF r
  <2>2. r \in DOMAIN digests' /\ digests'[r] = digests[r]
    BY <1>2, <2>1, AnswersStay
  <2> QED BY <2>1, <2>2 DEF r
<1>3. CASE UNCHANGED <<digests, verified>>
  BY <1>1, <1>3 DEF CodeInv, WasAsked, Question, Matches
<1>4. ASSUME NEW k \in Inputs, NEW n \in Inputs, Code(k, n) PROVE CodeInv'
  BY <1>2, <1>4 DEF Code
<1>5. ASSUME NEW k \in Inputs, NEW n \in Inputs, NEW number \in 0..(BaseTo(CodeLength) - 1), VerifyBigint(k, n, number)
      PROVE  CodeInv'
  <2> DEFINE q == Question("hmac", k, n)
  <2>1. PICK mac \in Digests(q, Codes) :
          /\ digests' = WithDigest(q, mac)
          /\ verified' = [key |-> k, n |-> n, number |-> number, ok |-> Matches(mac, number)]
    BY <1>5 DEF VerifyBigint
  <2>2. verified'.key = k /\ verified'.n = n /\ verified'.number = number /\ verified'.ok = Matches(mac, number)
    BY <2>1
  <2> HIDE DEF q
  <2>3. q \in DOMAIN digests' /\ digests'[q] = mac
    BY <2>1 DEF WithDigest
  <2>4. number \in Nat
    OBVIOUS
  <2> QED BY <2>2, <2>3, <2>4 DEF CodeInv, WasAsked, q
<1>6. CASE ScalarTurn
  BY <1>2, <1>6 DEF ScalarTurn, codeVars
<1>7. ASSUME NEW ps, CreateTree(ps) PROVE CodeInv'
  BY <1>3, <1>7 DEF CreateTree, codeVars
<1>8. ASSUME NEW point, BuildProof(point) PROVE CodeInv'
  BY <1>3, <1>8 DEF BuildProof, codeVars
<1>9. CASE AlterProof
  BY <1>3, <1>9 DEF AlterProof, codeVars
<1>10. CASE VerifyProof
  BY <1>3, <1>10 DEF VerifyProof, codeVars
<1>11. CASE UNCHANGED hashVars
  BY <1>3, <1>11 DEF hashVars, codeVars
<1> QED BY <1>4, <1>5, <1>6, <1>7, <1>8, <1>9, <1>10, <1>11 DEF HashNext

LEMMA ScalarStep == HashInv /\ [HashNext]_hashVars => ScalarInv'
<1> SUFFICES ASSUME HashInv, [HashNext]_hashVars PROVE ScalarInv'
  OBVIOUS
<1>1. /\ counter \in Nat
      /\ \A i \in 0..(counter - 1) : WasAsked(Counted(i)) /\ digests[Counted(i)] >= Order
      /\ scalar # None => /\ WasAsked(Counted(counter))
                          /\ scalar = digests[Counted(counter)] /\ scalar < Order
      /\ CountedHashes
  BY DEF HashInv, ScalarInv, FirstBelowOrder, WasAsked
<1>2. ASSUME UNCHANGED scalarVars, NEW q, NEW all, NEW d \in Digests(q, all), digests' = WithDigest(q, d),
             q[1] = "hmac"
      PROVE  ScalarInv'
  <2>1. counter' = counter /\ scalar' = scalar
    BY <1>2 DEF scalarVars
  <2>2. \A r : WasAsked(r) => r \in DOMAIN digests' /\ digests'[r] = digests[r]
    BY <1>2, AnswersStay
  <2>3. \A i : Counted(i)' = Counted(i)
    BY DEF Counted, Question, ToBytes
  <2>4. CountedHashes'
    BY <1>1, <1>2 DEF CountedHashes, WithDigest
  <2>5. FirstBelowOrder'
    BY <1>1, <2>1, <2>2, <2>3 DEF FirstBelowOrder
  <2> QED BY <1>1, <2>1, <2>4, <2>5 DEF ScalarInv
<1>3. CASE UNCHANGED <<digests, scalarVars>>
  BY <1>1, <1>3 DEF ScalarInv, CountedHashes, FirstBelowOrder, WasAsked, scalarVars, Counted, Question, ToBytes
<1>4. ASSUME NEW k \in Inputs, NEW n \in Inputs, Code(k, n) PROVE ScalarInv'
  <2>1. Question("hmac", k, n)[1] = "hmac"
    BY DEF Question
  <2> QED BY <1>2, <1>4, <2>1 DEF Code
<1>5. ASSUME NEW k \in Inputs, NEW n \in Inputs, NEW number, VerifyBigint(k, n, number) PROVE ScalarInv'
  <2>1. Question("hmac", k, n)[1] = "hmac"
    BY DEF Question
  <2> QED BY <1>2, <1>5, <2>1 DEF VerifyBigint
<1>6. CASE ScalarTurn
  <2> DEFINE q == Counted(counter)
  <2>1. PICK hash \in Digests(q, 0..(Order + 1)) :
          /\ digests' = WithDigest(q, hash)
          /\ IF hash < Order THEN scalar' = hash /\ UNCHANGED counter
                             ELSE counter' = counter + 1 /\ UNCHANGED scalar
    BY <1>6 DEF ScalarTurn, BelowOrder
  <2>2. scalar = None
    BY <1>6 DEF ScalarTurn
  <2>3. \A r : WasAsked(r) => r \in DOMAIN digests' /\ digests'[r] = digests[r]
    BY <2>1, AnswersStay
  <2>4. q \in DOMAIN digests' /\ digests'[q] = hash
    BY <2>1 DEF WithDigest
  <2>5. \A i : Counted(i)' = Counted(i)
    BY DEF Counted, Question, ToBytes
  <2>6. \A i \in 0..(counter - 1) : Counted(i) \in DOMAIN digests' /\ digests'[Counted(i)] >= Order
    BY <1>1, <2>3
  <2> HIDE DEF q
  <2>9. hash \in Nat
    <3>1. q[1] = "digest"
      BY DEF q, Counted, Question
    <3>2. CASE q \in DOMAIN digests
      BY <1>1, <2>1, <3>1, <3>2 DEF CountedHashes, Digests
    <3>3. CASE q \notin DOMAIN digests
      <4>1. hash \in 0..(Order + 1)
        BY <2>1, <3>3 DEF Digests
      <4> QED BY <4>1
    <3> QED BY <3>2, <3>3
  <2>10. CountedHashes'
    BY <1>1, <2>1, <2>9 DEF CountedHashes, WithDigest
  <2>7. CASE hash < Order
    <3>1. scalar' = hash /\ counter' = counter
      BY <2>1, <2>7
    <3> QED BY <1>1, <2>4, <2>5, <2>6, <2>7, <2>10, <3>1 DEF ScalarInv, FirstBelowOrder, q
  <2>8. CASE ~(hash < Order)
    <3>1. scalar' = scalar /\ counter' = counter + 1
      BY <2>1, <2>8
    <3>2. counter' \in Nat
      BY <1>1, <3>1
    <3>3. hash >= Order
      BY <2>8, <2>9, OrderFacts
    <3>4. ASSUME NEW i \in 0..(counter' - 1)
          PROVE  Counted(i) \in DOMAIN digests' /\ digests'[Counted(i)] >= Order
      <4>1. i \in 0..(counter - 1) \/ i = counter
        BY <1>1, <3>1, <3>4
      <4> QED BY <2>4, <2>6, <3>3, <4>1 DEF q
    <3> QED BY <2>2, <2>5, <2>10, <3>1, <3>2, <3>4 DEF ScalarInv, FirstBelowOrder
  <2> QED BY <2>7, <2>8
<1>7. ASSUME NEW ps, CreateTree(ps) PROVE ScalarInv'
  BY <1>3, <1>7 DEF CreateTree
<1>8. ASSUME NEW point, BuildProof(point) PROVE ScalarInv'
  BY <1>3, <1>8 DEF BuildProof
<1>9. CASE AlterProof
  BY <1>3, <1>9 DEF AlterProof
<1>10. CASE VerifyProof
  BY <1>3, <1>10 DEF VerifyProof
<1>11. CASE UNCHANGED hashVars
  BY <1>3, <1>11 DEF hashVars
<1> QED BY <1>4, <1>5, <1>6, <1>7, <1>8, <1>9, <1>10, <1>11 DEF HashNext

\* For every tree of any size, with equal leaves or not, and every proof altered
\* in one place, verify accepts exactly what build_proof gives for a leaf of the
\* tree; and an HMAC code verifies only for the key, number and value it was
\* computed of, whatever the oracle answers (merkle_tree.rs:39-79, ext.rs:145-166).
THEOREM HashesVerify == HashSpec => []HashesDecide
<1>1. HashInit => HashInv
  BY DEF HashInit, HashInv, TreeInv, CodeInv, ScalarInv, CountedHashes, FirstBelowOrder
<1>2. HashInv /\ [HashNext]_hashVars => HashInv'
  BY TreeStep, CodeStep, ScalarStep DEF HashInv
<1>3. HashInv => OnlyTheCodeVerifies
  <2> SUFFICES ASSUME HashInv, verified # None, verified.ok
               PROVE  verified.number = FromBytes(digests[Question("hmac", verified.key, verified.n)])
    BY DEF OnlyTheCodeVerifies
  <2>1. /\ verified.number \in Nat
        /\ digests[Question("hmac", verified.key, verified.n)] = ToBytes(verified.number)
    BY DEF HashInv, CodeInv, Matches
  <2>2. Abs(verified.number) = verified.number
    BY <2>1 DEF Abs
  <2> QED BY <2>1, <2>2, BytesRead
<1>4. HashInv => MerkleProofsDecide
  <2> SUFFICES ASSUME HashInv, accepted # None
               PROVE  accepted <=> \E i \in DOMAIN leaves : merkleProof = ProofOf(leaves, i)
    BY DEF MerkleProofsDecide
  <2> DEFINE n == Len(leaves)
             S == HashedAlike(leaves)
  <2>1. /\ leaves \in LeafTrees /\ merkleProof \in ProofShapes(leaves)
        /\ accepted = VerifiesProof(merkleProof, RootOf(leaves))
    BY DEF HashInv, TreeInv
  <2>2. n \in Nat \ {0} /\ DOMAIN leaves = 1 .. n
    BY <2>1, TreeFacts
  <2>3. NodesOf(leaves) \subseteq S
    BY DEF HashedAlike
  <2>4. merkleProof \in [index : Nat, lemmas : Seq(S), point : Leaves] /\ merkleProof.lemmas \in Seq(S)
    BY <2>1 DEF ProofShapes
  <2> HIDE DEF S
  <2>5. VerifiesProof(merkleProof, RootOf(leaves)) => \E i \in 1 .. n : merkleProof = ProofOf(leaves, i)
    BY <2>2, <2>3, <2>4, OnlyProofsVerify
  <2>6. ASSUME NEW i \in 1 .. n, merkleProof = ProofOf(leaves, i) PROVE VerifiesProof(merkleProof, RootOf(leaves))
    BY <2>2, <2>3, <2>4, <2>6, ProofsVerify
  <2> QED BY <2>1, <2>2, <2>5, <2>6
<1>5. HashInv => FirstBelowOrder
  BY DEF HashInv, ScalarInv
<1> QED BY <1>1, <1>2, <1>3, <1>4, <1>5, PTL DEF HashSpec, HashesDecide

-----------------------------------------------------------------------------
(* The circuit of a tree of keys. *)

\* The nodes of a level are as many as the leaves are, halved.
LEMMA Halved ==
  ASSUME NEW d \in Nat, NEW l \in 0 .. d
  PROVE  TwoTo[d] \div TwoTo[l] = TwoTo[d - l] /\ TwoTo[d - l] \in Nat \ {0}
<1> DEFINE A == TwoTo[d - l]
           B == TwoTo[l]
<1>1. d - l \in Nat /\ l \in Nat /\ (d - l) + l = d
  OBVIOUS
<1>2. TwoTo[d] = A * B
  BY <1>1, TwoToPlus
<1>3. A \in Nat \ {0} /\ B \in Nat \ {0}
  <2>1. TwoTo[d - l] \in Nat /\ d - l < TwoTo[d - l] /\ TwoTo[l] \in Nat /\ l < TwoTo[l]
    BY <1>1, TwoToFacts
  <2> QED BY <1>1, <2>1
<1> HIDE DEF A, B
<1>4. (A * B) \div B = A
  BY <1>3
<1> QED BY <1>2, <1>3, <1>4 DEF A, B

\* A level, from the one below it.
LevelIs(f, t, l) ==
  f[l] = IF l = 0 THEN [i \in DOMAIN t |-> LeafHash(t[i])]
         ELSE [i \in 1 .. (Len(t) \div TwoTo[l]) |-> TwoToOne(f[l - 1][2 * i - 1], f[l - 1][2 * i])]

LEMMA LevelsFill ==
  ASSUME NEW t, NEW m \in Nat
  PROVE  \E f : \A l \in 0 .. m : LevelIs(f, t, l)
<1> DEFINE T == {k \in Nat : \E f : \A l \in 0 .. k : LevelIs(f, t, l)}
           c == [i \in DOMAIN t |-> LeafHash(t[i])]
<1>1. 0 \in T
  <2> DEFINE f == [l \in 0 .. 0 |-> c]
  <2>1. f[0] = c
    OBVIOUS
  <2> HIDE DEF f
  <2>2. \A l \in 0 .. 0 : LevelIs(f, t, l)
    BY <2>1 DEF LevelIs
  <2> QED BY <2>2
<1>2. ASSUME NEW k \in T PROVE k + 1 \in T
  <2>1. PICK f : \A l \in 0 .. k : LevelIs(f, t, l)
    OBVIOUS
  <2> DEFINE v == [i \in 1 .. (Len(t) \div TwoTo[k + 1]) |-> TwoToOne(f[k][2 * i - 1], f[k][2 * i])]
             g == [l \in 0 .. k + 1 |-> IF l = k + 1 THEN v ELSE f[l]]
  <2>2. ASSUME NEW l \in 0 .. k + 1 PROVE LevelIs(g, t, l)
    <3>1. l # 0 => g[l - 1] = f[l - 1]
      OBVIOUS
    <3>2. CASE l = k + 1
      <4>1. g[l] = v /\ l # 0 /\ l - 1 = k
        BY <3>2
      <4> HIDE DEF g
      <4> QED BY <3>1, <3>2, <4>1 DEF LevelIs
    <3>3. CASE l # k + 1
      <4>1. g[l] = f[l] /\ l \in 0 .. k
        BY <3>3
      <4>2. LevelIs(f, t, l)
        BY <2>1, <4>1
      <4> HIDE DEF g
      <4> QED BY <3>1, <4>1, <4>2 DEF LevelIs
    <3> QED BY <3>2, <3>3
  <2> HIDE DEF g
  <2> QED BY <2>2
<1>3. T = Nat
  <2> HIDE DEF T
  <2>1. T \in SUBSET Nat
    BY DEF T
  <2> QED BY <1>1, <1>2, <2>1, NatSetInduction
<1> QED BY <1>3

LEMMA LevelsAre ==
  ASSUME NEW t
  PROVE  \A l \in 0 .. MaxDepth : LevelIs(Levels(t), t, l)
<1> DEFINE E(h, l) == IF l = 0 THEN [i \in DOMAIN t |-> LeafHash(t[i])]
                      ELSE [i \in 1 .. (Len(t) \div TwoTo[l]) |-> TwoToOne(h[l - 1][2 * i - 1], h[l - 1][2 * i])]
<1>1. PICK f : \A l \in 0 .. MaxDepth : LevelIs(f, t, l)
  BY LevelsFill, CircuitAssumption
<1> DEFINE g == [l \in 0 .. MaxDepth |-> f[l]]
<1>2. ASSUME NEW l \in 0 .. MaxDepth PROVE g[l] = E(g, l)
  <2>1. LevelIs(f, t, l) /\ g[l] = f[l] /\ (l # 0 => g[l - 1] = f[l - 1])
    BY <1>1, CircuitAssumption
  <2> HIDE DEF g
  <2> QED BY <2>1 DEF LevelIs
<1>3. g = [l \in 0 .. MaxDepth |-> E(g, l)]
  <2>1. g = [l \in 0 .. MaxDepth |-> g[l]]
    OBVIOUS
  <2> HIDE DEF g, E
  <2> QED BY <1>2, <2>1
<1> HIDE DEF g
<1>4. Levels(t) = [l \in 0 .. MaxDepth |-> E(Levels(t), l)]
  BY <1>3 DEF Levels
<1> DEFINE C == Levels(t)
<1> HIDE DEF C
<1>5. C = [l \in 0 .. MaxDepth |-> E(C, l)]
  BY <1>4 DEF C
<1>6. ASSUME NEW l \in 0 .. MaxDepth PROVE C[l] = E(C, l)
  <2> HIDE DEF E
  <2> QED BY <1>5
<1> QED BY <1>6 DEF LevelIs, C

\* A tree of TwoTo[d] leaves has that depth.
TreeOf(t, d) == d \in 1 .. MaxDepth /\ t \in [1 .. TwoTo[d] -> Keys]

LEMMA DepthFacts ==
  ASSUME NEW t, NEW d, TreeOf(t, d)
  PROVE  /\ Depth(t) = d /\ Len(t) = TwoTo[d] /\ DOMAIN t = 1 .. TwoTo[d] /\ TwoTo[d] \in Nat \ {0} /\ d \in Nat
         /\ t \in Seq(Keys)
<1>1. d \in 1 .. MaxDepth /\ d \in Nat /\ t \in [1 .. TwoTo[d] -> Keys]
  BY CircuitAssumption DEF TreeOf
<1>2. TwoTo[d] \in Nat /\ d < TwoTo[d]
  BY <1>1, TwoToFacts
<1>3. t \in Seq(Keys) /\ Len(t) = TwoTo[d]
  BY <1>1, <1>2
<1>4. ASSUME NEW e \in 1 .. MaxDepth, Len(t) = TwoTo[e] PROVE e = d
  <2>1. e \in Nat /\ TwoTo[e] = TwoTo[d]
    BY <1>3, <1>4
  <2>2. e < d => TwoTo[e] < TwoTo[d]
    <3>1. e < d => e \in 0 .. d - 1
      BY <1>1, <2>1
    <3> QED BY <1>1, <3>1, TwoToFacts
  <2>3. d < e => TwoTo[d] < TwoTo[e]
    <3>1. d < e => d \in 0 .. e - 1
      BY <1>1, <2>1
    <3> QED BY <2>1, <3>1, TwoToFacts
  <2> QED BY <1>1, <1>2, <2>1, <2>2, <2>3
<1>5. Depth(t) = d
  BY <1>1, <1>3, <1>4 DEF Depth
<1> QED BY <1>1, <1>2, <1>3, <1>5

\* The leaves' hashes, and a node above them.
LEMMA NodeFacts ==
  ASSUME NEW t, NEW d, TreeOf(t, d)
  PROVE  /\ \A i \in 1 .. TwoTo[d] : Levels(t)[0][i] = LeafHash(t[i])
         /\ \A l \in 1 .. d : \A i \in 1 .. TwoTo[d - l] :
              Levels(t)[l][i] = TwoToOne(Levels(t)[l - 1][2 * i - 1], Levels(t)[l - 1][2 * i])
<1> DEFINE N == Levels(t)
<1>1. /\ d \in 1 .. MaxDepth /\ d \in Nat /\ Len(t) = TwoTo[d] /\ DOMAIN t = 1 .. TwoTo[d]
      /\ \A l \in 0 .. MaxDepth : LevelIs(N, t, l)
  BY DepthFacts, LevelsAre DEF TreeOf
<1> HIDE DEF N
<1>2. N[0] = [i \in 1 .. TwoTo[d] |-> LeafHash(t[i])]
  <2>1. LevelIs(N, t, 0)
    BY <1>1, CircuitAssumption
  <2> QED BY <1>1, <2>1 DEF LevelIs
<1>3. ASSUME NEW l \in 1 .. d, NEW i \in 1 .. TwoTo[d - l]
      PROVE  N[l][i] = TwoToOne(N[l - 1][2 * i - 1], N[l - 1][2 * i])
  <2>1. LevelIs(N, t, l) /\ l # 0 /\ l \in 0 .. d
    BY <1>1, CircuitAssumption
  <2>2. TwoTo[d] \div TwoTo[l] = TwoTo[d - l]
    BY <1>1, <2>1, Halved
  <2>3. N[l] = [k \in 1 .. TwoTo[d - l] |-> TwoToOne(N[l - 1][2 * k - 1], N[l - 1][2 * k])]
    BY <1>1, <2>1, <2>2 DEF LevelIs
  <2> QED BY <2>3
<1> QED BY <1>2, <1>3 DEF N

LEMMA FreeHashes ==
  /\ \A x, l, r : LeafHash(x) # TwoToOne(l, r)
  /\ \A x, y : LeafHash(x) = LeafHash(y) => x = y
  /\ \A l, r, u, v : TwoToOne(l, r) = TwoToOne(u, v) => l = u /\ r = v
BY DEF LeafHash, TwoToOne

\* Of two trees with one root, every level counted from it is the same.
SameLevel(t, d, s, e, k) ==
  \A i \in 1 .. TwoTo[k] : Levels(t)[d - k][i] = Levels(s)[e - k][i]

LEMMA LevelsBelow ==
  ASSUME NEW t, NEW d, TreeOf(t, d), NEW s, NEW e, TreeOf(s, e), NEW k \in Nat, k < d, k < e,
         SameLevel(t, d, s, e, k)
  PROVE  SameLevel(t, d, s, e, k + 1)
<1>1. d \in Nat /\ e \in Nat
  BY DepthFacts
<1>2. d - k \in 1 .. d /\ e - k \in 1 .. e /\ d - (d - k) = k /\ e - (e - k) = k
      /\ d - k - 1 = d - (k + 1) /\ e - k - 1 = e - (k + 1)
  BY <1>1
<1>3. TwoTo[k] \in Nat /\ TwoTo[k + 1] = 2 * TwoTo[k]
  BY TwoToFacts
<1> DEFINE M == Levels(t)
           N == Levels(s)
<1>4. ASSUME NEW j \in 1 .. TwoTo[k]
      PROVE  /\ M[d - (k + 1)][2 * j - 1] = N[e - (k + 1)][2 * j - 1]
             /\ M[d - (k + 1)][2 * j] = N[e - (k + 1)][2 * j]
  <2>1. M[d - k][j] = TwoToOne(M[d - k - 1][2 * j - 1], M[d - k - 1][2 * j])
    BY <1>2, NodeFacts
  <2>2. N[e - k][j] = TwoToOne(N[e - k - 1][2 * j - 1], N[e - k - 1][2 * j])
    BY <1>2, NodeFacts
  <2>3. M[d - k][j] = N[e - k][j]
    BY DEF SameLevel
  <2> DEFINE c == d - (k + 1)
             B == e - (k + 1)
  <2>4. TwoToOne(M[c][2 * j - 1], M[c][2 * j]) = TwoToOne(N[B][2 * j - 1], N[B][2 * j])
    <3> HIDE DEF M, N
    <3> QED BY <1>2, <2>1, <2>2, <2>3
  <2> HIDE DEF M, N, c, B
  <2>5. M[c][2 * j - 1] = N[B][2 * j - 1] /\ M[c][2 * j] = N[B][2 * j]
    BY <2>4, FreeHashes
  <2> QED BY <2>5 DEF c, B
<1>5. ASSUME NEW i \in 1 .. TwoTo[k + 1] PROVE M[d - (k + 1)][i] = N[e - (k + 1)][i]
  <2> HIDE DEF M, N
  <2>1. PICK j \in 1 .. TwoTo[k] : i = 2 * j - 1 \/ i = 2 * j
    <3>1. (i + 1) \div 2 \in 1 .. TwoTo[k] /\ (i = 2 * ((i + 1) \div 2) - 1 \/ i = 2 * ((i + 1) \div 2))
      BY <1>3
    <3> QED BY <3>1
  <2> QED BY <1>4, <2>1
<1> QED BY <1>5 DEF SameLevel

LEMMA RootsDiffer ==
  ASSUME NEW t, NEW d, TreeOf(t, d), NEW s, NEW e, TreeOf(s, e), Root(t) = Root(s)
  PROVE  t = s
<1>1. d \in Nat \ {0} /\ e \in Nat \ {0} /\ Depth(t) = d /\ Depth(s) = e
  BY DepthFacts DEF TreeOf
<1> DEFINE T == {k \in Nat : k <= d /\ k <= e => SameLevel(t, d, s, e, k)}
<1>2. T = Nat
  <2>1. 0 \in T
    <3>1. Levels(t)[d][1] = Levels(s)[e][1] /\ d - 0 = d /\ e - 0 = e
      BY <1>1 DEF Root
    <3>2. 1 .. TwoTo[0] = {1}
      BY TwoToFacts
    <3> QED BY <3>1, <3>2 DEF SameLevel
  <2>2. ASSUME NEW k \in T PROVE k + 1 \in T
    <3>1. k \in Nat /\ (k + 1 <= d /\ k + 1 <= e => k < d /\ k < e /\ SameLevel(t, d, s, e, k))
      BY <1>1
    <3>2. k + 1 <= d /\ k + 1 <= e => SameLevel(t, d, s, e, k + 1)
      BY <3>1, LevelsBelow
    <3> QED BY <3>1, <3>2
  <2> HIDE DEF T
  <2>3. T \in SUBSET Nat
    BY DEF T
  <2> QED BY <2>1, <2>2, <2>3, NatSetInduction
<1>3. \A k \in Nat : k <= d /\ k <= e => SameLevel(t, d, s, e, k)
  BY <1>2
<1>4. ASSUME NEW u, NEW c \in Nat \ {0}, TreeOf(u, c), NEW v, NEW B \in Nat \ {0}, TreeOf(v, B), c < B, SameLevel(u, c, v, B, c)
      PROVE  FALSE
  <2>1. TwoTo[c] \in Nat /\ c < TwoTo[c] /\ c - c = 0 /\ B - c \in 1 .. B /\ B - (B - c) = c
    BY <1>4, TwoToFacts
  <2>2. 1 \in 1 .. TwoTo[c]
    BY <2>1
  <2>3. Levels(u)[0][1] = Levels(v)[B - c][1]
    BY <1>4, <2>1, <2>2 DEF SameLevel
  <2>4. Levels(u)[0][1] = LeafHash(u[1])
    BY <1>4, <2>2, NodeFacts
  <2>5. Levels(v)[B - c][1] = TwoToOne(Levels(v)[B - c - 1][2 * 1 - 1], Levels(v)[B - c - 1][2 * 1])
    BY <1>4, <2>1, <2>2, NodeFacts
  <2>6. LeafHash(u[1]) = TwoToOne(Levels(v)[B - c - 1][2 * 1 - 1], Levels(v)[B - c - 1][2 * 1])
    BY <2>3, <2>4, <2>5
  <2> QED BY <2>6, FreeHashes
<1>5. d = e
  <2>1. ASSUME d < e PROVE FALSE
    <3>1. SameLevel(t, d, s, e, d)
      BY <1>1, <1>3, <2>1
    <3> QED BY <1>1, <1>4, <2>1, <3>1
  <2>2. ASSUME e < d PROVE FALSE
    <3>1. SameLevel(s, e, t, d, e)
      BY <1>1, <1>3, <2>2 DEF SameLevel
    <3> QED BY <1>1, <1>4, <2>2, <3>1
  <2> QED BY <1>1, <2>1, <2>2
<1>6. ASSUME NEW i \in 1 .. TwoTo[d] PROVE t[i] = s[i]
  <2>1. SameLevel(t, d, s, e, d) /\ d - d = 0
    BY <1>1, <1>3, <1>5
  <2>2. Levels(t)[0][i] = Levels(s)[0][i]
    BY <1>5, <2>1 DEF SameLevel
  <2>3. Levels(t)[0][i] = LeafHash(t[i]) /\ Levels(s)[0][i] = LeafHash(s[i])
    BY <1>5, NodeFacts
  <2> QED BY <2>2, <2>3, FreeHashes
<1>7. t \in [1 .. TwoTo[d] -> Keys] /\ s \in [1 .. TwoTo[d] -> Keys]
  BY <1>5 DEF TreeOf
<1>8. t = [i \in 1 .. TwoTo[d] |-> t[i]] /\ s = [i \in 1 .. TwoTo[d] |-> s[i]]
  BY <1>7
<1> QED BY <1>6, <1>8

\* Where a path stands, level by level, and its hashes.
Above(i, l) == i \div TwoTo[l]
Hashes(path) == <<path.leaf_sibling_hash>> \o path.auth_path

LEMMA AboveFacts ==
  ASSUME NEW d \in Nat, NEW i \in 0 .. TwoTo[d] - 1, NEW l \in 0 .. d
  PROVE  /\ Above(i, l) \in 0 .. TwoTo[d - l] - 1
         /\ l < d => /\ Neighbour(Above(i, l)) \in 0 .. TwoTo[d - l] - 1
                     /\ (Above(i, l) % 2 = 0 => Above(i, l) = 2 * Above(i, l + 1)
                                             /\ Neighbour(Above(i, l)) = 2 * Above(i, l + 1) + 1)
                     /\ (Above(i, l) % 2 # 0 => Above(i, l) = 2 * Above(i, l + 1) + 1
                                             /\ Neighbour(Above(i, l)) = 2 * Above(i, l + 1))
<1> DEFINE A == TwoTo[d - l]
           B == TwoTo[l]
           q == Above(i, l)
<1>1. d - l \in Nat /\ l \in Nat /\ (d - l) + l = d
  OBVIOUS
<1>2. TwoTo[d] = A * B /\ TwoTo[l + 1] = 2 * B
  <2>1. TwoTo[(d - l) + l] = A * B
    BY <1>1, TwoToPlus
  <2>2. TwoTo[l + 1] = 2 * B
    BY <1>1, TwoToFacts
  <2> QED BY <1>1, <2>1, <2>2
<1>3. A \in Nat \ {0} /\ B \in Nat \ {0}
  <2>1. TwoTo[d - l] \in Nat /\ d - l < TwoTo[d - l] /\ TwoTo[l] \in Nat /\ l < TwoTo[l]
    BY <1>1, TwoToFacts
  <2> QED BY <1>1, <2>1
<1>4. i \in Nat /\ i < A * B
  <2>1. TwoTo[d] \in Nat
    BY TwoToFacts
  <2> QED BY <1>2, <2>1
<1> HIDE DEF A, B
<1>5. i \div B \in 0 .. A - 1
  <2>1. i \div B \in Nat /\ B * (i \div B) <= i
    BY <1>3, <1>4
  <2>2. i \div B >= A => FALSE
    <3> DEFINE x == i \div B
    <3> SUFFICES ASSUME x >= A PROVE FALSE
      OBVIOUS
    <3>1. x \in Nat /\ B * x <= i
      BY <2>1
    <3> HIDE DEF x
    <3>2. B * A <= B * x /\ B * A = A * B
      <4>1. PICK y \in Nat : x = A + y
        BY <1>3, <3>1
      <4>2. B * x = B * A + B * y /\ B * y \in Nat
        BY <1>3, <4>1
      <4> QED BY <1>3, <4>2
    <3> QED BY <1>3, <1>4, <3>1, <3>2
  <2> QED BY <1>3, <2>1, <2>2
<1>6. q = i \div B /\ q \in 0 .. A - 1
  BY <1>5 DEF Above, B
<1>7. ASSUME l < d PROVE \E c \in Nat \ {0} : A = 2 * c
  <2>1. d - l = (d - l - 1) + 1 /\ d - l - 1 \in Nat
    BY <1>7
  <2>2. TwoTo[(d - l - 1) + 1] = 2 * TwoTo[d - l - 1] /\ TwoTo[d - l - 1] \in Nat /\ d - l - 1 < TwoTo[d - l - 1]
    BY <2>1, TwoToFacts
  <2> QED BY <2>1, <2>2 DEF A
<1>8. ASSUME l < d PROVE Above(i, l + 1) = q \div 2
  <2>1. Above(i, l + 1) = i \div (2 * B)
    BY <1>2 DEF Above
  <2>2. i \div B = (i \div (B * 2)) * 2 + ((i \div B) % 2) /\ i \div B \in Nat
    <3>1. B \in Nat \ {0} /\ 2 \in Nat \ {0}
      BY <1>3
    <3> QED BY ONLY <1>4, <3>1, DividedTwice
  <2> DEFINE x == i \div B
             y == i \div (2 * B)
  <2>3. x = y * 2 + (x % 2) /\ x \in Nat /\ y \in Int
    <3>1. B * 2 = 2 * B /\ 2 * B \in Nat \ {0}
      BY <1>3
    <3> QED BY <1>4, <2>2, <3>1
  <2> HIDE DEF x, y
  <2>4. y = x \div 2
    BY <2>3
  <2> QED BY <1>6, <2>1, <2>4 DEF x, y
<1>9. ASSUME l < d
      PROVE  /\ Neighbour(q) \in 0 .. A - 1
             /\ (q % 2 = 0 => q = 2 * (q \div 2) /\ Neighbour(q) = 2 * (q \div 2) + 1)
             /\ (q % 2 # 0 => q = 2 * (q \div 2) + 1 /\ Neighbour(q) = 2 * (q \div 2))
  <2>1. PICK c \in Nat \ {0} : A = 2 * c
    BY <1>7, <1>9
  <2> HIDE DEF q
  <2>2. q \in Nat /\ q < 2 * c
    BY <1>6, <2>1
  <2>3. q % 2 = 0 => q = 2 * (q \div 2) /\ q + 1 \in 0 .. 2 * c - 1
    BY <2>2
  <2>4. q % 2 # 0 => q = 2 * (q \div 2) + 1 /\ q - 1 \in 0 .. 2 * c - 1
    BY <2>2
  <2>5. Neighbour(q) = IF q % 2 = 0 THEN q + 1 ELSE q - 1
    BY DEF Neighbour
  <2> QED BY <2>1, <2>2, <2>3, <2>4, <2>5
<1> QED BY <1>6, <1>8, <1>9 DEF A, B

\* A turn of verify_membership.
UpIs(f, x, path, k) ==
  f[k] = IF k = 0 THEN LeafHash(x)
         ELSE IF Above(path.leaf_index, k - 1) % 2 = 0 THEN TwoToOne(f[k - 1], Hashes(path)[k])
                                                       ELSE TwoToOne(Hashes(path)[k], f[k - 1])

LEMMA UpFill ==
  ASSUME NEW x, NEW path, NEW m \in Nat
  PROVE  \E f : \A k \in 0 .. m : UpIs(f, x, path, k)
<1> DEFINE T == {l \in Nat : \E f : \A k \in 0 .. l : UpIs(f, x, path, k)}
<1>1. 0 \in T
  <2> DEFINE f == [k \in 0 .. 0 |-> LeafHash(x)]
  <2>1. f[0] = LeafHash(x)
    OBVIOUS
  <2> HIDE DEF f
  <2>2. \A k \in 0 .. 0 : UpIs(f, x, path, k)
    BY <2>1 DEF UpIs
  <2> QED BY <2>2
<1>2. ASSUME NEW l \in T PROVE l + 1 \in T
  <2>1. PICK f : \A k \in 0 .. l : UpIs(f, x, path, k)
    OBVIOUS
  <2> DEFINE v == IF Above(path.leaf_index, l) % 2 = 0 THEN TwoToOne(f[l], Hashes(path)[l + 1])
                                                       ELSE TwoToOne(Hashes(path)[l + 1], f[l])
             g == [k \in 0 .. l + 1 |-> IF k = l + 1 THEN v ELSE f[k]]
  <2>2. ASSUME NEW k \in 0 .. l + 1 PROVE UpIs(g, x, path, k)
    <3>1. k # 0 => g[k - 1] = f[k - 1]
      OBVIOUS
    <3>2. CASE k = l + 1
      <4>1. g[k] = v /\ k # 0 /\ k - 1 = l
        BY <3>2
      <4> HIDE DEF g
      <4> QED BY <3>1, <3>2, <4>1 DEF UpIs
    <3>3. CASE k # l + 1
      <4>1. g[k] = f[k] /\ k \in 0 .. l
        BY <3>3
      <4>2. UpIs(f, x, path, k)
        BY <2>1, <4>1
      <4> HIDE DEF g
      <4> QED BY <3>1, <4>1, <4>2 DEF UpIs
    <3> QED BY <3>2, <3>3
  <2> HIDE DEF g
  <2> QED BY <2>2
<1>3. T = Nat
  <2> HIDE DEF T
  <2>1. T \in SUBSET Nat
    BY DEF T
  <2> QED BY <1>1, <1>2, <2>1, NatSetInduction
<1> QED BY <1>3

LEMMA UpAre ==
  ASSUME NEW x, NEW path, NEW m \in Nat, Len(Hashes(path)) = m
  PROVE  \E f : LeadsTo(x, path) = f[m] /\ \A k \in 0 .. m : UpIs(f, x, path, k)
<1> DEFINE H == Hashes(path)
           E(h, k) == IF k = 0 THEN LeafHash(x)
                      ELSE IF (path.leaf_index \div TwoTo[k - 1]) % 2 = 0
                        THEN TwoToOne(h[k - 1], H[k]) ELSE TwoToOne(H[k], h[k - 1])
           C == CHOOSE h : h = [k \in 0 .. m |-> E(h, k)]
<1>1. PICK f : \A k \in 0 .. m : UpIs(f, x, path, k)
  BY UpFill
<1> DEFINE g == [k \in 0 .. m |-> f[k]]
<1>2. ASSUME NEW k \in 0 .. m PROVE g[k] = E(g, k)
  <2>1. UpIs(f, x, path, k) /\ g[k] = f[k] /\ (k # 0 => g[k - 1] = f[k - 1])
    BY <1>1
  <2> HIDE DEF g
  <2> QED BY <2>1 DEF UpIs, Above
<1>3. g = [k \in 0 .. m |-> E(g, k)]
  <2>1. g = [k \in 0 .. m |-> g[k]]
    OBVIOUS
  <2> HIDE DEF g, E
  <2> QED BY <1>2, <2>1
<1> HIDE DEF g
<1>4. C = [k \in 0 .. m |-> E(C, k)]
  BY <1>3
<1>5. LeadsTo(x, path) = C[m]
  <2> HIDE DEF E
  <2>1. Len(<<path.leaf_sibling_hash>> \o path.auth_path) = m
    BY DEF Hashes
  <2> QED BY <2>1 DEF LeadsTo, Hashes, E
<1> HIDE DEF C
<1>6. ASSUME NEW k \in 0 .. m PROVE UpIs(C, x, path, k)
  <2>1. C[k] = E(C, k)
    <3> HIDE DEF E
    <3> QED BY <1>4
  <2> QED BY <2>1 DEF UpIs, Above
<1> QED BY <1>5, <1>6

\* The hashes of a path, as many as the tree has levels above the leaves.
LEMMA PathFacts ==
  ASSUME NEW t, NEW d, TreeOf(t, d), NEW i \in 0 .. TwoTo[d] - 1
  PROVE  /\ PathOf(t, i).leaf_index = i /\ Len(PathOf(t, i).auth_path) = d - 1 /\ Len(Hashes(PathOf(t, i))) = d
         /\ \A k \in 1 .. d : Hashes(PathOf(t, i))[k] = Levels(t)[k - 1][Neighbour(Above(i, k - 1)) + 1]
<1> DEFINE N == Levels(t)
           A == [l \in 1 .. d - 1 |-> N[l][Neighbour(i \div TwoTo[l]) + 1]]
           h == N[0][Neighbour(i) + 1]
           S == {h} \cup {A[l] : l \in 1 .. d - 1}
<1>1. d \in Nat \ {0} /\ Depth(t) = d /\ i \in Nat
  <2>1. TwoTo[d] \in Nat /\ d \in Nat /\ d # 0 /\ Depth(t) = d
    BY DepthFacts DEF TreeOf
  <2> QED BY <2>1
<1>2. PathOf(t, i) = [leaf_index |-> i, leaf_sibling_hash |-> h, auth_path |-> A]
  BY <1>1 DEF PathOf
<1>3. PathOf(t, i).leaf_index = i /\ PathOf(t, i).leaf_sibling_hash = h /\ PathOf(t, i).auth_path = A
  BY <1>2
<1>4. A \in Seq(S) /\ Len(A) = d - 1 /\ h \in S
  <2> HIDE DEF N, h
  <2>1. A \in [1 .. d - 1 -> S] /\ d - 1 \in Nat
    BY <1>1
  <2> HIDE DEF A, S
  <2>2. A \in Seq(S) /\ Len(A) = d - 1
    BY <2>1
  <2>3. h \in S
    BY DEF S
  <2> QED BY <2>2, <2>3
<1>5. Hashes(PathOf(t, i)) = <<h>> \o A
  BY <1>3 DEF Hashes
<1>6. \A l \in 1 .. d - 1 : A[l] = N[l][Neighbour(Above(i, l)) + 1]
  BY DEF Above
<1> HIDE DEF A, h, S, N
<1>7. Len(<<h>> \o A) = d /\ (<<h>> \o A)[1] = h /\ \A l \in 1 .. d - 1 : (<<h>> \o A)[l + 1] = A[l]
  BY <1>1, <1>4
<1>8. ASSUME NEW k \in 1 .. d PROVE (<<h>> \o A)[k] = N[k - 1][Neighbour(Above(i, k - 1)) + 1]
  <2>1. CASE k = 1
    <3>1. TwoTo[0] = 1 /\ Above(i, 0) = i \div TwoTo[0]
      BY TwoToFacts DEF Above
    <3>2. Above(i, 0) = i
      BY <1>1, <3>1
    <3> QED BY <1>7, <2>1, <3>2 DEF h
  <2>2. CASE k # 1
    <3>1. k - 1 \in 1 .. d - 1 /\ (k - 1) + 1 = k
      BY <1>1, <2>2
    <3>2. (<<h>> \o A)[(k - 1) + 1] = A[k - 1]
      BY <1>7, <3>1
    <3> QED BY <1>6, <3>1, <3>2
  <2> QED BY <2>1, <2>2
<1> QED BY <1>3, <1>4, <1>5, <1>7, <1>8 DEF N

\* The path of a leaf leads to the root from that leaf only.
LEMMA PathLeads ==
  ASSUME NEW t, NEW d, TreeOf(t, d), NEW i \in 0 .. TwoTo[d] - 1, NEW x
  PROVE  LeadsTo(x, PathOf(t, i)) = Root(t) <=> x = t[i + 1]
<1> DEFINE p == PathOf(t, i)
           N == Levels(t)
           H == Hashes(p)
<1>1. d \in Nat \ {0} /\ Depth(t) = d /\ TwoTo[d] \in Nat
  BY DepthFacts DEF TreeOf
<1>2. p.leaf_index = i /\ Len(H) = d /\ \A k \in 1 .. d : H[k] = N[k - 1][Neighbour(Above(i, k - 1)) + 1]
  BY PathFacts
<1>3. PICK f : LeadsTo(x, p) = f[d] /\ \A k \in 0 .. d : UpIs(f, x, p, k)
  <2> HIDE DEF p
  <2> QED BY <1>1, <1>2, UpAre
<1> DEFINE At(k) == f[k] = N[k][Above(i, k) + 1]
<1>4. ASSUME NEW k \in 0 .. d - 1 PROVE At(k + 1) <=> At(k)
  <2> DEFINE q == Above(i, k)
             j == Above(i, k + 1)
  <2>1. k \in Nat /\ k < d /\ k + 1 \in 1 .. d /\ k \in 0 .. d /\ k + 1 \in 0 .. d /\ (k + 1) - 1 = k
    BY <1>1
  <2>2. /\ (q % 2 = 0 => q = 2 * j /\ Neighbour(q) = 2 * j + 1)
        /\ (q % 2 # 0 => q = 2 * j + 1 /\ Neighbour(q) = 2 * j)
        /\ j \in 0 .. TwoTo[d - (k + 1)] - 1
    BY <1>1, <2>1, AboveFacts
  <2>3. f[k + 1] = IF q % 2 = 0 THEN TwoToOne(f[k], H[k + 1]) ELSE TwoToOne(H[k + 1], f[k])
    <3>1. UpIs(f, x, p, k + 1)
      BY <1>3, <2>1
    <3> HIDE DEF p
    <3> QED BY <1>2, <2>1, <3>1 DEF UpIs, H
  <2>4. H[k + 1] = N[k][Neighbour(q) + 1]
    BY <1>2, <2>1
  <2>5. TwoTo[d - (k + 1)] \in Nat
    <3>1. d - (k + 1) \in Nat
      BY <1>1, <2>1
    <3> QED BY <3>1, TwoToFacts
  <2>6. N[k + 1][j + 1] = TwoToOne(N[k][2 * j + 1], N[k][2 * j + 2])
    <3>1. j + 1 \in 1 .. TwoTo[d - (k + 1)] /\ 2 * (j + 1) - 1 = 2 * j + 1 /\ 2 * (j + 1) = 2 * j + 2
      BY <2>2, <2>5
    <3>2. N[k + 1][j + 1] = TwoToOne(N[(k + 1) - 1][2 * (j + 1) - 1], N[(k + 1) - 1][2 * (j + 1)])
      BY <2>1, <3>1, NodeFacts
    <3> QED BY <2>1, <3>1, <3>2
  <2>7. j \in Nat /\ 2 * j + 1 + 1 = 2 * j + 2
    BY <2>2, <2>5
  <2> HIDE DEF q, j, N, H
  <2>8. CASE q % 2 = 0
    <3>1. f[k + 1] = TwoToOne(f[k], N[k][2 * j + 2])
      BY <2>2, <2>3, <2>4, <2>7, <2>8
    <3>2. f[k] = N[k][q + 1] <=> f[k + 1] = N[k + 1][j + 1]
      <4>1. q + 1 = 2 * j + 1
        BY <2>2, <2>8
      <4>2. ASSUME f[k + 1] = N[k + 1][j + 1] PROVE f[k] = N[k][2 * j + 1]
        <5>1. TwoToOne(f[k], N[k][2 * j + 2]) = TwoToOne(N[k][2 * j + 1], N[k][2 * j + 2])
          BY <2>6, <3>1, <4>2
        <5> QED BY <5>1, FreeHashes
      <4> QED BY <2>6, <3>1, <4>1, <4>2
    <3> QED BY <3>2 DEF q, j
  <2>9. CASE q % 2 # 0
    <3>1. f[k + 1] = TwoToOne(N[k][2 * j + 1], f[k])
      BY <2>2, <2>3, <2>4, <2>7, <2>9
    <3>2. f[k] = N[k][q + 1] <=> f[k + 1] = N[k + 1][j + 1]
      <4>1. q + 1 = 2 * j + 2
        BY <2>2, <2>7, <2>9
      <4>2. ASSUME f[k + 1] = N[k + 1][j + 1] PROVE f[k] = N[k][2 * j + 2]
        <5>1. TwoToOne(N[k][2 * j + 1], f[k]) = TwoToOne(N[k][2 * j + 1], N[k][2 * j + 2])
          BY <2>6, <3>1, <4>2
        <5> QED BY <5>1, FreeHashes
      <4> QED BY <2>6, <3>1, <4>1, <4>2
    <3> QED BY <3>2 DEF q, j
  <2> QED BY <2>8, <2>9
<1> HIDE DEF At
<1>5. At(d) <=> At(0)
  <2> DEFINE T == {k \in Nat : k <= d => (At(k) <=> At(0))}
  <2>1. 0 \in T
    OBVIOUS
  <2>2. ASSUME NEW k \in T PROVE k + 1 \in T
    <3>1. k \in Nat /\ (k + 1 <= d => k \in 0 .. d - 1 /\ (At(k) <=> At(0)))
      BY <1>1
    <3> QED BY <1>4, <3>1
  <2>3. T = Nat
    <3> HIDE DEF T
    <3>1. T \in SUBSET Nat
      BY DEF T
    <3> QED BY <2>1, <2>2, <3>1, NatSetInduction
  <2> QED BY <1>1, <2>3
<1>6. At(d) <=> LeadsTo(x, p) = Root(t)
  <2>1. Above(i, d) \in 0 .. TwoTo[d - d] - 1 /\ d - d = 0 /\ TwoTo[0] = 1
    BY <1>1, AboveFacts, TwoToFacts
  <2>2. Above(i, d) + 1 = 1
    BY <2>1
  <2> QED BY <1>1, <1>3, <2>2 DEF At, Root
<1>7. At(0) <=> x = t[i + 1]
  <2>1. Above(i, 0) = i
    <3>1. Above(i, 0) = i \div TwoTo[0] /\ TwoTo[0] = 1
      BY TwoToFacts DEF Above
    <3> QED BY <1>1, <3>1
  <2>2. f[0] = LeafHash(x)
    <3>1. UpIs(f, x, p, 0)
      BY <1>1, <1>3
    <3> QED BY <3>1 DEF UpIs
  <2>3. N[0][i + 1] = LeafHash(t[i + 1])
    <3>1. i + 1 \in 1 .. TwoTo[d]
      BY <1>1
    <3> QED BY <3>1, NodeFacts
  <2>4. At(0) <=> LeafHash(x) = LeafHash(t[i + 1])
    BY <2>1, <2>2, <2>3 DEF At
  <2> QED BY <2>4, FreeHashes
<1> QED BY <1>5, <1>6, <1>7

PathsOf(t, d) == {None} \cup {PathOf(t, i) : i \in 0 .. TwoTo[d] - 1}
\* Parameters, for a path of some tree or for none, and a proof.
ParamsOf(q) == \E d \in 1 .. MaxDepth : q = [depth |-> d - 1, over |-> TwoTo[d]]
ProofOfTree(p) ==
  \E d : /\ TreeOf(p.over, d) /\ p.root = Root(p.over)
         /\ p.path \in PathsOf(p.over, d) /\ p.leaf \in Keys \cup {None}

VerdictOf(p, q, root) == Shape(p.path) = q.depth /\ p.root = root /\ ConstraintsHold(p.root, p.leaf, p.path)

CircuitInv ==
  /\ tree \in Trees
  /\ params # None => ParamsOf(params)
  /\ zkProof # None => params # None /\ ProofOfTree(zkProof)
  /\ zkVerdict # None =>
       /\ params # None /\ zkProof # None
       /\ zkVerdict = VerdictOf(zkProof, params, Root(tree))

LEMMA TreesHaveDepth ==
  ASSUME NEW t \in Trees
  PROVE  \E d : TreeOf(t, d) /\ Len(t) = TwoTo[d] /\ DOMAIN t = 1 .. TwoTo[d] /\ Depth(t) = d
<1>1. PICK d \in 1 .. MaxDepth : t \in [1 .. TwoTo[d] -> Keys]
  BY DEF Trees
<1>2. TreeOf(t, d)
  BY <1>1 DEF TreeOf
<1> QED BY <1>2, DepthFacts

\* What is known of a path there is: its shape, and that it is none.
LEMMA ShapeFacts ==
  ASSUME NEW t, NEW d, TreeOf(t, d), NEW i \in 0 .. TwoTo[d] - 1
  PROVE  PathOf(t, i) # None /\ Shape(PathOf(t, i)) = d - 1 /\ Witnessed(PathOf(t, i)) = PathOf(t, i)
<1>1. t \in Trees /\ DOMAIN t = 1 .. TwoTo[d] /\ TwoTo[d] \in Nat
  BY DepthFacts DEF TreeOf, Trees
<1>2. i + 1 \in DOMAIN t /\ (i + 1) - 1 = i
  BY <1>1
<1>3. PathOf(t, i) # None
  BY <1>1, <1>2, CircuitAssumption
<1> QED BY <1>3, PathFacts DEF Shape, Witnessed

\* No root is reached without a path.
LEMMA NoPathLeads ==
  ASSUME NEW t, NEW d, TreeOf(t, d), NEW x
  PROVE  LeadsTo(x, DefaultPath) # Root(t)
<1> SUFFICES ASSUME LeadsTo(x, DefaultPath) = Root(t) PROVE FALSE
  OBVIOUS
<1> DEFINE p == DefaultPath
           h == <<"leaf", "byte">>
           N == Levels(t)
<1>1. Hashes(p) = <<h>> \o <<>> /\ p.leaf_index = 1
  BY DEF Hashes, DefaultPath
<1>2. Len(Hashes(p)) = 1 /\ Hashes(p)[1] = h
  <2> HIDE DEF h
  <2>1. <<h>> \o <<>> = <<h>>
    OBVIOUS
  <2> QED BY <1>1, <2>1
<1>3. PICK f : LeadsTo(x, p) = f[1] /\ \A k \in 0 .. 1 : UpIs(f, x, p, k)
  <2> HIDE DEF p
  <2> QED BY <1>2, UpAre
<1>4. f[1] = TwoToOne(h, f[0])
  <2>1. UpIs(f, x, p, 1)
    BY <1>3
  <2>2. Above(1, 0) = 1
    <3>1. Above(1, 0) = 1 \div TwoTo[0] /\ TwoTo[0] = 1
      BY TwoToFacts DEF Above
    <3> QED BY <3>1
  <2> HIDE DEF p, h
  <2> QED BY <1>1, <1>2, <2>1, <2>2 DEF UpIs
<1>5. d \in 1 .. d /\ d \in Nat /\ d - d = 0 /\ TwoTo[0] = 1 /\ Depth(t) = d /\ 1 \in 1 .. TwoTo[d] /\ TwoTo[d] \in Nat
  <2>1. TwoTo[d] \in Nat \ {0} /\ d \in Nat /\ d # 0 /\ Depth(t) = d
    BY DepthFacts DEF TreeOf
  <2> QED BY <2>1, TwoToFacts
<1>6. N[d][1] = TwoToOne(N[d - 1][1], N[d - 1][2])
  <2>1. 1 \in 1 .. TwoTo[d - d] /\ 2 * 1 - 1 = 1 /\ 2 * 1 = 2
    BY <1>5
  <2>2. N[d][1] = TwoToOne(N[d - 1][2 * 1 - 1], N[d - 1][2 * 1])
    BY <1>5, <2>1, NodeFacts
  <2> QED BY <2>1, <2>2
<1>7. N[d - 1][1] = h
  <2>1. TwoToOne(h, f[0]) = TwoToOne(N[d - 1][1], N[d - 1][2])
    BY <1>3, <1>4, <1>5, <1>6 DEF Root
  <2> HIDE DEF h, N
  <2> QED BY <2>1, FreeHashes
<1>8. h = LeafHash("byte")
  BY DEF LeafHash
<1>9. CASE d = 1
  <2>1. N[0][1] = LeafHash(t[1])
    BY <1>5, NodeFacts
  <2>2. LeafHash("byte") = LeafHash(t[1])
    BY <1>7, <1>8, <1>9, <2>1
  <2>3. t[1] = "byte"
    BY <2>2, FreeHashes
  <2>4. t[1] \in Keys
    BY <1>5 DEF TreeOf
  <2> QED BY <2>3, <2>4, CircuitAssumption
<1>10. CASE d # 1
  <2>1. d - 1 \in 1 .. d /\ d - (d - 1) = 1 /\ 1 \in 1 .. TwoTo[1]
    <3>1. 1 < TwoTo[1] /\ TwoTo[1] \in Nat
      BY TwoToFacts
    <3> QED BY <1>5, <1>10, <3>1
  <2>2. N[d - 1][1] = TwoToOne(N[d - 1 - 1][2 * 1 - 1], N[d - 1 - 1][2 * 1])
    BY <2>1, NodeFacts
  <2>3. LeafHash("byte") = TwoToOne(N[d - 1 - 1][2 * 1 - 1], N[d - 1 - 1][2 * 1])
    BY <1>7, <1>8, <2>2
  <2> QED BY <2>3, FreeHashes
<1> QED BY <1>9, <1>10

LEMMA CircuitStep == CircuitInv /\ [CircuitNext]_circuitVars => CircuitInv'
<1> SUFFICES ASSUME CircuitInv, [CircuitNext]_circuitVars PROVE CircuitInv'
  OBVIOUS
<1> USE DEF CircuitInv
<1>1. PICK d : TreeOf(tree, d) /\ Len(tree) = TwoTo[d] /\ DOMAIN tree = 1 .. TwoTo[d]
  BY TreesHaveDepth
<1>2. Paths = PathsOf(tree, d)
  BY <1>1 DEF Paths, PathsOf
<1>3. ASSUME NEW leaf \in Keys \cup {None}, NEW path \in Paths, Setup(leaf, path) PROVE CircuitInv'
  <2>1. /\ params = None /\ tree' = tree /\ zkProof' = zkProof /\ zkVerdict' = zkVerdict
        /\ params' = [depth |-> Shape(path), over |-> IF path = None THEN 2 ELSE Len(tree)]
    BY <1>3 DEF Setup
  <2>2. ParamsOf(params')
    <3>1. d \in 1 .. MaxDepth
      BY <1>1 DEF TreeOf
    <3>2. CASE path = None
      <4>1. Shape(path) = 0 /\ TwoTo[1] = 2 /\ 1 - 1 = 0
        <5>1. TwoTo[0 + 1] = 2 * TwoTo[0] /\ TwoTo[0] = 1 /\ 0 + 1 = 1
          BY TwoToFacts
        <5> QED BY <3>2, <5>1, EmptySeq DEF Shape, Witnessed, DefaultPath
      <4>2. 1 \in 1 .. MaxDepth
        BY <3>1, CircuitAssumption
      <4> QED BY <2>1, <3>2, <4>1, <4>2 DEF ParamsOf
    <3>3. CASE path # None
      <4>1. Shape(path) = d - 1
        BY <1>1, <1>2, <3>3, ShapeFacts DEF PathsOf
      <4> QED BY <1>1, <2>1, <3>1, <3>3, <4>1 DEF ParamsOf
    <3> QED BY <3>2, <3>3
  <2> QED BY <2>1, <2>2
<1>4. ASSUME NEW leaf \in Keys \cup {None}, NEW path \in Paths, ProveMembership(leaf, path) PROVE CircuitInv'
  <2>1. /\ params # None /\ zkProof = None /\ tree' = tree /\ params' = params /\ zkVerdict' = zkVerdict
        /\ zkProof' = [leaf |-> leaf, path |-> path, root |-> Root(tree), over |-> tree]
    BY <1>4 DEF ProveMembership
  <2>2. ProofOfTree(zkProof')
    BY <1>1, <1>2, <2>1 DEF ProofOfTree
  <2> QED BY <2>1, <2>2
<1>5. ASSUME NEW t \in Trees, Rebuild(t) PROVE CircuitInv'
  BY <1>5 DEF Rebuild
<1>6. CASE VerifyMembership
  <2>1. /\ zkProof # None /\ tree' = tree /\ params' = params /\ zkProof' = zkProof
        /\ zkVerdict' = VerdictOf(zkProof, params, Root(tree))
    BY <1>6 DEF VerifyMembership, VerdictOf
  <2> QED BY <2>1
<1>7. CASE UNCHANGED circuitVars
  BY <1>7 DEF circuitVars
<1> QED BY <1>3, <1>4, <1>5, <1>6, <1>7 DEF CircuitNext

LEMMA CircuitFacts == CircuitInv => CircuitsDecide
<1> SUFFICES ASSUME CircuitInv, zkVerdict # None
             PROVE  zkVerdict <=> /\ tree = zkProof.over /\ Len(tree) = params.over
                                  /\ \E i \in DOMAIN tree : /\ zkProof.path = PathOf(tree, i - 1)
                                                            /\ tree[i] = LeafOf(zkProof.leaf)
  BY DEF CircuitsDecide
<1> DEFINE p == zkProof
           x == LeafOf(p.leaf)
<1>1. PICK e : TreeOf(tree, e) /\ Len(tree) = TwoTo[e] /\ DOMAIN tree = 1 .. TwoTo[e]
  BY TreesHaveDepth DEF CircuitInv
<1>2. PICK d : TreeOf(p.over, d) /\ p.root = Root(p.over) /\ p.path \in PathsOf(p.over, d)
  BY DEF CircuitInv, ProofOfTree
<1>3. PICK c \in 1 .. MaxDepth : params = [depth |-> c - 1, over |-> TwoTo[c]]
  BY DEF CircuitInv, ParamsOf
<1>4. params.depth = c - 1 /\ params.over = TwoTo[c] /\ c \in Nat
  BY <1>3, CircuitAssumption
<1>5. zkVerdict = /\ Shape(p.path) = params.depth /\ p.root = Root(tree)
                  /\ LeadsTo(x, Witnessed(p.path)) = p.root
  BY DEF CircuitInv, VerdictOf, ConstraintsHold
<1>6. ASSUME tree = p.over PROVE e = d
  BY <1>1, <1>2, <1>6, DepthFacts
<1>7. ASSUME zkVerdict
      PROVE  /\ tree = p.over /\ Len(tree) = params.over
             /\ \E i \in DOMAIN tree : p.path = PathOf(tree, i - 1) /\ tree[i] = x
  <2>1. Shape(p.path) = c - 1 /\ Root(p.over) = Root(tree) /\ LeadsTo(x, Witnessed(p.path)) = Root(tree)
    BY <1>2, <1>4, <1>5, <1>7
  <2>2. tree = p.over
    BY <1>1, <1>2, <2>1, RootsDiffer
  <2>3. p.path # None
    <3> SUFFICES ASSUME p.path = None PROVE FALSE
      OBVIOUS
    <3>1. LeadsTo(x, DefaultPath) = Root(tree)
      BY <2>1 DEF Witnessed
    <3> QED BY <1>1, <3>1, NoPathLeads
  <2>4. PICK j \in 0 .. TwoTo[d] - 1 : p.path = PathOf(tree, j)
    BY <1>2, <2>2, <2>3 DEF PathsOf
  <2>5. TreeOf(tree, d) /\ e = d /\ d \in Nat /\ TwoTo[d] \in Nat
    BY <1>2, <1>6, <2>2, DepthFacts
  <2>6. Shape(p.path) = d - 1 /\ Witnessed(p.path) = PathOf(tree, j)
    BY <2>4, <2>5, ShapeFacts
  <2>7. c = d
    BY <1>4, <2>1, <2>5, <2>6
  <2>8. tree[j + 1] = x
    BY <2>1, <2>5, <2>6, PathLeads
  <2>9. j + 1 \in DOMAIN tree /\ (j + 1) - 1 = j
    BY <1>1, <2>5
  <2> QED BY <1>1, <1>4, <2>2, <2>4, <2>5, <2>7, <2>8, <2>9
<1>8. ASSUME tree = p.over, Len(tree) = params.over,
             NEW i \in DOMAIN tree, p.path = PathOf(tree, i - 1), tree[i] = x
      PROVE  zkVerdict
  <2>1. e \in Nat /\ TwoTo[e] \in Nat /\ TwoTo[c] = TwoTo[e]
    BY <1>1, <1>4, <1>8, DepthFacts
  <2>2. e = c
    <3>1. e < c => e \in 0 .. c - 1 /\ TwoTo[e] < TwoTo[c]
      <4>1. e < c => e \in 0 .. c - 1
        BY <1>4, <2>1
      <4> QED BY <1>4, <4>1, TwoToFacts
    <3>2. c < e => TwoTo[c] < TwoTo[e]
      <4>1. c < e => c \in 0 .. e - 1
        BY <1>4, <2>1
      <4> QED BY <2>1, <4>1, TwoToFacts
    <3> QED BY <1>4, <2>1, <3>1, <3>2
  <2>3. i - 1 \in 0 .. TwoTo[e] - 1 /\ (i - 1) + 1 = i
    BY <1>1, <2>1
  <2>4. Shape(p.path) = e - 1 /\ Witnessed(p.path) = p.path
    BY <1>1, <1>8, <2>3, ShapeFacts
  <2>5. LeadsTo(x, PathOf(tree, i - 1)) = Root(tree)
    BY <1>1, <1>8, <2>3, PathLeads
  <2> QED BY <1>2, <1>4, <1>5, <1>8, <2>2, <2>4, <2>5
<1>9. zkVerdict \in BOOLEAN
  BY <1>5
<1> QED BY <1>7, <1>8, <1>9

\* For every tree of any depth, and parameters and proofs made in any order with
\* the tree rebuilt in between, a proof of the circuit verifies exactly for a key at
\* the place of its path in the tree it was made with (constraints.rs:40-96).
THEOREM CircuitsVerify == CircuitSpec => []CircuitsDecide
<1>1. CircuitInit => CircuitInv
  BY DEF CircuitInit, CircuitInv
<1> QED BY <1>1, CircuitStep, CircuitFacts, PTL DEF CircuitSpec

-----------------------------------------------------------------------------
(* Points and scalars through serde. *)

Formats == {"compact", "readable", "json"}

\* What from_bytes gives is what the bytes encode.
LEMMA ElementFacts ==
  ASSUME NEW k, NEW l, NEW n, ElementFromBytes(k, l, n) # Err
  PROVE  /\ ElementFromBytes(k, l, n) = n /\ n \in Valid
         /\ k = "point" => l \in {Compressed, Uncompressed}
         /\ k # "point" => l = ScalarLength
BY DEF ElementFromBytes

\* A value that is read says the element that is read; or it is the text of a scalar in JSON.
LEMMA ValueSays ==
  ASSUME NEW k \in Sorts, NEW f \in Formats, NEW v \in EntryValues, ValueFromBytes(k, f, v) # Err
  PROVE  /\ ValueFromBytes(k, f, v) \in Valid
         /\ \/ Says(k, v, ValueFromBytes(k, f, v))
            \/ k = "scalar" /\ f = "json" /\ v.form = "str"
<1> DEFINE m == Method(f, AskedFor(k, f), v)
           r == ValueFromBytes(k, f, v)
<1>1. v.length \in Nat /\ v.form \in {"str", "bytes", "seq"}
  BY DEF EntryValues
<1>2. Compressed \in Nat /\ Uncompressed \in Nat /\ ScalarLength \in Nat /\ Compressed < Uncompressed
  BY SerdeAssumption
<1>3. k = "point" \/ k = "scalar"
  BY DEF Sorts
<1>4. /\ k = "point" => Lengths(k) = {Compressed, Uncompressed}
      /\ k = "scalar" => Lengths(k) = {ScalarLength}
  BY DEF Lengths, Full
<1>5. CASE m = "bytes"
  <2>1. r = ElementFromBytes(k, v.length, v.raw)
    BY <1>5 DEF ValueFromBytes, VisitBytes
  <2>2. r = v.raw /\ r \in Valid /\ v.length \in Lengths(k)
    BY <1>3, <1>4, <2>1, ElementFacts
  <2>3. v.form = "bytes" \/ (k = "scalar" /\ f = "json" /\ v.form = "str")
    BY <1>1, <1>3, <1>5 DEF Method, AskedFor, IsHumanReadable
  <2> QED BY <2>2, <2>3 DEF Says
<1>6. CASE m = "seq"
  <2>1. v.form = "seq"
    BY <1>1, <1>6 DEF Method, AskedFor, IsHumanReadable
  <2>2. CASE k = "point"
    <3>1. r = VisitPointSeq(v)
      BY <1>6, <2>2 DEF ValueFromBytes
    <3> DEFINE l == IF v.length < Uncompressed THEN v.length ELSE Uncompressed
    <3>2. VisitPointSeq(v) # Err
      BY <3>1
    <3>3. r = ElementFromBytes("point", l, v.raw) /\ (l # Uncompressed => l = Compressed) /\ (l = Uncompressed => ~ (v.length > Uncompressed))
      BY <3>1, <3>2 DEF VisitPointSeq
    <3>4. v.length = l /\ v.length \in Lengths(k)
      BY <1>1, <1>2, <1>4, <2>2, <3>3
    <3>5. r = v.raw /\ r \in Valid
      BY <3>3, ElementFacts
    <3> QED BY <2>1, <3>4, <3>5 DEF Says
  <2>3. CASE k = "scalar"
    <3>1. r = VisitScalarSeq(v)
      BY <1>6, <2>3 DEF ValueFromBytes
    <3>2. r = ElementFromBytes("scalar", v.length, v.raw) /\ v.length = ScalarLength
      BY <3>1 DEF VisitScalarSeq
    <3>3. r = v.raw /\ r \in Valid
      BY <3>2, ElementFacts
    <3> QED BY <1>4, <2>1, <2>3, <3>2, <3>3 DEF Says
  <2> QED BY <1>3, <2>2, <2>3
<1>7. CASE m = "str"
  <2>1. v.form = "str"
    BY <1>1, <1>7 DEF Method, AskedFor, IsHumanReadable
  <2>2. CASE k = "point"
    <3>1. r = VisitPointStr(v)
      BY <1>7, <2>2 DEF ValueFromBytes
    <3>2. v.length \in {2 * Uncompressed, 2 * Compressed} /\ r = ElementFromBytes("point", v.length \div 2, v.hex)
      BY <3>1 DEF VisitPointStr
    <3>3. r = v.hex /\ r \in Valid
      BY <3>2, ElementFacts
    <3> QED BY <1>4, <2>1, <2>2, <3>2, <3>3 DEF Says
  <2>3. CASE k = "scalar"
    <3>1. r = VisitScalarStr(v)
      BY <1>7, <2>3 DEF ValueFromBytes
    <3>2. v.length = 2 * ScalarLength /\ r = ElementFromBytes("scalar", ScalarLength, v.hex)
      BY <3>1 DEF VisitScalarStr
    <3>3. r = v.hex /\ r \in Valid
      BY <3>2, ElementFacts
    <3> QED BY <1>4, <2>1, <2>3, <3>2, <3>3 DEF Says
  <2> QED BY <1>3, <2>2, <2>3
<1>8. m \in {"bytes", "seq", "str", "none"}
  BY <1>1 DEF Method, AskedFor, IsHumanReadable
<1>9. m # "none"
  BY DEF ValueFromBytes
<1> QED BY <1>5, <1>6, <1>7, <1>8, <1>9

\* The two entries that are written.
WrittenValue(k, f, n) ==
  IF IsHumanReadable(f) THEN Text("", 2 * Full(k), -1, n) ELSE BytesOf(Full(k), n)

LEMMA WrittenFacts ==
  ASSUME NEW k \in Sorts, NEW f \in Formats, NEW n \in Valid
  PROVE  /\ Written(k, f, n) = <<Entry("curve", OwnName), Entry("value", WrittenValue(k, f, n))>>
         /\ OwnName \in EntryValues /\ WrittenValue(k, f, n) \in EntryValues
<1>1. Compressed \in Nat /\ ScalarLength \in Nat /\ n \in Int
  BY SerdeAssumption
<1>2. Full(k) \in Nat /\ 2 * Full(k) \in Nat
  BY <1>1 DEF Full
<1>3. OwnName \in EntryValues
  BY DEF OwnName, Text, EntryValues
<1>4. WrittenValue(k, f, n) \in EntryValues
  BY <1>1, <1>2 DEF WrittenValue, Text, BytesOf, EntryValues
<1>5. k = "point" \/ k = "scalar"
  BY DEF Sorts
<1> QED BY <1>3, <1>4, <1>5 DEF Written, WrittenPoint, WrittenScalar, WrittenValue, Full

\* They read as the own curve's name and as the element, or, a scalar in JSON, not at all.
LEMMA WrittenReads ==
  ASSUME NEW k \in Sorts, NEW f \in Formats, NEW n \in Valid
  PROVE  /\ CurveNameGuard(f, OwnName) = "own"
         /\ k = "point" \/ f # "json" => ValueFromBytes(k, f, WrittenValue(k, f, n)) = n
         /\ ~ (k = "point" \/ f # "json") => ValueFromBytes(k, f, WrittenValue(k, f, n)) = Err
<1> DEFINE v == WrittenValue(k, f, n)
<1>1. Compressed \in Nat \ {0} /\ ScalarLength \in Nat \ {0} /\ n \in Nat /\ n # -1
  BY SerdeAssumption
<1>2. CurveNameGuard(f, OwnName) = "own"
  BY DEF CurveNameGuard, Method, OwnName, Text
<1>3. CASE ~ IsHumanReadable(f)
  <2>1. v.form = "bytes" /\ v.length = Full(k) /\ v.raw = n /\ f # "json"
    BY <1>3 DEF WrittenValue, BytesOf, IsHumanReadable
  <2>2. Method(f, AskedFor(k, f), v) = "bytes"
    BY <2>1 DEF Method
  <2>3. ValueFromBytes(k, f, v) = ElementFromBytes(k, Full(k), n)
    BY <2>1, <2>2 DEF ValueFromBytes, VisitBytes
  <2>4. ElementFromBytes(k, Full(k), n) = n
    BY DEF ElementFromBytes, Full
  <2> QED BY <1>2, <2>1, <2>3, <2>4
<1>4. CASE IsHumanReadable(f)
  <2>1. v.form = "str" /\ v.length = 2 * Full(k) /\ v.hex = n /\ v.raw = -1
    BY <1>4 DEF WrittenValue, Text
  <2>2. CASE k = "point"
    <3>1. Method(f, AskedFor(k, f), v) = "str"
      BY <1>4, <2>1, <2>2 DEF Method, AskedFor
    <3>2. ValueFromBytes(k, f, v) = VisitPointStr(v)
      BY <2>2, <3>1 DEF ValueFromBytes
    <3>3. v.length = 2 * Compressed /\ (2 * Compressed) \div 2 = Compressed
      BY <1>1, <2>1, <2>2 DEF Full
    <3>4. VisitPointStr(v) = ElementFromBytes("point", Compressed, n)
      BY <1>1, <2>1, <3>3 DEF VisitPointStr
    <3>5. ElementFromBytes("point", Compressed, n) = n
      BY DEF ElementFromBytes
    <3> QED BY <1>2, <2>2, <3>2, <3>4, <3>5
  <2>3. CASE k = "scalar"
    <3>1. CASE f # "json"
      <4>1. Method(f, AskedFor(k, f), v) = "str"
        BY <2>1, <3>1 DEF Method
      <4>2. ValueFromBytes(k, f, v) = VisitScalarStr(v)
        BY <2>3, <4>1 DEF ValueFromBytes
      <4>3. VisitScalarStr(v) = ElementFromBytes("scalar", ScalarLength, n)
        BY <1>1, <2>1, <2>3 DEF VisitScalarStr, Full
      <4>4. ElementFromBytes("scalar", ScalarLength, n) = n
        BY DEF ElementFromBytes
      <4> QED BY <1>2, <3>1, <4>2, <4>3, <4>4
    <3>2. CASE f = "json"
      <4>1. Method(f, AskedFor(k, f), v) = "bytes"
        BY <2>1, <2>3, <3>2 DEF Method, AskedFor
      <4>2. ValueFromBytes(k, f, v) = ElementFromBytes(k, 2 * ScalarLength, -1)
        BY <2>1, <2>3, <4>1 DEF ValueFromBytes, VisitBytes, Full
      <4>3. 2 * ScalarLength # ScalarLength
        BY <1>1
      <4>4. ElementFromBytes(k, 2 * ScalarLength, -1) = Err
        BY <2>3, <4>3 DEF ElementFromBytes
      <4> QED BY <1>2, <2>3, <3>2, <4>2, <4>4
    <3> QED BY <3>1, <3>2
  <2> QED BY <2>2, <2>3 DEF Sorts
<1> QED BY <1>3, <1>4

-----------------------------------------------------------------------------
\* An entry that gave the name, and one that gave the element.
NamedBy(i) ==
  /\ CurveNameGuard(format, document[i].value) = "own"
  /\ IF shape = "seq" THEN i = 1 ELSE document[i].key = "curve"
ReadFrom(j) ==
  /\ value = ValueFromBytes(sort, format, document[j].value) /\ value # Err
  /\ IF shape = "seq" THEN j = 2 ELSE document[j].key = "value"

Entries == [key : {"curve", "value", "unknown"}, value : EntryValues]
Kept == sort = "point" \/ format # "json"

SerdeTypes ==
  /\ sort \in Sorts /\ format \in Formats /\ shape \in {"map", "seq"}
  /\ document \in Seq(Entries) /\ at \in 0 .. Len(document)
  /\ written # None => written \in Valid /\ document = Written(sort, format, written)

Visited ==
  /\ curve_name \in {None, "own"} /\ (value # None => value \in Valid)
  /\ at = (IF curve_name = None THEN 0 ELSE 1) + (IF value = None THEN 0 ELSE 1)
  /\ curve_name # None => \E i \in 1 .. at : NamedBy(i)
  /\ value # None => \E j \in 1 .. at : ReadFrom(j)
  /\ shape = "seq" /\ value # None => curve_name # None

Ended ==
  /\ phase \in {"read", "done"}
  /\ phase = "done" /\ element # Err =>
       at = Len(document) /\ curve_name # None /\ value # None /\ element = value
  /\ phase = "done" /\ written # None /\ Kept => element = written

SerdeInv == SerdeTypes /\ Visited /\ Ended

LEMMA OutcomeFacts ==
  /\ None # Err /\ None # "own" /\ Err # "own" /\ \A n \in Valid : n # None /\ n # Err /\ n \in Int
<1>1. None # Err /\ None \notin Int /\ Err \notin Int
  BY OutcomesDiffer
<1>2. Valid \subseteq Nat /\ "own" \notin {None, Err}
  BY SerdeAssumption
<1>3. Valid \subseteq Int
  BY <1>2
<1> QED BY <1>1, <1>2, <1>3

LEMMA SerdeInitial == SerdeInit => SerdeInv
<1> SUFFICES ASSUME SerdeInit PROVE SerdeInv
  OBVIOUS
<1>1. /\ phase = "read" /\ at = 0 /\ curve_name = None /\ value = None
      /\ sort \in Sorts /\ format \in Formats /\ shape \in {"map", "seq"}
  BY DEF SerdeInit, Formats
<1>2. document \in Seq(Entries) /\ (written # None => written \in Valid /\ document = Written(sort, format, written))
  <2>1. CASE written = None /\ document = <<>>
    BY <2>1, EmptySeq
  <2>2. ASSUME NEW n \in Valid, written = n, document = Written(sort, format, n)
        PROVE  document \in Seq(Entries) /\ written \in Valid /\ document = Written(sort, format, written)
    <3>1. /\ document = <<Entry("curve", OwnName), Entry("value", WrittenValue(sort, format, n))>>
          /\ OwnName \in EntryValues /\ WrittenValue(sort, format, n) \in EntryValues
      BY <1>1, <2>2, WrittenFacts
    <3>2. Entry("curve", OwnName) \in Entries /\ Entry("value", WrittenValue(sort, format, n)) \in Entries
      BY <3>1 DEF Entries, Entry
    <3>3. document \in Seq(Entries)
      BY <3>1, <3>2
    <3> QED BY <2>2, <3>3
  <2> QED BY <2>1, <2>2 DEF SerdeInit
<1>3. at \in 0 .. Len(document)
  BY <1>1, <1>2
<1> QED BY <1>1, <1>2, <1>3 DEF SerdeInv, SerdeTypes, Visited, Ended

\* What was visited stays so when the document goes on.
SameEntries(n) == \A i \in 1 .. n : document'[i] = document[i]

LEMMA VisitedStays ==
  ASSUME SerdeInv, SameEntries(at), UNCHANGED <<sort, format, shape, at, curve_name, value>>
  PROVE  Visited'
<1>1. Visited /\ sort' = sort /\ format' = format /\ shape' = shape /\ at' = at /\ curve_name' = curve_name /\ value' = value
  BY DEF SerdeInv
<1>2. ASSUME NEW i \in 1 .. at PROVE NamedBy(i) => NamedBy(i)'
  <2>1. document'[i] = document[i]
    BY DEF SameEntries
  <2> QED BY <1>1, <2>1 DEF NamedBy
<1>3. ASSUME NEW j \in 1 .. at PROVE ReadFrom(j) => ReadFrom(j)'
  <2>1. document'[j] = document[j]
    BY DEF SameEntries
  <2> QED BY <1>1, <2>1 DEF ReadFrom
<1> QED BY <1>1, <1>2, <1>3 DEF Visited

\* What the entry that comes next can be, of a document that was written.
LEMMA NextWritten ==
  ASSUME SerdeInv, written # None, at < Len(document)
  PROVE  /\ Len(document) = 2 /\ document[1] = Entry("curve", OwnName)
         /\ document[2] = Entry("value", WrittenValue(sort, format, written))
         /\ at = 0 => curve_name = None /\ value = None
         /\ at = 1 => curve_name = "own" /\ value = None
         /\ at \in {0, 1}
<1>1. /\ sort \in Sorts /\ format \in Formats /\ written \in Valid /\ document = Written(sort, format, written)
      /\ at \in Nat /\ at <= Len(document)
  BY DEF SerdeInv, SerdeTypes
<1>2. document = <<Entry("curve", OwnName), Entry("value", WrittenValue(sort, format, written))>>
  BY <1>1, WrittenFacts
<1>3. /\ Len(document) = 2 /\ document[1] = Entry("curve", OwnName)
      /\ document[2] = Entry("value", WrittenValue(sort, format, written))
  BY <1>2
<1>4. at \in {0, 1}
  BY <1>1, <1>3
<1>5. Visited
  BY DEF SerdeInv
<1>6. at = 0 => curve_name = None /\ value = None
  BY <1>5 DEF Visited
<1>7. ASSUME at = 1 PROVE curve_name = "own" /\ value = None
  <2>1. value = None
    <3> SUFFICES ASSUME value # None PROVE FALSE
      OBVIOUS
    <3>1. curve_name = None
      BY <1>5, <1>7 DEF Visited
    <3>2. shape # "seq"
      BY <1>5, <3>1 DEF Visited
    <3>3. PICK j \in 1 .. at : ReadFrom(j)
      BY <1>5 DEF Visited
    <3>4. document[1].key = "value"
      BY <1>7, <3>2, <3>3 DEF ReadFrom
    <3> QED BY <1>3, <3>4 DEF Entry
  <2> QED BY <1>5, <1>7, <2>1 DEF Visited
<1> QED BY <1>3, <1>4, <1>6, <1>7

\* A field that is refused ends the reading, and only another's is.
LEMMA Refused ==
  ASSUME SerdeInv, Fail, UNCHANGED <<sort, format, shape, document, written, at, curve_name, value>>,
         ~ (written # None /\ Kept)
  PROVE  SerdeInv'
<1>1. SerdeTypes'
  BY DEF SerdeInv, SerdeTypes
<1>2. Visited'
  <2>1. SameEntries(at)
    BY DEF SameEntries
  <2> QED BY <2>1, VisitedStays
<1>3. phase' = "done" /\ element' = Err
  BY DEF Fail
<1>4. ~ (written' # None /\ Kept')
  BY DEF Kept
<1>5. Ended'
  BY <1>3, <1>4 DEF Ended
<1> QED BY <1>1, <1>2, <1>5 DEF SerdeInv

\* The entry that comes next is of these types.
LEMMA NextEntry ==
  ASSUME SerdeInv, at < Len(document)
  PROVE  /\ at \in Nat /\ at + 1 \in 1 .. Len(document) /\ document[at + 1] \in Entries
         /\ document[at + 1].value \in EntryValues
         /\ at + 1 \in 0 .. Len(document) /\ Len(document) \in Nat
<1>1. document \in Seq(Entries) /\ at \in 0 .. Len(document)
  BY DEF SerdeInv, SerdeTypes
<1>2. Len(document) \in Nat /\ at + 1 \in 1 .. Len(document)
  BY <1>1
<1>3. document[at + 1] \in Entries
  BY <1>1, <1>2
<1> QED BY <1>1, <1>2, <1>3 DEF Entries

LEMMA NameTaken ==
  ASSUME SerdeInv, phase = "read", at < Len(document), curve_name = None, curve_name' = "own", at' = at + 1,
         CurveNameGuard(format, document[at + 1].value) = "own",
         IF shape = "seq" THEN at = 0 ELSE document[at + 1].key = "curve",
         UNCHANGED <<phase, element, sort, format, shape, document, written, value>>
  PROVE  SerdeInv'
<1>1. at \in Nat /\ at + 1 \in 1 .. Len(document) /\ at + 1 \in 0 .. Len(document)
  BY NextEntry
<1>2. SerdeTypes'
  BY <1>1 DEF SerdeInv, SerdeTypes
<1>3. Ended'
  BY DEF SerdeInv, Ended
<1>4. Visited
  BY DEF SerdeInv
<1>5. at' = (IF curve_name' = None THEN 0 ELSE 1) + (IF value' = None THEN 0 ELSE 1)
  BY <1>1, <1>4, OutcomeFacts DEF Visited
<1>6. \E i \in 1 .. at' : NamedBy(i)'
  <2>1. PICK n \in Nat : n = at + 1
    BY <1>1
  <2>2. IF shape = "seq" THEN n = 1 ELSE document[n].key = "curve"
    BY <1>1, <2>1
  <2>3. NamedBy(n)'
    BY <2>1, <2>2 DEF NamedBy
  <2>4. n \in 1 .. at'
    BY <1>1, <2>1
  <2> QED BY <2>3, <2>4
<1>7. value # None => \E j \in 1 .. at' : ReadFrom(j)'
  <2> SUFFICES ASSUME value # None PROVE \E j \in 1 .. at' : ReadFrom(j)'
    OBVIOUS
  <2>1. PICK j \in 1 .. at : ReadFrom(j)
    BY <1>4 DEF Visited
  <2>2. ReadFrom(j)' /\ j \in 1 .. at'
    BY <1>1, <2>1 DEF ReadFrom
  <2> QED BY <2>2
<1>8. Visited'
  BY <1>4, <1>5, <1>6, <1>7, OutcomeFacts DEF Visited
<1> QED BY <1>2, <1>3, <1>8 DEF SerdeInv

LEMMA ValueTaken ==
  ASSUME SerdeInv, phase = "read", at < Len(document), value = None,
         value' = ValueFromBytes(sort, format, document[at + 1].value), value' # Err, at' = at + 1,
         IF shape = "seq" THEN at = 1 ELSE document[at + 1].key = "value",
         UNCHANGED <<phase, element, sort, format, shape, document, written, curve_name>>
  PROVE  SerdeInv'
<1>1. /\ at \in Nat /\ at + 1 \in 1 .. Len(document) /\ at + 1 \in 0 .. Len(document)
      /\ document[at + 1].value \in EntryValues
  BY NextEntry
<1>2. SerdeTypes'
  BY <1>1 DEF SerdeInv, SerdeTypes
<1>3. Ended'
  BY DEF SerdeInv, Ended
<1>4. Visited
  BY DEF SerdeInv
<1>5. value' \in Valid /\ value' # None
  <2>1. value' \in Valid
    BY <1>1, ValueSays DEF SerdeInv, SerdeTypes
  <2> QED BY <2>1, OutcomeFacts
<1>6. at' = (IF curve_name' = None THEN 0 ELSE 1) + (IF value' = None THEN 0 ELSE 1)
  BY <1>1, <1>4, <1>5 DEF Visited
<1>7. \E j \in 1 .. at' : ReadFrom(j)'
  <2>1. PICK n \in Nat : n = at + 1
    BY <1>1
  <2>2. IF shape = "seq" THEN n = 2 ELSE document[n].key = "value"
    BY <1>1, <2>1
  <2>3. ReadFrom(n)'
    BY <2>1, <2>2 DEF ReadFrom
  <2>4. n \in 1 .. at'
    BY <1>1, <2>1
  <2> QED BY <2>3, <2>4
<1>8. curve_name # None => \E i \in 1 .. at' : NamedBy(i)'
  <2> SUFFICES ASSUME curve_name # None PROVE \E i \in 1 .. at' : NamedBy(i)'
    OBVIOUS
  <2>1. PICK i \in 1 .. at : NamedBy(i)
    BY <1>4 DEF Visited
  <2>2. NamedBy(i)' /\ i \in 1 .. at'
    BY <1>1, <2>1 DEF NamedBy
  <2> QED BY <2>2
<1>9. shape = "seq" => curve_name # None
  BY <1>4 DEF Visited
<1>10. Visited'
  BY <1>4, <1>5, <1>6, <1>7, <1>8, <1>9 DEF Visited
<1> QED BY <1>2, <1>3, <1>10 DEF SerdeInv

LEMMA GuardFacts == \A f, v : CurveNameGuard(f, v) # Err => CurveNameGuard(f, v) = "own" /\ v.name = "own"
BY DEF CurveNameGuard

LEMMA ExtendKeeps == SerdeInv /\ Extend => SerdeInv'
<1> SUFFICES ASSUME SerdeInv, Extend PROVE SerdeInv'
  OBVIOUS
<1>1. PICK key \in {"curve", "value", "unknown"}, v \in Foreign[sort] : document' = Append(document, Entry(key, v))
  BY DEF Extend
<1>2. /\ phase = "read" /\ written = None /\ at = Len(document)
      /\ UNCHANGED <<phase, sort, format, shape, written, at, curve_name, value, element>>
  BY DEF Extend
<1>3. sort \in Sorts /\ document \in Seq(Entries)
  BY DEF SerdeInv, SerdeTypes
<1>4. Entry(key, v) \in Entries
  BY <1>3, SerdeAssumption DEF Entry, Entries
<1>5. document' \in Seq(Entries) /\ Len(document') = Len(document) + 1 /\ SameEntries(Len(document)) /\ Len(document) \in Nat
  BY <1>1, <1>3, <1>4 DEF SameEntries
<1>6. SerdeTypes'
  BY <1>2, <1>5 DEF SerdeInv, SerdeTypes
<1>7. Visited'
  BY <1>2, <1>5, VisitedStays
<1>8. Ended'
  BY <1>2 DEF SerdeInv, Ended
<1> QED BY <1>6, <1>7, <1>8 DEF SerdeInv

LEMMA CurveKeeps == SerdeInv /\ VisitCurve => SerdeInv'
<1> SUFFICES ASSUME SerdeInv, VisitCurve PROVE SerdeInv'
  OBVIOUS
<1> DEFINE g == CurveNameGuard(format, document[at + 1].value)
<1>1. /\ phase = "read" /\ shape = "map" /\ at < Len(document) /\ document[at + 1].key = "curve"
      /\ UNCHANGED <<sort, format, shape, document, written, value>>
  BY DEF VisitCurve
<1>2. CASE curve_name # None \/ g = Err
  <2>1. Fail /\ UNCHANGED <<at, curve_name>>
    BY <1>2 DEF VisitCurve
  <2>2. ASSUME written # None PROVE FALSE
    <3>1. document[1] = Entry("curve", OwnName) /\ document[2].key # "curve" /\ at \in {0, 1}
      BY <1>1, <2>2, NextWritten DEF Entry
    <3>2. at = 0
      BY <1>1, <3>1
    <3>3. curve_name = None /\ document[at + 1].value = OwnName
      BY <1>1, <2>2, <3>1, <3>2, NextWritten DEF Entry
    <3>4. g = "own"
      <4>1. sort \in Sorts /\ format \in Formats /\ written \in Valid
        BY <2>2 DEF SerdeInv, SerdeTypes
      <4> QED BY <3>3, <4>1, WrittenReads
    <3> QED BY <1>2, <3>3, <3>4, OutcomeFacts
  <2> QED BY <1>1, <2>1, <2>2, Refused
<1>3. CASE ~ (curve_name # None \/ g = Err)
  <2>1. curve_name' = g /\ at' = at + 1 /\ UNCHANGED <<phase, element>>
    BY <1>3 DEF VisitCurve
  <2>2. g = "own"
    BY <1>3, GuardFacts
  <2> QED BY <1>1, <1>3, <2>1, <2>2, NameTaken
<1> QED BY <1>2, <1>3

LEMMA ValueKeeps == SerdeInv /\ VisitValue => SerdeInv'
<1> SUFFICES ASSUME SerdeInv, VisitValue PROVE SerdeInv'
  OBVIOUS
<1> DEFINE v == ValueFromBytes(sort, format, document[at + 1].value)
<1>1. /\ phase = "read" /\ shape = "map" /\ at < Len(document) /\ document[at + 1].key = "value"
      /\ UNCHANGED <<sort, format, shape, document, written, curve_name>>
  BY DEF VisitValue
<1>2. CASE value # None \/ v = Err
  <2>1. Fail /\ UNCHANGED <<at, value>>
    BY <1>2 DEF VisitValue
  <2>2. ASSUME written # None, Kept PROVE FALSE
    <3>1. /\ document[1].key # "value" /\ at \in {0, 1}
          /\ document[2] = Entry("value", WrittenValue(sort, format, written))
      BY <1>1, <2>2, NextWritten DEF Entry
    <3>2. at = 1
      BY <1>1, <3>1
    <3>3. value = None /\ document[at + 1].value = WrittenValue(sort, format, written)
      BY <1>1, <2>2, <3>1, <3>2, NextWritten DEF Entry
    <3>4. v = written /\ written \in Valid
      <4>1. sort \in Sorts /\ format \in Formats /\ written \in Valid
        BY <2>2 DEF SerdeInv, SerdeTypes
      <4> QED BY <2>2, <3>3, <4>1, WrittenReads DEF Kept
    <3> QED BY <1>2, <3>3, <3>4, OutcomeFacts
  <2> QED BY <1>1, <2>1, <2>2, Refused
<1>3. CASE ~ (value # None \/ v = Err)
  <2>1. value' = v /\ at' = at + 1 /\ UNCHANGED <<phase, element>>
    BY <1>3 DEF VisitValue
  <2> QED BY <1>1, <1>3, <2>1, ValueTaken
<1> QED BY <1>2, <1>3

LEMMA UnknownKeeps == SerdeInv /\ VisitUnknown => SerdeInv'
<1> SUFFICES ASSUME SerdeInv, VisitUnknown PROVE SerdeInv'
  OBVIOUS
<1>1. /\ at < Len(document) /\ document[at + 1].key = "unknown" /\ Fail
      /\ UNCHANGED <<sort, format, shape, document, written, at, curve_name, value>>
  BY DEF VisitUnknown
<1>2. written = None
  <2> SUFFICES ASSUME written # None PROVE FALSE
    OBVIOUS
  <2>1. at \in {0, 1} /\ document[1].key = "curve" /\ document[2].key = "value"
    BY <1>1, NextWritten DEF Entry
  <2> QED BY <1>1, <2>1
<1> QED BY <1>1, <1>2, Refused

LEMMA NameKeeps == SerdeInv /\ VisitName => SerdeInv'
<1> SUFFICES ASSUME SerdeInv, VisitName PROVE SerdeInv'
  OBVIOUS
<1> DEFINE g == CurveNameGuard(format, document[1].value)
<1>1. /\ phase = "read" /\ shape = "seq" /\ at < Len(document) /\ at = 0
      /\ UNCHANGED <<sort, format, shape, document, written, value>>
  BY DEF VisitName
<1>2. CASE g = Err
  <2>1. Fail /\ UNCHANGED <<at, curve_name>>
    BY <1>2 DEF VisitName
  <2>2. ASSUME written # None PROVE FALSE
    <3>1. document[1].value = OwnName
      BY <1>1, <2>2, NextWritten DEF Entry
    <3>2. sort \in Sorts /\ format \in Formats /\ written \in Valid
      BY <2>2 DEF SerdeInv, SerdeTypes
    <3>3. g = "own"
      BY <3>1, <3>2, WrittenReads
    <3> QED BY <1>2, <3>3, OutcomeFacts
  <2> QED BY <1>1, <2>1, <2>2, Refused
<1>3. CASE g # Err
  <2>1. curve_name' = g /\ at' = 1 /\ UNCHANGED <<phase, element>>
    BY <1>3 DEF VisitName
  <2>2. g = "own" /\ at + 1 = 1
    BY <1>1, <1>3, GuardFacts
  <2>3. curve_name = None
    BY <1>1 DEF SerdeInv, Visited
  <2>4. CurveNameGuard(format, document[at + 1].value) = "own" /\ at' = at + 1 /\ curve_name' = "own"
    BY <2>1, <2>2
  <2> QED BY <1>1, <2>1, <2>3, <2>4, NameTaken
<1> QED BY <1>2, <1>3

LEMMA ElementKeeps == SerdeInv /\ VisitElement => SerdeInv'
<1> SUFFICES ASSUME SerdeInv, VisitElement PROVE SerdeInv'
  OBVIOUS
<1> DEFINE v == ValueFromBytes(sort, format, document[at + 1].value)
<1>1. /\ phase = "read" /\ shape = "seq" /\ at < Len(document) /\ at > 0
      /\ UNCHANGED <<sort, format, shape, document, written, curve_name>>
  BY DEF VisitElement
<1>2. CASE at > 1 \/ v = Err
  <2>1. Fail /\ UNCHANGED <<at, value>>
    BY <1>2 DEF VisitElement
  <2>2. ASSUME written # None, Kept PROVE FALSE
    <3>1. /\ at \in {0, 1} /\ document[2] = Entry("value", WrittenValue(sort, format, written))
      BY <1>1, <2>2, NextWritten
    <3>2. at = 1
      BY <1>1, <3>1
    <3>3. document[at + 1].value = WrittenValue(sort, format, written)
      BY <3>1, <3>2 DEF Entry
    <3>4. v = written /\ written \in Valid
      <4>1. sort \in Sorts /\ format \in Formats /\ written \in Valid
        BY <2>2 DEF SerdeInv, SerdeTypes
      <4> QED BY <2>2, <3>3, <4>1, WrittenReads DEF Kept
    <3> QED BY <1>2, <3>2, <3>4, OutcomeFacts
  <2> QED BY <1>1, <2>1, <2>2, Refused
<1>3. CASE ~ (at > 1 \/ v = Err)
  <2>1. value' = v /\ at' = 2 /\ UNCHANGED <<phase, element>>
    BY <1>3 DEF VisitElement
  <2>2. at = 1 /\ at' = at + 1
    <3>1. at \in Nat
      BY <1>1, NextEntry
    <3> QED BY <1>1, <1>3, <2>1, <3>1
  <2>3. value = None
    <3> SUFFICES ASSUME value # None PROVE FALSE
      OBVIOUS
    <3>1. curve_name # None
      BY <1>1 DEF SerdeInv, Visited
    <3> QED BY <2>2, <3>1 DEF SerdeInv, Visited
  <2> QED BY <1>1, <1>3, <2>1, <2>2, <2>3, ValueTaken
<1> QED BY <1>2, <1>3

\* The element of a document that was written, read to its end.
LEMMA WrittenElement ==
  ASSUME SerdeInv, written # None, value # None
  PROVE  Kept /\ value = written
<1>1. /\ sort \in Sorts /\ format \in Formats /\ written \in Valid /\ document = Written(sort, format, written)
      /\ at \in Nat /\ at <= Len(document)
  BY DEF SerdeInv, SerdeTypes
<1>2. document = <<Entry("curve", OwnName), Entry("value", WrittenValue(sort, format, written))>>
  BY <1>1, WrittenFacts
<1>3. /\ Len(document) = 2 /\ document[1].key = "curve"
      /\ document[2].value = WrittenValue(sort, format, written)
  BY <1>2 DEF Entry
<1>4. PICK j \in 1 .. at : ReadFrom(j)
  BY DEF SerdeInv, Visited
<1>5. j = 2
  <2>1. j \in {1, 2}
    BY <1>1, <1>3
  <2> QED BY <1>3, <1>4, <2>1 DEF ReadFrom
<1>6. value = ValueFromBytes(sort, format, WrittenValue(sort, format, written)) /\ value # Err
  BY <1>3, <1>4, <1>5 DEF ReadFrom
<1> QED BY <1>1, <1>6, WrittenReads DEF Kept

LEMMA EndKeeps == SerdeInv /\ End => SerdeInv'
<1> SUFFICES ASSUME SerdeInv, End PROVE SerdeInv'
  OBVIOUS
<1>1. /\ phase = "read" /\ at = Len(document) /\ phase' = "done"
      /\ element' = (IF None \in {curve_name, value} THEN Err ELSE value)
      /\ UNCHANGED <<sort, format, shape, document, written, at, curve_name, value>>
  BY DEF End
<1>2. SerdeTypes'
  BY <1>1 DEF SerdeInv, SerdeTypes
<1>3. Visited'
  <2>1. SameEntries(at)
    BY <1>1 DEF SameEntries
  <2> QED BY <1>1, <2>1, VisitedStays
<1>4. ASSUME written # None PROVE curve_name # None /\ value # None
  <2>1. Len(document) = 2
    <3>1. sort \in Sorts /\ format \in Formats /\ written \in Valid /\ document = Written(sort, format, written)
      BY <1>4 DEF SerdeInv, SerdeTypes
    <3>2. document = <<Entry("curve", OwnName), Entry("value", WrittenValue(sort, format, written))>>
      BY <3>1, WrittenFacts
    <3> QED BY <3>2
  <2> QED BY <1>1, <2>1 DEF SerdeInv, Visited
<1>5. Ended'
  <2>1. element' # Err => curve_name # None /\ value # None /\ element' = value
    BY <1>1
  <2>2. written # None /\ Kept => element' = written
    BY <1>1, <1>4, WrittenElement
  <2> QED BY <1>1, <2>1, <2>2 DEF Ended, Kept
<1> QED BY <1>2, <1>3, <1>5 DEF SerdeInv

LEMMA SerdeStep == SerdeInv /\ [SerdeNext]_serdeVars => SerdeInv'
<1> SUFFICES ASSUME SerdeInv, [SerdeNext]_serdeVars PROVE SerdeInv'
  OBVIOUS
<1>1. CASE UNCHANGED serdeVars
  <2>1. UNCHANGED <<phase, sort, format, shape, document, written, at, curve_name, value, element>>
    BY <1>1 DEF serdeVars
  <2>2. SerdeTypes' /\ Ended'
    BY <2>1 DEF SerdeInv, SerdeTypes, Ended, Kept
  <2>3. Visited'
    <3>1. SameEntries(at)
      BY <2>1 DEF SameEntries
    <3> QED BY <2>1, <3>1, VisitedStays
  <2> QED BY <2>2, <2>3 DEF SerdeInv
<1> QED BY <1>1, ExtendKeeps, CurveKeeps, ValueKeeps, UnknownKeeps, NameKeeps, ElementKeeps, EndKeeps DEF SerdeNext

LEMMA SerdeFacts == SerdeInv => DocumentsDecide
<1> SUFFICES ASSUME SerdeInv PROVE DocumentsDecide
  OBVIOUS
<1>1. WrittenReadBack
  BY DEF SerdeInv, Ended, WrittenReadBack, Kept
<1>2. OnlyOwnDocuments
  <2> SUFFICES ASSUME phase = "done", element # Err
               PROVE  /\ Len(document) = 2
                      /\ \E i, j \in 1..2 : /\ document[i].value.name = "own"
                                            /\ \/ Says(sort, document[j].value, element)
                                               \/ sort = "scalar" /\ format = "json" /\ document[j].value.form = "str"
                                            /\ IF shape = "seq" THEN i = 1 /\ j = 2
                                               ELSE document[i].key = "curve" /\ document[j].key = "value"
                      /\ written \in {None, element}
    BY DEF OnlyOwnDocuments
  <2>1. at = Len(document) /\ curve_name # None /\ value # None /\ element = value
    BY DEF SerdeInv, Ended
  <2>2. Len(document) = 2 /\ at = 2
    BY <2>1 DEF SerdeInv, Visited
  <2>3. PICK i \in 1 .. 2 : NamedBy(i)
    BY <2>1, <2>2 DEF SerdeInv, Visited
  <2>4. PICK j \in 1 .. 2 : ReadFrom(j)
    BY <2>1, <2>2 DEF SerdeInv, Visited
  <2>5. document[i].value.name = "own"
    BY <2>3, GuardFacts, OutcomeFacts DEF NamedBy
  <2>6. /\ Says(sort, document[j].value, element)
           \/ (sort = "scalar" /\ format = "json" /\ document[j].value.form = "str")
    <3>1. document[j] \in Entries /\ sort \in Sorts /\ format \in Formats
      BY <2>2 DEF SerdeInv, SerdeTypes
    <3>2. document[j].value \in EntryValues
      BY <3>1 DEF Entries
    <3> QED BY <2>1, <2>4, <3>1, <3>2, ValueSays DEF ReadFrom
  <2>7. IF shape = "seq" THEN i = 1 /\ j = 2 ELSE document[i].key = "curve" /\ document[j].key = "value"
    BY <2>3, <2>4 DEF NamedBy, ReadFrom
  <2>8. written \in {None, element}
    BY <2>1, WrittenElement
  <2> QED BY <2>2, <2>5, <2>6, <2>7, <2>8
<1> QED BY <1>1, <1>2 DEF DocumentsDecide

\* Whatever the lengths of the encodings, the numbers that encode an element and the
\* entries of another's document, in any order: a document that is read has the own
\* curve's name and a value that says the element, each once; a point that was
\* written reads back in every format, and a scalar in all but JSON
\* (serde_support.rs:18-434).
THEOREM DocumentsRead == SerdeSpec => []DocumentsDecide
BY SerdeInitial, SerdeStep, SerdeFacts, PTL DEF SerdeSpec

-----------------------------------------------------------------------------
(* The groups below the wrappers. *)

\* The multiples of C modulo O * C.
LEMMA MultipleMod ==
  ASSUME NEW O \in Nat \ {0}, NEW C \in Nat \ {0}, NEW n \in Int
  PROVE  O * C \in Nat \ {0} /\ (n * C) % (O * C) = (n % O) * C /\ (n % O) * C \in 0 .. O * C - 1
<1> DEFINE r == n % O
           N == O * C
           u == r * C
<1>1. r \in 0 .. O - 1 /\ \E q \in Int : n = q * O + r
  BY ModRange
<1>2. PICK q \in Int : n = q * O + r
  BY <1>1
<1> HIDE DEF r
<1>3. N \in Nat \ {0}
  <2>1. O * C >= O
    BY Z3
  <2> QED BY <2>1
<1>4. u \in 0 .. N - 1
  <2>1. r \in Nat /\ r + 1 <= O
    BY <1>1
  <2>2. (r + 1) * C <= O * C
    BY <2>1, Z3
  <2>3. (r + 1) * C = r * C + C /\ r * C \in Nat
    BY <2>1, Z3
  <2>4. u \in Nat /\ u + C <= N
    BY <2>2, <2>3
  <2> HIDE DEF u, N
  <2> QED BY <1>3, <2>4
<1>5. n * C = q * N + u
  <2>1. (q * O + r) * C = (q * O) * C + r * C
    BY <1>1, Z3
  <2>2. (q * O) * C = q * (O * C)
    BY Z3
  <2> QED BY <1>2, <2>1, <2>2
<1> HIDE DEF N, u
<1>6. (q * N + u) % N = u
  BY <1>3, <1>4, ModUnique
<1> QED BY <1>3, <1>4, <1>5, <1>6 DEF N, u, r

LEMMA GroupFacts ==
  /\ GroupOrder \in Nat \ {0} /\ GroupOrder > 1 /\ NoDivisor(GroupOrder)
  /\ 0 \in 0 .. GroupOrder - 1 /\ 1 \in 0 .. GroupOrder - 1
  /\ \A n \in Int : n % GroupOrder \in 0 .. GroupOrder - 1
  /\ \A n \in 0 .. GroupOrder - 1 : n \in Int /\ n % GroupOrder = n
<1>1. GroupOrder \in Nat \ {0} /\ GroupOrder > 1 /\ NoDivisor(GroupOrder)
  BY WrapAssumption DEF NoDivisor
<1>2. \A n \in Int : n % GroupOrder \in 0 .. GroupOrder - 1
  BY <1>1, ModRange
<1>3. \A n \in 0 .. GroupOrder - 1 : n \in Int /\ n % GroupOrder = n
  BY <1>1, ModSmall
<1> QED BY <1>1, <1>2, <1>3

\* What a key that is never zero stands for.
Key(n) == Ok(n)

LEMMA KeyFacts ==
  ASSUME NEW n \in 0 .. GroupOrder - 1
  PROVE  /\ Key(n) # Err /\ Key(n) # Panic /\ (Key(n) = None <=> n = 0) /\ (n # 0 => Key(n) = n)
BY OutcomesDiffer, GroupFacts DEF Key, Ok

LEMMA KeySum ==
  ASSUME NEW l \in 0 .. GroupOrder - 1, NEW m \in 0 .. GroupOrder - 1
  PROVE  SecpScalarAdd(Key(l), Key(m)) = Key((l + m) % GroupOrder)
<1>1. l \in Int /\ m \in Int /\ l % GroupOrder = l /\ m % GroupOrder = m
  BY GroupFacts
<1>2. CASE l = 0
  <2>1. l + m = m
    BY <1>1, <1>2
  <2> QED BY <1>1, <1>2, <2>1, KeyFacts DEF SecpScalarAdd
<1>3. CASE l # 0 /\ m = 0
  <2>1. l + m = l
    BY <1>1, <1>3
  <2> QED BY <1>1, <1>3, <2>1, KeyFacts DEF SecpScalarAdd
<1>4. CASE l # 0 /\ m # 0
  BY <1>4, KeyFacts DEF SecpScalarAdd, Key
<1> QED BY <1>2, <1>3, <1>4

LEMMA KeyNegated ==
  ASSUME NEW l \in 0 .. GroupOrder - 1
  PROVE  SecpNeg(Key(l)) = Key((-l) % GroupOrder)
<1> DEFINE o == 1
           n == -l
           d == GroupOrder - l
<1>1. l \in Int /\ o \in Int /\ n \in Int /\ n + o * GroupOrder = d
  BY GroupFacts
<1>2. CASE l = 0
  <2>1. n = 0 /\ 0 % GroupOrder = 0
    <3>1. n + l = 0
      BY <1>1
    <3> HIDE DEF n
    <3> QED BY <1>1, <1>2, <3>1, GroupFacts
  <2> QED BY <1>2, <2>1, KeyFacts, GroupFacts DEF SecpNeg
<1>3. CASE l # 0
  <2>1. d \in 0 .. GroupOrder - 1 /\ d # 0
    BY <1>1, <1>3, GroupFacts
  <2>2. SecpNeg(Key(l)) = d
    BY <1>3, KeyFacts DEF SecpNeg
  <2> HIDE DEF o, n, d
  <2>3. (n + o * GroupOrder) % GroupOrder = n % GroupOrder
    BY <1>1, GroupFacts, ModShift
  <2>4. d % GroupOrder = d
    BY <2>1, GroupFacts
  <2>5. n % GroupOrder = d
    BY <1>1, <2>3, <2>4
  <2>6. Key(d) = d
    BY <2>1, KeyFacts
  <2> QED BY <2>2, <2>5, <2>6 DEF n
<1> QED BY <1>2, <1>3

LEMMA KeyDifference ==
  ASSUME NEW l \in 0 .. GroupOrder - 1, NEW m \in 0 .. GroupOrder - 1
  PROVE  SecpScalarSub(Key(l), Key(m)) = Key((l - m) % GroupOrder)
<1> DEFINE n == -m
           k == n % GroupOrder
<1>1. l \in Int /\ m \in Int /\ n \in Int /\ n + l = l - m
  BY GroupFacts
<1>2. SecpNeg(Key(m)) = Key(k)
  BY KeyNegated
<1> HIDE DEF n
<1>3. k \in 0 .. GroupOrder - 1 /\ k \in Int
  BY <1>1, GroupFacts
<1>4. (n + l) % GroupOrder = ((n % GroupOrder) + l) % GroupOrder
  BY <1>1, GroupFacts, ModPlus
<1> HIDE DEF k
<1>5. SecpScalarAdd(Key(l), Key(k)) = Key((l + k) % GroupOrder)
  BY <1>3, KeySum
<1>6. l + k = k + l
  BY <1>1, <1>3
<1> QED BY <1>1, <1>2, <1>4, <1>5, <1>6 DEF SecpScalarSub, k

LEMMA KeyProduct ==
  ASSUME NEW l \in 0 .. GroupOrder - 1, NEW m \in 0 .. GroupOrder - 1
  PROVE  SecpScalarMul(Key(l), Key(m)) = Key((l * m) % GroupOrder)
<1> DEFINE w == l * m
<1>1. l \in Int /\ m \in Int /\ 0 % GroupOrder = 0 /\ w \in Int
  BY GroupFacts
<1>2. CASE l = 0 \/ m = 0
  <2>1. w = 0
    <3>1. 0 * m = 0 /\ l * 0 = 0
      BY <1>1
    <3> QED BY <1>2, <3>1
  <2>2. None \in {Key(l), Key(m)} /\ Key(0) = None
    BY <1>2, KeyFacts, GroupFacts
  <2> HIDE DEF w
  <2> QED BY <1>1, <2>1, <2>2 DEF SecpScalarMul, w
<1>3. CASE l # 0 /\ m # 0
  <2>1. Key(l) = l /\ Key(m) = m /\ None \notin {Key(l), Key(m)}
    BY <1>3, KeyFacts
  <2>2. SecpScalarMul(Key(l), Key(m)) = w % GroupOrder
    BY <2>1 DEF SecpScalarMul
  <2>3. ~ Same(GroupOrder, l, 0)
    BY <1>1, <1>3, GroupFacts DEF Same
  <2>4. m \in 1 .. GroupOrder - 1
    BY <1>3, GroupFacts
  <2>5. ~ Same(GroupOrder, w, 0)
    BY <1>1, <2>3, <2>4, GroupFacts, PrimeNonzero
  <2> HIDE DEF w
  <2>6. w % GroupOrder # 0 /\ w % GroupOrder \in 0 .. GroupOrder - 1
    BY <1>1, <2>5, GroupFacts DEF Same
  <2> QED BY <2>2, <2>6, KeyFacts DEF w
<1> QED BY <1>2, <1>3

-----------------------------------------------------------------------------
(* What the functions of either library compute. *)

LEMMA LibraryFacts ==
  ASSUME lib \in Libraries
  PROVE  /\ Cofactor \in Nat \ {0} /\ Cofactor \in Int /\ GroupSize = GroupOrder * Cofactor /\ GroupSize \in Nat \ {0}
         /\ (Secp => Cofactor = 1 /\ GroupSize = GroupOrder)
         /\ Elements(lib) = 1 .. GroupSize - 1
         /\ \A n \in Int : /\ (n * Cofactor) % GroupSize = (n % GroupOrder) * Cofactor
                           /\ (n % GroupOrder) * Cofactor \in 0 .. GroupSize - 1
<1>1. Cofactor \in Nat \ {0} /\ (Secp => Cofactor = 1) /\ (~Secp => Cofactor = BlsCofactor)
  BY WrapAssumption DEF Cofactor
<1>2. GroupSize = GroupOrder * Cofactor /\ (Secp => GroupSize = GroupOrder)
  BY <1>1, GroupFacts DEF GroupSize
<1>3. Elements(lib) = 1 .. GroupSize - 1
  BY DEF Elements, GroupSize, Cofactor, Secp
<1> HIDE DEF Cofactor
<1>4. \A n \in Int : /\ GroupOrder * Cofactor \in Nat \ {0}
                     /\ (n * Cofactor) % (GroupOrder * Cofactor) = (n % GroupOrder) * Cofactor
                     /\ (n % GroupOrder) * Cofactor \in 0 .. GroupOrder * Cofactor - 1
  BY <1>1, GroupFacts, MultipleMod
<1>5. GroupSize \in Nat \ {0}
  BY <1>2, <1>4, 0 \in Int
<1> QED BY <1>1, <1>2, <1>3, <1>4, <1>5

\* The point a register holds of the multiple n of the generator.
Held(n) == PointOf(n * Cofactor)

LEMMA HeldFacts ==
  ASSUME lib \in Libraries, NEW n \in 0 .. GroupOrder - 1
  PROVE  /\ (Secp => Held(n) = Key(n) /\ ScalarOf(n) = Key(n))
         /\ (~Secp => Held(n) = n * Cofactor /\ ScalarOf(n) = n)
         /\ n * Cofactor \in 0 .. GroupSize - 1 /\ n * Cofactor \in Int /\ Held(n) # Err /\ Held(n) # Panic
         /\ (n = 0 <=> n * Cofactor = 0)
<1>1. n \in Int /\ n % GroupOrder = n
  BY GroupFacts
<1>2. n * Cofactor \in 0 .. GroupSize - 1 /\ GroupSize \in Int
  BY <1>1, LibraryFacts
<1>3. n * Cofactor \in Int
  BY <1>2
<1>4. Secp => n * Cofactor = n
  <2>1. n * 1 = n
    BY <1>1
  <2> QED BY <2>1, LibraryFacts
<1>5. n = 0 <=> n * Cofactor = 0
  <2>1. ASSUME NEW c \in Nat \ {0} PROVE n = 0 <=> n * c = 0
    <3>1. n = 0 => n * c = 0
      OBVIOUS
    <3>2. n # 0 => n * c >= c
      BY GroupFacts, Z3
    <3> QED BY <3>1, <3>2
  <2> QED BY <2>1, LibraryFacts
<1> DEFINE e == n * Cofactor
<1> HIDE DEF e
<1>6. /\ (Secp => PointOf(e) = Ok(e)) /\ (~Secp => PointOf(e) = e)
      /\ (Secp => ScalarOf(n) = Ok(n)) /\ (~Secp => ScalarOf(n) = n)
  BY DEF PointOf, ScalarOf, Ok
<1>7. e \in Int /\ (Secp => e = n)
  BY <1>3, <1>4 DEF e
<1>8. PointOf(e) # Err /\ PointOf(e) # Panic
  BY <1>7, OutcomesDiffer DEF PointOf
<1>9. /\ (Secp => PointOf(e) = Key(n) /\ ScalarOf(n) = Key(n))
      /\ (~Secp => PointOf(e) = e /\ ScalarOf(n) = n)
  BY <1>6, <1>7 DEF Key
<1> QED BY <1>2, <1>3, <1>5, <1>8, <1>9 DEF e, Held

LEMMA SecpFunctions ==
  ASSUME Secp
  PROVE  /\ \A x, y : /\ PointFn("add", x, y) = SecpScalarAdd(x, y) /\ PointFn("sub", x, y) = SecpScalarSub(x, y)
                      /\ PointFn("mul", x, y) = SecpScalarMul(x, y)
                      /\ ScalarFn("add", x, y) = SecpScalarAdd(x, y) /\ ScalarFn("sub", x, y) = SecpScalarSub(x, y)
                      /\ ScalarFn("mul", x, y) = SecpScalarMul(x, y)
         /\ \A x : NegPoint(x) = SecpNeg(x) /\ NegScalar(x) = SecpNeg(x)
<1>1. \A x, y : SecpAddPoint(x, y) = SecpScalarAdd(x, y)
  BY DEF SecpAddPoint, SecpScalarAdd
<1>2. \A x : SecpNegPoint(x) = SecpNeg(x)
  BY DEF SecpNegPoint, SecpNeg
<1>3. \A x, y : SecpSubPoint(x, y) = SecpScalarSub(x, y)
  BY <1>1, <1>2 DEF SecpSubPoint, SecpScalarSub
<1>4. \A x, y : SecpMulPoint(x, y) = SecpScalarMul(x, y)
  BY DEF SecpMulPoint, SecpScalarMul
<1> QED BY <1>1, <1>2, <1>3, <1>4 DEF PointFn, ScalarFn, NegPoint, NegScalar

LEMMA BlsFunctions ==
  ASSUME ~Secp
  PROVE  /\ \A x, y : /\ PointFn("add", x, y) = (x + y) % GroupSize /\ PointFn("sub", x, y) = (x - y) % GroupSize
                      /\ PointFn("mul", x, y) = (x * y) % GroupSize
                      /\ ScalarFn("add", x, y) = (x + y) % GroupOrder /\ ScalarFn("sub", x, y) = (x - y) % GroupOrder
                      /\ ScalarFn("mul", x, y) = (x * y) % GroupOrder
         /\ \A x : NegPoint(x) = (-x) % GroupSize /\ NegScalar(x) = (-x) % GroupOrder
<1>1. \A x, y : /\ PointFn("add", x, y) = (x + y) % GroupSize /\ PointFn("sub", x, y) = (x - y) % GroupSize
                /\ PointFn("mul", x, y) = (x * y) % GroupSize
  BY DEF PointFn, BlsPoint
<1>2. \A x, y : /\ ScalarFn("add", x, y) = (x + y) % GroupOrder /\ ScalarFn("sub", x, y) = (x - y) % GroupOrder
                /\ ScalarFn("mul", x, y) = (x * y) % GroupOrder
  BY DEF ScalarFn, BlsScalar
<1>3. \A x : NegPoint(x) = (-x) % GroupSize /\ NegScalar(x) = (-x) % GroupOrder
  BY DEF NegPoint, BlsNegPoint, NegScalar, BlsNeg
<1> QED BY <1>1, <1>2, <1>3

\* Multiples of C add up as integers do.
LEMMA Multiples ==
  ASSUME NEW C \in Int, NEW l \in Int, NEW m \in Int
  PROVE  /\ l * C \in Int /\ l * C + m * C = (l + m) * C /\ l * C - m * C = (l - m) * C /\ -(l * C) = (-l) * C
         /\ (l * C) * m = (l * m) * C /\ m * (l * C) = (l * m) * C /\ C * m = m * C /\ 1 * C = C
BY Z3

Residue(n) == n % GroupOrder

LEMMA ResidueType == \A n \in Int : Residue(n) \in 0 .. GroupOrder - 1
BY GroupFacts DEF Residue

\* The operations on points are those on the multiples of the generator.
LEMMA PointSum ==
  ASSUME lib \in Libraries, NEW l \in 0 .. GroupOrder - 1, NEW m \in 0 .. GroupOrder - 1
  PROVE  PointFn("add", Held(l), Held(m)) = Held(Residue(l + m))
<1>1. l \in Int /\ m \in Int /\ l + m \in Int
  BY GroupFacts
<1>2. Residue(l + m) \in 0 .. GroupOrder - 1
  BY <1>1, ResidueType
<1>3. CASE Secp
  BY <1>2, <1>3, HeldFacts, SecpFunctions, KeySum DEF Residue
<1>4. CASE ~Secp
  <2>1. Held(l) = l * Cofactor /\ Held(m) = m * Cofactor /\ Held(Residue(l + m)) = Residue(l + m) * Cofactor
    BY <1>2, <1>4, HeldFacts
  <2>2. l * Cofactor + m * Cofactor = (l + m) * Cofactor
    BY <1>1, LibraryFacts, Multiples
  <2>3. ((l + m) * Cofactor) % GroupSize = Residue(l + m) * Cofactor
    BY <1>1, LibraryFacts DEF Residue
  <2>4. PointFn("add", Held(l), Held(m)) = (Held(l) + Held(m)) % GroupSize
    BY <1>4, BlsFunctions
  <2> QED BY <2>1, <2>2, <2>3, <2>4
<1> QED BY <1>3, <1>4

LEMMA PointDifference ==
  ASSUME lib \in Libraries, NEW l \in 0 .. GroupOrder - 1, NEW m \in 0 .. GroupOrder - 1
  PROVE  PointFn("sub", Held(l), Held(m)) = Held(Residue(l - m))
<1>1. l \in Int /\ m \in Int /\ l - m \in Int
  BY GroupFacts
<1>2. Residue(l - m) \in 0 .. GroupOrder - 1
  BY <1>1, ResidueType
<1>3. CASE Secp
  BY <1>2, <1>3, HeldFacts, SecpFunctions, KeyDifference DEF Residue
<1>4. CASE ~Secp
  <2>1. Held(l) = l * Cofactor /\ Held(m) = m * Cofactor /\ Held(Residue(l - m)) = Residue(l - m) * Cofactor
    BY <1>2, <1>4, HeldFacts
  <2>2. l * Cofactor - m * Cofactor = (l - m) * Cofactor
    BY <1>1, LibraryFacts, Multiples
  <2>3. ((l - m) * Cofactor) % GroupSize = Residue(l - m) * Cofactor
    BY <1>1, LibraryFacts DEF Residue
  <2>4. PointFn("sub", Held(l), Held(m)) = (Held(l) - Held(m)) % GroupSize
    BY <1>4, BlsFunctions
  <2> QED BY <2>1, <2>2, <2>3, <2>4
<1> QED BY <1>3, <1>4

LEMMA PointProduct ==
  ASSUME lib \in Libraries, NEW l \in 0 .. GroupOrder - 1, NEW m \in 0 .. GroupOrder - 1
  PROVE  /\ PointFn("mul", Held(l), ScalarOf(m)) = Held(Residue(l * m))
         /\ PointFn("mul", ScalarOf(m), Held(l)) = Held(Residue(l * m))
<1>1. l \in Int /\ m \in Int /\ l * m \in Int /\ m * l = l * m
  BY GroupFacts
<1>2. Residue(l * m) \in 0 .. GroupOrder - 1
  BY <1>1, ResidueType
<1>3. CASE Secp
  <2>1. Held(l) = Key(l) /\ ScalarOf(m) = Key(m) /\ Held(Residue(l * m)) = Key(Residue(l * m))
    BY <1>2, <1>3, HeldFacts
  <2>2. /\ PointFn("mul", Key(l), Key(m)) = SecpScalarMul(Key(l), Key(m))
        /\ PointFn("mul", Key(m), Key(l)) = SecpScalarMul(Key(m), Key(l))
    BY <1>3, SecpFunctions
  <2>3. SecpScalarMul(Key(l), Key(m)) = Key(Residue(l * m)) /\ SecpScalarMul(Key(m), Key(l)) = Key(Residue(m * l))
    BY KeyProduct DEF Residue
  <2> QED BY <1>1, <2>1, <2>2, <2>3
<1>4. CASE ~Secp
  <2>1. Held(l) = l * Cofactor /\ ScalarOf(m) = m /\ Held(Residue(l * m)) = Residue(l * m) * Cofactor
    BY <1>2, <1>4, HeldFacts
  <2>2. (l * Cofactor) * m = (l * m) * Cofactor /\ m * (l * Cofactor) = (l * m) * Cofactor
    <3>1. Cofactor \in Int
      BY LibraryFacts
    <3>2. /\ (l * Cofactor) * m = (l * m) * Cofactor
          /\ m * (l * Cofactor) = (l * m) * Cofactor
      BY ONLY <1>1, <3>1, Multiples, ZenonT(60)
    <3> QED BY <3>2
  <2>3. ((l * m) * Cofactor) % GroupSize = Residue(l * m) * Cofactor
    BY <1>1, LibraryFacts DEF Residue
  <2>4. /\ PointFn("mul", Held(l), ScalarOf(m)) = (Held(l) * ScalarOf(m)) % GroupSize
        /\ PointFn("mul", ScalarOf(m), Held(l)) = (ScalarOf(m) * Held(l)) % GroupSize
    BY <1>4, BlsFunctions
  <2> QED BY <2>1, <2>2, <2>3, <2>4
<1> QED BY <1>3, <1>4

LEMMA PointNegated ==
  ASSUME lib \in Libraries, NEW l \in 0 .. GroupOrder - 1
  PROVE  NegPoint(Held(l)) = Held(Residue(-l))
<1>1. l \in Int /\ -l \in Int
  BY GroupFacts
<1>2. Residue(-l) \in 0 .. GroupOrder - 1
  BY <1>1, ResidueType
<1>3. CASE Secp
  BY <1>2, <1>3, HeldFacts, SecpFunctions, KeyNegated DEF Residue
<1>4. CASE ~Secp
  <2>1. Held(l) = l * Cofactor /\ Held(Residue(-l)) = Residue(-l) * Cofactor
    BY <1>2, <1>4, HeldFacts
  <2>2. -(l * Cofactor) = (-l) * Cofactor
    BY <1>1, LibraryFacts, Multiples
  <2>3. ((-l) * Cofactor) % GroupSize = Residue(-l) * Cofactor
    BY <1>1, LibraryFacts DEF Residue
  <2>4. NegPoint(Held(l)) = (-Held(l)) % GroupSize
    BY <1>4, BlsFunctions
  <2> QED BY <2>1, <2>2, <2>3, <2>4
<1> QED BY <1>3, <1>4

LEMMA GeneratorTimes ==
  ASSUME lib \in Libraries, NEW m \in 0 .. GroupOrder - 1
  PROVE  GeneratorMul(ScalarOf(m)) = Held(Residue(m)) /\ GENERATOR = Held(1)
<1>1. m \in Int /\ Residue(m) = m /\ 1 \in 0 .. GroupOrder - 1 /\ 1 \in Int
  BY GroupFacts DEF Residue
<1>2. GENERATOR = Cofactor /\ Cofactor \in Int
  BY LibraryFacts DEF GENERATOR
<1>3. 1 * Cofactor = Cofactor /\ Cofactor * m = m * Cofactor
  BY <1>1, LibraryFacts, Multiples
<1>4. CASE Secp
  <2>1. ScalarOf(m) = Key(m) /\ Held(m) = Key(m) /\ Held(1) = Key(1) /\ Key(1) = 1
    BY <1>1, <1>4, HeldFacts, KeyFacts
  <2>2. GeneratorMul(Key(m)) = Key(m)
    BY <1>4, KeyFacts DEF GeneratorMul, SecpGeneratorMul
  <2> QED BY <1>1, <1>2, <1>4, <2>1, <2>2, LibraryFacts
<1>5. CASE ~Secp
  <2>1. ScalarOf(m) = m /\ Held(m) = m * Cofactor /\ Held(1) = 1 * Cofactor
    BY <1>1, <1>5, HeldFacts
  <2>2. GeneratorMul(m) = (Cofactor * m) % GroupSize
    BY <1>2, <1>5 DEF GeneratorMul, BlsPoint
  <2>3. (m * Cofactor) % GroupSize = Residue(m) * Cofactor
    BY <1>1, LibraryFacts DEF Residue
  <2> QED BY <1>1, <1>2, <1>3, <2>1, <2>2, <2>3
<1> QED BY <1>4, <1>5

\* The operations on scalars are those on the residues.
LEMMA ScalarsCompute ==
  ASSUME lib \in Libraries, NEW l \in 0 .. GroupOrder - 1, NEW m \in 0 .. GroupOrder - 1
  PROVE  /\ ScalarFn("add", ScalarOf(l), ScalarOf(m)) = ScalarOf(Residue(l + m))
         /\ ScalarFn("sub", ScalarOf(l), ScalarOf(m)) = ScalarOf(Residue(l - m))
         /\ ScalarFn("mul", ScalarOf(l), ScalarOf(m)) = ScalarOf(Residue(l * m))
         /\ NegScalar(ScalarOf(l)) = ScalarOf(Residue(-l))
<1>1. l \in Int /\ m \in Int
  BY GroupFacts
<1>2. l + m \in Int /\ l - m \in Int /\ l * m \in Int /\ -l \in Int
  BY <1>1
<1>3. /\ Residue(l + m) \in 0 .. GroupOrder - 1 /\ Residue(l - m) \in 0 .. GroupOrder - 1
      /\ Residue(l * m) \in 0 .. GroupOrder - 1 /\ Residue(-l) \in 0 .. GroupOrder - 1
  BY <1>2, ResidueType
<1>4. CASE Secp
  <2>1. \A n \in 0 .. GroupOrder - 1 : ScalarOf(n) = Key(n)
    BY <1>4, HeldFacts
  <2>2. /\ SecpScalarAdd(Key(l), Key(m)) = Key(Residue(l + m)) /\ SecpScalarSub(Key(l), Key(m)) = Key(Residue(l - m))
        /\ SecpScalarMul(Key(l), Key(m)) = Key(Residue(l * m)) /\ SecpNeg(Key(l)) = Key(Residue(-l))
    BY KeySum, KeyDifference, KeyProduct, KeyNegated DEF Residue
  <2> QED BY <1>3, <1>4, <2>1, <2>2, SecpFunctions
<1>5. CASE ~Secp
  <2>1. \A n \in 0 .. GroupOrder - 1 : ScalarOf(n) = n
    BY <1>5, HeldFacts
  <2>2. /\ ScalarFn("add", l, m) = Residue(l + m) /\ ScalarFn("sub", l, m) = Residue(l - m)
        /\ ScalarFn("mul", l, m) = Residue(l * m) /\ NegScalar(l) = Residue(-l)
    BY <1>5, BlsFunctions DEF Residue
  <2> QED BY <1>3, <2>1, <2>2
<1> QED BY <1>4, <1>5

LEMMA ScalarInverted ==
  ASSUME lib \in Libraries, NEW l \in 0 .. GroupOrder - 1
  PROVE  /\ (IsZero(ScalarOf(l)) <=> l = 0)
         /\ l # 0 => /\ Reciprocal(l) \in 0 .. GroupOrder - 1
                     /\ InverseOf(ScalarOf(l)) = ScalarOf(Residue(Reciprocal(l)))
<1>1. IsZero(ScalarOf(l)) <=> l = 0
  <2>1. CASE Secp
    BY <2>1, HeldFacts, KeyFacts DEF IsZero, SecpIsZero
  <2>2. CASE ~Secp
    BY <2>2, HeldFacts DEF IsZero, BlsIsZero
  <2> QED BY <2>1, <2>2
<1>2. ASSUME l # 0
      PROVE  /\ Reciprocal(l) \in 0 .. GroupOrder - 1
             /\ InverseOf(ScalarOf(l)) = ScalarOf(Residue(Reciprocal(l)))
  <2>1. l \in 1 .. GroupOrder - 1 /\ l \in Int
    BY <1>2, GroupFacts
  <2>2. PICK inv \in Int : Same(GroupOrder, inv * l, 1)
    BY <2>1, GroupFacts, PrimeInverse
  <2> DEFINE t == inv % GroupOrder
             r == Reciprocal(l)
  <2>3. t \in 0 .. GroupOrder - 1 /\ t \in Int
    BY GroupFacts
  <2>4. (t * l) % GroupOrder = (inv * l) % GroupOrder
    BY <2>1, GroupFacts, ModTimes
  <2>5. 1 % GroupOrder = 1 /\ 0 % GroupOrder = 0
    BY GroupFacts
  <2> HIDE DEF t
  <2>6. t * l = l * t /\ 0 * l = 0
    BY <2>1, <2>3
  <2>7. (l * t) % GroupOrder = 1
    BY <2>2, <2>4, <2>5, <2>6 DEF Same
  <2>8. t # 0
    BY <2>5, <2>6, <2>7
  <2>9. t \in 1 .. GroupOrder - 1
    BY <2>3, <2>8
  <2>10. r \in 1 .. GroupOrder - 1
    BY <2>7, <2>9 DEF Reciprocal
  <2> HIDE DEF r
  <2>11. r \in 0 .. GroupOrder - 1 /\ r # 0 /\ Residue(r) = r
    BY <2>10, GroupFacts DEF Residue
  <2>12. CASE Secp
    <3>1. ScalarOf(l) = l /\ ScalarOf(r) = r /\ l # None
      BY <1>2, <2>11, <2>12, HeldFacts, KeyFacts
    <3> QED BY <2>11, <2>12, <3>1 DEF InverseOf, SecpInvert, r
  <2>13. CASE ~Secp
    <3>1. ScalarOf(l) = l /\ ScalarOf(r) = r
      BY <2>11, <2>13, HeldFacts
    <3> QED BY <1>2, <2>11, <2>13, <3>1 DEF InverseOf, BlsInvert, r
  <2> QED BY <2>11, <2>12, <2>13 DEF r
<1> QED BY <1>1, <1>2

LEMMA ScalarsMade ==
  ASSUME lib \in Libraries
  PROVE  /\ \A n \in Int : FromBigInt(n) = ScalarOf(Residue(n))
         /\ \A bytes \in AllBytes :
              LET n == IF bytes.length = "scalar" /\ bytes.number < GroupOrder THEN bytes.number ELSE Err
              IN  \/ DeserializeScalar(bytes) = Err /\ n = Err
                  \/ n \in Int /\ n # Err /\ DeserializeScalar(bytes) = ScalarOf(Residue(n))
<1>1. ASSUME NEW n \in Int PROVE FromBigInt(n) = ScalarOf(Residue(n))
  <2>1. n % GroupOrder \in 0 .. GroupOrder - 1
    BY GroupFacts
  <2>2. CASE Secp
    BY <2>2 DEF FromBigInt, SecpFromBigInt, ScalarOf, Residue
  <2>3. CASE ~Secp
    BY <2>3 DEF FromBigInt, BlsFromBigInt, ScalarOf, Residue
  <2> QED BY <2>2, <2>3
<1>2. ASSUME NEW bytes \in AllBytes
      PROVE  LET n == IF bytes.length = "scalar" /\ bytes.number < GroupOrder THEN bytes.number ELSE Err
             IN  \/ DeserializeScalar(bytes) = Err /\ n = Err
                 \/ n \in Int /\ n # Err /\ DeserializeScalar(bytes) = ScalarOf(Residue(n))
  <2> DEFINE k == bytes.number
  <2>1. k \in Int /\ k >= 0
    BY DEF AllBytes
  <2>2. CASE bytes.length = "scalar" /\ k < GroupOrder
    <3>1. k \in 0 .. GroupOrder - 1
      BY <2>1, <2>2, GroupFacts
    <3>2. Residue(k) = k /\ k # Err
      BY <2>1, <3>1, GroupFacts, OutcomesDiffer DEF Residue
    <3>3. DeserializeScalar(bytes) = ScalarOf(k)
      BY <2>2 DEF DeserializeScalar, SecpDeserializeScalar, BlsDeserializeScalar, ScalarOf
    <3> QED BY <2>1, <2>2, <3>2, <3>3
  <2>3. CASE ~(bytes.length = "scalar" /\ k < GroupOrder)
    <3>1. ~(bytes.length = "scalar" /\ k = 0)
      BY <2>3, GroupFacts
    <3>2. DeserializeScalar(bytes) = Err
      BY <2>3, <3>1 DEF DeserializeScalar, SecpDeserializeScalar, BlsDeserializeScalar
    <3> QED BY <2>3, <3>2
  <2> QED BY <2>2, <2>3
<1> QED BY <1>1, <1>2

-----------------------------------------------------------------------------
(* Points from elements, bytes and coordinates. *)

\* A point, or a failure, is that of a multiple of the generator, or of none.
Agree(p, log) == \/ p = Err /\ log = Err
                 \/ log \in Int /\ p = Held(Residue(log))

LEMMA HeldIsRaw ==
  ASSUME lib \in Libraries, NEW n \in 0 .. GroupOrder - 1
  PROVE  /\ FromRaw(Held(n)) = Held(n) /\ FromRawExpect(Held(n)) = Held(n) /\ (IsZero(Held(n)) <=> n = 0)
         /\ Residue(n) = n /\ n \in Int
<1>1. Held(n) # Err /\ Residue(n) = n /\ n \in Int
  BY HeldFacts, GroupFacts DEF Residue
<1>2. IsZero(Held(n)) <=> n = 0
  <2>1. CASE Secp
    BY <2>1, HeldFacts, KeyFacts DEF IsZero, SecpIsZero
  <2>2. CASE ~Secp
    BY <2>2, HeldFacts DEF IsZero, BlsIsZero
  <2> QED BY <2>1, <2>2
<1>3. IsZero(Held(n)) \/ CheckOrder(Held(n))
  <2>1. CASE Secp
    BY <2>1 DEF IsZero, CheckOrder, SecpCheckOrder
  <2>2. CASE ~Secp
    <3> SUFFICES ASSUME ~IsZero(Held(n)) PROVE CheckOrder(Held(n))
      OBVIOUS
    <3>1. Held(n) = n * Cofactor
      BY <2>2, HeldFacts
    <3>2. GroupOrder * (n * Cofactor) = n * GroupSize + 0
      <4>1. ASSUME NEW o \in Int, NEW c \in Int PROVE o * (n * c) = n * (o * c)
        BY <1>1, Z3
      <4>2. GroupSize = GroupOrder * Cofactor /\ GroupSize \in Int /\ Cofactor \in Int /\ GroupOrder \in Int
        BY LibraryFacts, GroupFacts
      <4>3. GroupOrder * (n * Cofactor) = n * GroupSize
        BY <4>1, <4>2
      <4>4. n * GroupSize + 0 = n * GroupSize
        BY <1>1, <4>2
      <4> QED BY <4>3, <4>4
    <3> DEFINE z == 0
    <3>3. GroupSize \in Nat \ {0} /\ z \in 0 .. GroupSize - 1
      BY LibraryFacts
    <3> HIDE DEF z
    <3>4. (n * GroupSize + z) % GroupSize = z
      BY <1>1, <3>3, ModUnique
    <3> QED BY <2>2, <3>1, <3>2, <3>4 DEF CheckOrder, BlsCheckOrder, IsZero, z
  <2> QED BY <2>1, <2>2
<1> QED BY <1>1, <1>2, <1>3 DEF FromRaw, FromRawExpect

\* The multiples of the generator, and the other elements.
LEMMA OfElement ==
  ASSUME lib \in Libraries, NEW e, e \in 0 .. GroupSize - 1
  PROVE  /\ Agree(FromRaw(PointOf(e)), LogOf(e))
         /\ \A n \in 0 .. GroupOrder - 1 : e = n * Cofactor => PointOf(e) = Held(n)
<1> DEFINE C == Cofactor
           N == GroupSize
           O == GroupOrder
<1>0. C \in Nat \ {0} /\ C \in Int /\ N = O * C /\ N \in Nat \ {0} /\ e \in Nat /\ e < N
  BY LibraryFacts
<1>1. \A n \in 0 .. O - 1 : n \in Int /\ (n * C) % N = n * C
  BY LibraryFacts, GroupFacts
<1>2. ASSUME \E k \in 0 .. O - 1 : (k * C) % N = e
      PROVE  Agree(FromRaw(PointOf(e)), LogOf(e))
  <2> DEFINE l == LogOf(e)
  <2>1. l \in 0 .. O - 1 /\ (l * C) % N = e
    BY <1>2 DEF LogOf, GENERATOR
  <2> HIDE DEF l
  <2>2. l * C = e /\ l \in Int
    BY <1>1, <2>1
  <2>3. PointOf(e) = Held(l)
    BY <2>2 DEF Held
  <2>4. FromRaw(Held(l)) = Held(Residue(l))
    BY <2>1, HeldIsRaw
  <2> QED BY <2>2, <2>3, <2>4 DEF Agree, l
<1>3. ASSUME ~ \E k \in 0 .. O - 1 : (k * C) % N = e
      PROVE  Agree(FromRaw(PointOf(e)), LogOf(e))
  <2>1. LogOf(e) = Err
    BY <1>3 DEF LogOf, GENERATOR
  <2>2. ~Secp
    <3> SUFFICES ASSUME Secp PROVE FALSE
      OBVIOUS
    <3>1. C = 1 /\ N = O
      BY LibraryFacts
    <3>2. e \in 0 .. O - 1
      BY <1>0, <3>1
    <3>3. e * C = e
      BY <1>0, <3>1
    <3> QED BY <1>1, <1>3, <3>2, <3>3
  <2>3. PointOf(e) = e /\ e # Err
    BY <1>0, <2>2, OutcomesDiffer DEF PointOf
  <2>4. e # 0
    <3>1. 0 * C = 0
      BY <1>0
    <3> QED BY <1>1, <1>3, <3>1, GroupFacts
  <2>5. ASSUME (O * e) % N = 0 PROVE FALSE
    <3> DEFINE r == e % C
    <3>1. r \in 0 .. C - 1 /\ \E q \in Int : e = q * C + r
      <4> HIDE DEF C
      <4>1. e \in Int
        BY <1>0
      <4> QED BY <1>0, <4>1, ModRange, Zenon
    <3>2. O \in Nat \ {0}
      BY GroupFacts
    <3>3. (e * O) % (C * O) = r * O
      <4> HIDE DEF C, O
      <4>1. e \in Int
        BY <1>0
      <4> QED BY <1>0, <3>2, <4>1, MultipleMod, Zenon
    <3>4. e * O = O * e /\ C * O = O * C
      BY <1>0, <3>2
    <3> HIDE DEF r
    <3>5. r * O = 0
      BY <1>0, <2>5, <3>3, <3>4
    <3>6. r = 0
      <4>1. r # 0 => r * O >= O
        BY <3>1, <3>2, Z3
      <4> QED BY <3>2, <3>5, <4>1
    <3>7. PICK q \in Int : e = q * C + r
      BY <3>1
    <3>8. e = q * C
      BY <1>0, <3>6, <3>7
    <3>9. q >= 0
      <4>1. q < 0 => q * C < 0
        BY <1>0, Z3
      <4> QED BY <1>0, <3>8, <4>1
    <3>10. q < O
      <4>1. q >= O => q * C >= O * C
        BY <1>0, <3>2, Z3
      <4> QED BY <1>0, <3>2, <3>8, <4>1
    <3>11. q \in 0 .. O - 1
      BY <3>2, <3>9, <3>10
    <3> QED BY <1>1, <1>3, <3>8, <3>11
  <2>6. ~IsZero(e) /\ ~CheckOrder(e)
    BY <2>2, <2>4, <2>5 DEF IsZero, BlsIsZero, CheckOrder, BlsCheckOrder
  <2>7. FromRaw(PointOf(e)) = Err
    BY <2>3, <2>6 DEF FromRaw
  <2> QED BY <2>1, <2>7 DEF Agree
<1>4. \A n \in 0 .. O - 1 : e = n * C => PointOf(e) = Held(n)
  BY DEF Held
<1>5. Agree(FromRaw(PointOf(e)), LogOf(e))
  BY <1>2, <1>3
<1> QED BY <1>4, <1>5

LEMMA NoLog ==
  ASSUME lib \in Libraries, NEW e, e \notin 0 .. GroupSize - 1
  PROVE  LogOf(e) = Err
<1>1. \A k \in 0 .. GroupOrder - 1 : (k * Cofactor) % GroupSize \in 0 .. GroupSize - 1
  <2>1. \A k \in 0 .. GroupOrder - 1 : k \in Int
    BY GroupFacts
  <2> QED BY <2>1, LibraryFacts
<1> QED BY <1>1 DEF LogOf, GENERATOR

\* deserialize and from_raw.
Encoded(bytes) == bytes.length \in {"compressed", "uncompressed"}

LEMMA PointsDecoded ==
  ASSUME lib \in Libraries, NEW bytes, bytes.number \in Nat
  PROVE  /\ Encoded(bytes) /\ bytes.number < GroupSize => Deserialize(bytes) = PointOf(bytes.number)
         /\ Agree(FromRaw(Deserialize(bytes)), IF Encoded(bytes) THEN LogOf(bytes.number) ELSE Err)
<1> DEFINE k == bytes.number
<1>1. CASE Encoded(bytes) /\ k < GroupSize
  <2>1. Deserialize(bytes) = PointOf(k)
    <3>1. CASE Secp
      <4>1. k < GroupOrder
        BY <1>1, <3>1, LibraryFacts
      <4> QED BY <1>1, <3>1, <4>1 DEF Encoded, Deserialize, SecpDeserialize, PointOf
    <3>2. CASE ~Secp
      BY <1>1, <3>2 DEF Encoded, Deserialize, BlsDeserialize, PointOf
    <3> QED BY <3>1, <3>2
  <2>2. k \in Nat /\ GroupSize \in Nat /\ k < GroupSize
    BY <1>1, LibraryFacts
  <2> HIDE DEF k
  <2>3. k \in 0 .. GroupSize - 1
    BY <2>2
  <2>4. Agree(FromRaw(PointOf(k)), LogOf(k))
    BY <2>3, OfElement
  <2> QED BY <1>1, <2>1, <2>4 DEF k
<1>2. CASE ~(Encoded(bytes) /\ k < GroupSize)
  <2>1. Deserialize(bytes) = Err
    <3>1. CASE Secp
      <4>1. ~(Encoded(bytes) /\ k < GroupOrder) /\ (Encoded(bytes) => k # 0)
        BY <1>2, <3>1, LibraryFacts, GroupFacts
      <4> QED BY <3>1, <4>1 DEF Encoded, Deserialize, SecpDeserialize
    <3>2. CASE ~Secp
      BY <1>2, <3>2 DEF Encoded, Deserialize, BlsDeserialize
    <3> QED BY <3>1, <3>2
  <2>2. Encoded(bytes) => LogOf(k) = Err
    <3>1. k \in Nat /\ GroupSize \in Nat /\ (Encoded(bytes) => ~(k < GroupSize))
      BY <1>2, LibraryFacts
    <3> HIDE DEF k
    <3>2. Encoded(bytes) => k \notin 0 .. GroupSize - 1
      BY <3>1
    <3> QED BY <3>2, NoLog
  <2> QED BY <1>2, <2>1, <2>2 DEF Agree, FromRaw
<1> QED BY <1>1, <1>2

\* The bytes of a coordinate are its two digits, or the last of them.
Coordinate == 0 .. Base * Base - 1

LEMMA CoordinateBytes ==
  ASSUME NEW n \in Coordinate
  PROVE  /\ n \div Base \in 0 .. Base - 1 /\ n % Base \in 0 .. Base - 1 /\ n = (n \div Base) * Base + (n % Base)
         /\ (n < Base => n \div Base = 0 /\ (n % Base) = n /\ Len(ToBytes(n)) = 1 /\ ToBytes(n)[1] = n)
         /\ (n >= Base => Len(ToBytes(n)) = 2 /\ ToBytes(n)[1] = n \div Base /\ ToBytes(n)[2] = n % Base)
<1> DEFINE L == ByteLength(n)
           q == n \div Base
           r == n % Base
<1>1. Base \in Nat \ {0} /\ BaseTo(0) = 1 /\ BaseTo(1) = Base /\ BaseTo(2) = Base * Base
  <2>1. Base \in Nat \ {0} /\ BaseTo(0) = 1 /\ BaseTo(0 + 1) = BaseTo(0) * Base /\ BaseTo(1 + 1) = BaseTo(1) * Base
    BY BaseToFacts
  <2>2. 0 + 1 = 1 /\ 1 + 1 = 2 /\ 1 * Base = Base
    BY <2>1
  <2> QED BY <2>1, <2>2
<1>2. Base * Base \in Nat /\ n \in Nat /\ n < Base * Base /\ Abs(n) = n /\ n \in Int
  BY <1>1 DEF Coordinate, Abs
<1>3. q \in Int /\ r \in 0 .. Base - 1 /\ n = Base * q + r
  BY <1>1, <1>2
<1>4. Base * q = q * Base
  BY <1>1, <1>3
<1>5. L \in Nat \ {0} /\ (n < Base <=> L <= 1) /\ L <= 2
  <2>1. L \in Nat \ {0} /\ \A l \in Nat \ {0} : n < BaseTo(l) <=> L <= l
    BY <1>2, ByteLengthFacts
  <2>2. 1 \in Nat \ {0} /\ 2 \in Nat \ {0}
    OBVIOUS
  <2> QED BY <1>1, <1>2, <2>1, <2>2
<1>6. /\ Len(ToBytes(n)) = L
      /\ \A i \in 1 .. L : ToBytes(n)[i] = (n \div BaseTo(L - i)) % Base
  BY <1>2, <1>5 DEF ToBytes
<1> HIDE DEF L, q, r
<1>7. q \in 0 .. Base - 1
  <2>1. q >= 0
    <3>1. q < 0 => Base * q <= 0 - Base
      BY <1>1, <1>3, Z3
    <3> QED BY <1>1, <1>2, <1>3, <3>1
  <2>2. q < Base
    <3>1. q >= Base => Base * q >= Base * Base
      BY <1>1, <1>3, Z3
    <3> QED BY <1>1, <1>2, <1>3, <3>1
  <2> QED BY <1>1, <1>3, <2>1, <2>2
<1>8. n \div 1 = n
  BY <1>2
<1>9. ASSUME n < Base PROVE q = 0 /\ r = n /\ L = 1 /\ ToBytes(n)[1] = n
  <2>1. q = 0
    <3>1. q >= 1 => Base * q >= Base
      BY <1>1, <1>7, Z3
    <3> QED BY <1>1, <1>2, <1>3, <1>7, <1>9, <3>1
  <2>2. Base * 0 = 0
    BY <1>1
  <2>3. r = n
    BY <1>2, <1>3, <2>1, <2>2
  <2>4. L = 1
    BY <1>5, <1>9
  <2>5. 1 \in 1 .. L /\ L - 1 = 0
    BY <2>4
  <2>6. ToBytes(n)[1] = (n \div BaseTo(0)) % Base
    BY <1>6, <2>5
  <2> QED BY <1>1, <1>8, <2>1, <2>3, <2>4, <2>6 DEF r
<1>10. ASSUME n >= Base PROVE L = 2 /\ ToBytes(n)[1] = q /\ ToBytes(n)[2] = r
  <2>1. L = 2
    BY <1>1, <1>2, <1>5, <1>10
  <2>2. 1 \in 1 .. L /\ 2 \in 1 .. L /\ L - 1 = 1 /\ L - 2 = 0
    BY <2>1
  <2>3. ToBytes(n)[1] = q % Base /\ ToBytes(n)[2] = n % Base
    BY <1>1, <1>6, <1>8, <2>2 DEF q
  <2>4. q % Base = q
    BY <1>1, <1>7, ModSmall
  <2> QED BY <2>1, <2>3, <2>4 DEF r
<1> QED BY <1>3, <1>4, <1>6, <1>7, <1>9, <1>10 DEF q, r

IsPlaced(n, K, buffer, before, end, placed) ==
  /\ n \in Coordinate /\ K \in Nat /\ DOMAIN buffer = 1 .. K /\ end \in 2 .. K
  /\ before = end - 1 /\ buffer[before] = 0 /\ placed = Placed(buffer, ToBytes(n), end)

HasDigits(n, K, buffer, before, end, placed) ==
  /\ DOMAIN placed = 1 .. K /\ placed[before] = n \div Base /\ placed[end] = n % Base
  /\ \A i \in 1 .. K : i # before /\ i # end => placed[i] = buffer[i]

LEMMA PlacedIs ==
  ASSUME NEW n, NEW K, NEW buffer, NEW before, NEW end, NEW placed, IsPlaced(n, K, buffer, before, end, placed)
  PROVE  HasDigits(n, K, buffer, before, end, placed)
<1> USE DEF IsPlaced, HasDigits
<1> DEFINE t == ToBytes(n)
           p == Placed(buffer, t, end)
<1>1. /\ DOMAIN p = 1 .. K
      /\ \A i \in 1 .. K : p[i] = IF i \in (end - Len(t) + 1) .. end THEN t[i - end + Len(t)] ELSE buffer[i]
  BY DEF Placed
<1>2. end \in Int /\ end \in 1 .. K /\ end - 1 \in 1 .. K
  OBVIOUS
<1> HIDE DEF p, t
<1>3. CASE n < Base
  <2>1. Len(t) = 1 /\ t[1] = n /\ n \div Base = 0 /\ n % Base = n
    BY <1>3, CoordinateBytes DEF t
  <2>2. (end - 1 + 1) = end /\ end - end + 1 = 1 /\ \A i \in Int : i \in end .. end <=> i = end
    BY <1>2
  <2>3. p[end] = n
    BY <1>1, <1>2, <2>1, <2>2
  <2>4. \A i \in 1 .. K : i # end => p[i] = buffer[i]
    BY <1>1, <2>1, <2>2
  <2>5. end - 1 # end
    BY <1>2
  <2> QED BY <1>1, <1>2, <2>1, <2>3, <2>4, <2>5 DEF p, t
<1>4. CASE ~(n < Base)
  <2>1. Len(t) = 2 /\ t[1] = n \div Base /\ t[2] = n % Base
    <3>1. n >= Base
      BY <1>4, BaseToFacts DEF Coordinate
    <3> QED BY <3>1, CoordinateBytes DEF t
  <2>2. /\ end - 2 + 1 = end - 1 /\ end - end + 2 = 2 /\ (end - 1) - end + 2 = 1
        /\ \A i \in Int : i \in (end - 1) .. end <=> i = end \/ i = end - 1
    BY <1>2
  <2>3. p[end] = t[2] /\ p[end - 1] = t[1]
    BY <1>1, <1>2, <2>1, <2>2
  <2>4. \A i \in 1 .. K : i # end /\ i # end - 1 => p[i] = buffer[i]
    BY <1>1, <2>1, <2>2
  <2> QED BY <1>1, <2>1, <2>3, <2>4 DEF p, t
<1> QED BY <1>3, <1>4

\* from_coords finds the element with the coordinates.
LEMMA CoordinatesFound ==
  ASSUME lib \in Libraries, NEW x \in Coordinate, NEW y \in Coordinate
  PROVE  FromCoords(x, y) = IF FlagGiven(x, y) THEN 0 ELSE ElementAt(<<x, y>>)
<1> DEFINE px == x \div Base
           rx == x % Base
           py == y \div Base
           ry == y % Base
<1>1. /\ px \in 0 .. Base - 1 /\ rx \in 0 .. Base - 1 /\ x = px * Base + rx
      /\ py \in 0 .. Base - 1 /\ ry \in 0 .. Base - 1 /\ y = py * Base + ry
  <2>2. px \in 0 .. Base - 1 /\ rx \in 0 .. Base - 1 /\ x = px * Base + rx
    BY CoordinateBytes
  <2>3. py \in 0 .. Base - 1 /\ ry \in 0 .. Base - 1 /\ y = py * Base + ry
    BY CoordinateBytes
  <2> HIDE DEF px, rx, py, ry
  <2> QED BY <2>2, <2>3
<1>4. ASSUME NEW n \in Coordinate PROVE ~(Len(ToBytes(n)) > 2) /\ ~(Len(ToBytes(n)) > 3) /\ ~(Len(ToBytes(n)) > 5)
  <2> DEFINE k == Len(ToBytes(n))
  <2>1. n < Base \/ n >= Base
    BY BaseToFacts DEF Coordinate
  <2>2. k = 1 \/ k = 2
    BY <2>1, CoordinateBytes
  <2> HIDE DEF k
  <2>3. ~(k > 2) /\ ~(k > 3) /\ ~(k > 5)
    BY <2>2
  <2> QED BY <2>3 DEF k
<1>2. ASSUME Secp PROVE FromCoords(x, y) = ElementAt(<<x, y>>)
  <2> DEFINE b0 == <<4, 0, 0, 0, 0>>
             b1 == Placed(b0, ToBytes(x), 3)
             b2 == Placed(b1, ToBytes(y), 5)
  <2>1. DOMAIN b0 = 1 .. 5 /\ b0[1] = 4 /\ b0[2] = 0 /\ b0[4] = 0 /\ 3 - 1 = 2 /\ 5 - 1 = 4 /\ 3 \in 2 .. 5 /\ 5 \in 2 .. 5 /\ 5 \in Nat
    OBVIOUS
  <2>2. /\ DOMAIN b1 = 1 .. 5 /\ b1[2] = px /\ b1[3] = rx
        /\ \A i \in 1 .. 5 : i # 2 /\ i # 3 => b1[i] = b0[i]
    <3> HIDE DEF b0, px, rx
    <3>1. IsPlaced(x, 5, b0, 2, 3, b1)
      BY <2>1 DEF IsPlaced, b1
    <3> HIDE DEF b1
    <3>2. /\ DOMAIN b1 = 1 .. 5 /\ b1[2] = x \div Base /\ b1[3] = x % Base
          /\ \A i \in 1 .. 5 : i # 2 /\ i # 3 => b1[i] = b0[i]
      <4>1. HasDigits(x, 5, b0, 2, 3, b1)
        BY <3>1, PlacedIs
      <4> QED BY <4>1 DEF HasDigits
    <3> QED BY <2>1, <3>2 DEF px, rx
  <2> HIDE DEF b1, b0
  <2>3. b1[1] = 4 /\ b1[4] = 0
    BY <2>1, <2>2
  <2>4. b2[4] = py /\ b2[5] = ry /\ b2[1] = 4 /\ b2[2] = px /\ b2[3] = rx
    <3> HIDE DEF py, ry, px, rx
    <3>1. IsPlaced(y, 5, b1, 4, 5, b2)
      BY <2>1, <2>2, <2>3 DEF IsPlaced, b2
    <3> HIDE DEF b2
    <3>2. /\ b2[4] = y \div Base /\ b2[5] = y % Base
          /\ \A i \in 1 .. 5 : i # 4 /\ i # 5 => b2[i] = b1[i]
      <4>1. HasDigits(y, 5, b1, 4, 5, b2)
        BY <3>1, PlacedIs
      <4> QED BY <4>1 DEF HasDigits
    <3> QED BY <2>1, <2>2, <2>3, <3>2 DEF py, ry
  <2>5. FromCoords(x, y) = ElementAt(<<b2[2] * Base + b2[3], b2[4] * Base + b2[5]>>)
    <3>1. ~(Len(ToBytes(x)) > 3 \/ Len(ToBytes(y)) > 5)
      BY <1>4
    <3>2. FromCoords(x, y) = IF b2[1] = 4 THEN ElementAt(<<b2[2] * Base + b2[3], b2[4] * Base + b2[5]>>) ELSE Err
      BY <1>2, <3>1 DEF FromCoords, SecpFromCoords, b2, b1, b0
    <3> QED BY <2>4, <3>2
  <2> HIDE DEF b2, px, rx, py, ry
  <2> QED BY <1>1, <2>4, <2>5
<1>3. ASSUME ~Secp PROVE FromCoords(x, y) = IF x = InfinityFlag * Base /\ y = 0 THEN 0 ELSE ElementAt(<<x, y>>)
  <2> DEFINE b0 == <<0, 0, 0, 0>>
             b1 == Placed(b0, ToBytes(x), 2)
             b2 == Placed(b1, ToBytes(y), 4)
             f  == <<InfinityFlag, 0, 0, 0>>
  <2>1. DOMAIN b0 = 1 .. 4 /\ b0[1] = 0 /\ b0[3] = 0 /\ 2 - 1 = 1 /\ 4 - 1 = 3 /\ 2 \in 2 .. 4 /\ 4 \in 2 .. 4 /\ 4 \in Nat
    OBVIOUS
  <2>2. /\ DOMAIN b1 = 1 .. 4 /\ b1[1] = px /\ b1[2] = rx
        /\ \A i \in 1 .. 4 : i # 1 /\ i # 2 => b1[i] = b0[i]
    <3> HIDE DEF b0, px, rx
    <3>1. IsPlaced(x, 4, b0, 1, 2, b1)
      BY <2>1 DEF IsPlaced, b1
    <3> HIDE DEF b1
    <3>2. /\ DOMAIN b1 = 1 .. 4 /\ b1[1] = x \div Base /\ b1[2] = x % Base
          /\ \A i \in 1 .. 4 : i # 1 /\ i # 2 => b1[i] = b0[i]
      <4>1. HasDigits(x, 4, b0, 1, 2, b1)
        BY <3>1, PlacedIs
      <4> QED BY <4>1 DEF HasDigits
    <3> QED BY <2>1, <3>2 DEF px, rx
  <2> HIDE DEF b1, b0
  <2>3. b1[3] = 0
    BY <2>1, <2>2
  <2>4. DOMAIN b2 = 1 .. 4 /\ b2[3] = py /\ b2[4] = ry /\ b2[1] = px /\ b2[2] = rx
    <3> HIDE DEF py, ry, px, rx
    <3>1. IsPlaced(y, 4, b1, 3, 4, b2)
      BY <2>1, <2>2, <2>3 DEF IsPlaced, b2
    <3> HIDE DEF b2
    <3>2. /\ DOMAIN b2 = 1 .. 4 /\ b2[3] = y \div Base /\ b2[4] = y % Base
          /\ \A i \in 1 .. 4 : i # 3 /\ i # 4 => b2[i] = b1[i]
      <4>1. HasDigits(y, 4, b1, 3, 4, b2)
        BY <3>1, PlacedIs
      <4> QED BY <4>1 DEF HasDigits
    <3> QED BY <2>1, <2>2, <3>2 DEF py, ry
  <2>5. b2 = f <=> b2[1] = InfinityFlag /\ b2[2] = 0 /\ b2[3] = 0 /\ b2[4] = 0
    <3>1. b2 = f => b2[1] = InfinityFlag /\ b2[2] = 0 /\ b2[3] = 0 /\ b2[4] = 0
      OBVIOUS
    <3>2. b2 = [i \in 1 .. 4 |-> b2[i]]
      BY <2>4 DEF b2, Placed
    <3>3. f = [i \in 1 .. 4 |-> f[i]] /\ f[1] = InfinityFlag /\ f[2] = 0 /\ f[3] = 0 /\ f[4] = 0
      OBVIOUS
    <3>4. \A i \in 1 .. 4 : i = 1 \/ i = 2 \/ i = 3 \/ i = 4
      OBVIOUS
    <3> HIDE DEF b2, f
    <3>5. b2[1] = InfinityFlag /\ b2[2] = 0 /\ b2[3] = 0 /\ b2[4] = 0 => \A i \in 1 .. 4 : b2[i] = f[i]
      BY <3>3, <3>4
    <3> QED BY <3>1, <3>2, <3>3, <3>5
  <2>6. FromCoords(x, y) = IF b2 = f THEN 0 ELSE ElementAt(<<b2[1] * Base + b2[2], b2[3] * Base + b2[4]>>)
    <3>1. ~(Len(ToBytes(x)) > 2 \/ Len(ToBytes(y)) > 2)
      BY <1>4
    <3> QED BY <1>3, <3>1 DEF FromCoords, BlsFromCoords, b2, b1, b0
  <2> HIDE DEF b2, f
  <2>7. x = InfinityFlag * Base <=> px = InfinityFlag /\ rx = 0
    <3>1. Base \in Nat \ {0} /\ InfinityFlag \in Int
      BY BaseToFacts, WrapAssumption
    <3> DEFINE o == 0
    <3>2. o \in 0 .. Base - 1
      BY <3>1
    <3>3. (InfinityFlag * Base + o) % Base = o
      <4> HIDE DEF o
      <4> QED BY <3>1, <3>2, ModUnique
    <3>4. InfinityFlag * Base + o = InfinityFlag * Base
      BY <3>1
    <3>5. x = InfinityFlag * Base => rx = 0
      BY <3>3, <3>4
    <3> HIDE DEF px, rx
    <3>6. rx = 0 => x = px * Base
      BY <1>1, <3>1
    <3>7. px * Base = InfinityFlag * Base => px = InfinityFlag
      <4>1. px \in Int
        BY <1>1
      <4>2. px < InfinityFlag => px * Base < InfinityFlag * Base
        BY <3>1, <4>1, Z3
      <4>3. px > InfinityFlag => px * Base > InfinityFlag * Base
        BY <3>1, <4>1, Z3
      <4> QED BY <3>1, <4>1, <4>2, <4>3
    <3> QED BY <3>5, <3>6, <3>7
  <2>8. y = 0 <=> py = 0 /\ ry = 0
    <3>1. Base \in Nat \ {0}
      BY BaseToFacts
    <3>2. y = 0 => y < Base
      BY <3>1
    <3>3. y < Base => py = 0 /\ ry = y
      BY CoordinateBytes
    <3> HIDE DEF py, ry
    <3>4. 0 * Base + 0 = 0
      BY <3>1
    <3> QED BY <1>1, <3>2, <3>3, <3>4
  <2> HIDE DEF px, rx, py, ry
  <2> QED BY <1>1, <2>4, <2>5, <2>6, <2>7, <2>8
<1> QED BY <1>2, <1>3 DEF FlagGiven

\* The elements have their own coordinates, in range and without a flag.
LEMMA OwnCoordinates ==
  ASSUME lib \in Libraries
  PROVE  /\ DOMAIN Coordinates[lib] = 1 .. GroupSize - 1
         /\ \A e \in 1 .. GroupSize - 1 :
              /\ Coordinates[lib][e] = <<Coordinates[lib][e][1], Coordinates[lib][e][2]>>
              /\ Coordinates[lib][e][1] \in Coordinate /\ Coordinates[lib][e][2] \in Coordinate
              /\ ElementAt(Coordinates[lib][e]) = e
              /\ ~FlagGiven(Coordinates[lib][e][1], Coordinates[lib][e][2])
         /\ \A given : ElementAt(given) = Err \/ ElementAt(given) \in 1 .. GroupSize - 1
<1>1. /\ Coordinates[lib] \in [1 .. GroupSize - 1 -> Coordinate \X Coordinate]
      /\ \A e, f \in 1 .. GroupSize - 1 : Coordinates[lib][e] = Coordinates[lib][f] => e = f
  <2>1. Elements(lib) = 1 .. GroupSize - 1
    BY LibraryFacts
  <2> QED BY <2>1, WrapAssumption DEF Coordinate
<1>2. DOMAIN Coordinates[lib] = 1 .. GroupSize - 1
  BY <1>1
<1>3. ASSUME NEW e \in 1 .. GroupSize - 1
      PROVE  /\ Coordinates[lib][e] = <<Coordinates[lib][e][1], Coordinates[lib][e][2]>>
             /\ Coordinates[lib][e][1] \in Coordinate /\ Coordinates[lib][e][2] \in Coordinate
  <2>1. Coordinates[lib][e] \in Coordinate \X Coordinate
    BY <1>1
  <2> QED BY <2>1
<1>4. \A e \in 1 .. GroupSize - 1 : ElementAt(Coordinates[lib][e]) = e
  BY <1>1, <1>2 DEF ElementAt
<1>5. ASSUME NEW e \in 1 .. GroupSize - 1
      PROVE  ~FlagGiven(Coordinates[lib][e][1], Coordinates[lib][e][2])
  <2> SUFFICES ASSUME ~Secp PROVE Coordinates[lib][e][1] # InfinityFlag * Base
    BY DEF FlagGiven
  <2>1. lib = "bls12_381"
    BY DEF Libraries, Secp
  <2>2. e \in Elements("bls12_381")
    <3>1. e \in Elements(lib)
      BY LibraryFacts
    <3> QED BY <2>1, <3>1
  <2>3. Coordinates[lib][e][1] < InfinityFlag * Base
    BY <2>1, <2>2, WrapAssumption
  <2>4. Coordinates[lib][e][1] \in Int /\ InfinityFlag * Base \in Int
    <3>1. Base \in Int /\ InfinityFlag \in Int
      BY BaseToFacts, WrapAssumption
    <3>2. InfinityFlag * Base \in Int
      BY <3>1
    <3> QED BY <1>3, <3>2 DEF Coordinate
  <2> QED BY <2>3, <2>4
<1>6. ASSUME NEW given PROVE ElementAt(given) = Err \/ ElementAt(given) \in 1 .. GroupSize - 1
  BY <1>2 DEF ElementAt
<1> QED BY <1>2, <1>3, <1>4, <1>5, <1>6

LEMMA CoordinatesAgree ==
  ASSUME lib \in Libraries, NEW x \in Coordinate, NEW y \in Coordinate
  PROVE  Agree(FromRaw(FromCoords(x, y)), IF FlagGiven(x, y) THEN 0 ELSE LogOf(ElementAt(<<x, y>>)))
<1> DEFINE e == ElementAt(<<x, y>>)
<1>1. CASE FlagGiven(x, y)
  <2>1. ~Secp /\ FromCoords(x, y) = 0
    BY <1>1, CoordinatesFound DEF FlagGiven
  <2>2. 0 \in 0 .. GroupOrder - 1
    BY GroupFacts
  <2>3. Held(0) = 0
    BY <2>1, <2>2, HeldFacts
  <2>4. FromRaw(Held(0)) = Held(Residue(0)) /\ 0 \in Int
    BY <2>2, HeldIsRaw
  <2> QED BY <1>1, <2>1, <2>3, <2>4 DEF Agree
<1>2. CASE ~FlagGiven(x, y) /\ e = Err
  <2>1. FromCoords(x, y) = Err
    BY <1>2, CoordinatesFound
  <2>2. Err \notin 0 .. GroupSize - 1
    BY OutcomesDiffer, LibraryFacts
  <2>3. LogOf(Err) = Err
    BY <2>2, NoLog
  <2> QED BY <1>2, <2>1, <2>3 DEF Agree, FromRaw
<1>3. CASE ~FlagGiven(x, y) /\ e # Err
  <2>1. e \in 1 .. GroupSize - 1 /\ FromCoords(x, y) = e
    BY <1>3, OwnCoordinates, CoordinatesFound
  <2> HIDE DEF e
  <2>2. e \in 0 .. GroupSize - 1 /\ PointOf(e) = e
    BY <2>1 DEF PointOf
  <2>3. Agree(FromRaw(PointOf(e)), LogOf(e))
    BY <2>2, OfElement
  <2> QED BY <1>3, <2>1, <2>2, <2>3 DEF e
<1> QED BY <1>1, <1>2, <1>3

-----------------------------------------------------------------------------
(* The registers of a caller. *)

\* A scalar, or a failure, is that of an integer, or of none.
ScalarsAgree(s, n) == \/ s = Err /\ n = Err
                      \/ n \in Int /\ s = ScalarOf(Residue(n))

\* Registers hold the multiples and the residues that the history says.
WrapInv ==
  /\ lib \in Libraries
  /\ logs \in [Registers -> 0 .. GroupOrder - 1] /\ residues \in [Registers -> 0 .. GroupOrder - 1]
  /\ points = [r \in Registers |-> Held(logs[r])] /\ scalars = [r \in Registers |-> ScalarOf(residues[r])]

LEMMA RegistersHold ==
  ASSUME WrapInv, NEW i \in Registers
  PROVE  /\ lib \in Libraries /\ logs[i] \in 0 .. GroupOrder - 1 /\ residues[i] \in 0 .. GroupOrder - 1
         /\ points[i] = Held(logs[i]) /\ scalars[i] = ScalarOf(residues[i])
BY DEF WrapInv

LEMMA SameLibrary ==
  ASSUME lib' = lib
  PROVE  \A n : Held(n)' = Held(n) /\ ScalarOf(n)' = ScalarOf(n)
BY DEF Held, PointOf, ScalarOf, Cofactor, Secp

LEMMA WritePointKeeps ==
  ASSUME WrapInv, NEW i \in Registers, NEW p, NEW log, Agree(p, log), WritePoint(i, p, log)
  PROVE  WrapInv'
<1>1. lib' = lib /\ scalars' = scalars /\ residues' = residues
  BY DEF WritePoint
<1>2. /\ logs' \in [Registers -> 0 .. GroupOrder - 1]
      /\ points' = [r \in Registers |-> Held(logs'[r])]
  <2>1. CASE p = Err /\ log = Err
    BY <2>1 DEF WritePoint, WrapInv
  <2>2. CASE log \in Int /\ p = Held(Residue(log))
    <3> DEFINE n == Residue(log)
    <3>1. n \in 0 .. GroupOrder - 1 /\ n = log % GroupOrder
      BY <2>2, ResidueType DEF Residue
    <3> HIDE DEF n
    <3>2. Held(n) # Err /\ log # Err
      BY <2>2, <3>1, HeldFacts, OutcomesDiffer DEF WrapInv
    <3>3. points' = [points EXCEPT ![i] = Held(n)] /\ logs' = [logs EXCEPT ![i] = n]
      BY <2>2, <3>1, <3>2 DEF WritePoint, n
    <3> QED BY <3>1, <3>3 DEF WrapInv
  <2> QED BY <2>1, <2>2 DEF Agree
<1>3. \A n : Held(n)' = Held(n) /\ ScalarOf(n)' = ScalarOf(n)
  BY <1>1, SameLibrary
<1> QED BY <1>1, <1>2, <1>3 DEF WrapInv

LEMMA WriteScalarKeeps ==
  ASSUME WrapInv, NEW i \in Registers, NEW s, NEW n, ScalarsAgree(s, n), WriteScalar(i, s, n)
  PROVE  WrapInv'
<1>1. lib' = lib /\ points' = points /\ logs' = logs
  BY DEF WriteScalar
<1>2. /\ residues' \in [Registers -> 0 .. GroupOrder - 1]
      /\ scalars' = [r \in Registers |-> ScalarOf(residues'[r])]
  <2>1. CASE s = Err /\ n = Err
    BY <2>1 DEF WriteScalar, WrapInv
  <2>2. CASE n \in Int /\ s = ScalarOf(Residue(n))
    <3> DEFINE m == Residue(n)
    <3>1. m \in 0 .. GroupOrder - 1 /\ m = n % GroupOrder /\ m \in Int
      BY <2>2, ResidueType, GroupFacts DEF Residue
    <3> HIDE DEF m
    <3>2. ScalarOf(m) # Err /\ n # Err
      BY <2>2, <3>1, OutcomesDiffer DEF ScalarOf
    <3>3. scalars' = [scalars EXCEPT ![i] = ScalarOf(m)] /\ residues' = [residues EXCEPT ![i] = m]
      BY <2>2, <3>1, <3>2 DEF WriteScalar, m
    <3> QED BY <3>1, <3>3 DEF WrapInv
  <2> QED BY <2>1, <2>2 DEF ScalarsAgree
<1>3. \A k : Held(k)' = Held(k) /\ ScalarOf(k)' = ScalarOf(k)
  BY <1>1, SameLibrary
<1> QED BY <1>1, <1>2, <1>3 DEF WrapInv

-----------------------------------------------------------------------------
(* The actions. *)

LEMMA RawKeeps ==
  ASSUME WrapInv, NEW i \in Registers, NEW e \in Nat, PointFromRaw(i, e)
  PROVE  WrapInv'
<1>1. lib \in Libraries
  BY DEF WrapInv
<1>2. GroupSize \in Nat /\ e < GroupSize
  BY <1>1, LibraryFacts DEF PointFromRaw
<1>3. e \in 0 .. GroupSize - 1
  BY <1>2
<1>4. Agree(FromRaw(PointOf(e)), LogOf(e))
  BY <1>1, <1>3, OfElement
<1>5. WritePoint(i, FromRaw(PointOf(e)), LogOf(e))
  BY DEF PointFromRaw
<1> QED BY <1>4, <1>5, WritePointKeeps

LEMMA BytesKeep ==
  ASSUME WrapInv, NEW i \in Registers, NEW bytes \in AllBytes, PointFromBytes(i, bytes) \/ ScalarFromBytes(i, bytes)
  PROVE  WrapInv'
<1>1. lib \in Libraries
  BY DEF WrapInv
<1>2. bytes.number \in Nat
  <2>1. bytes.number \in 0 .. GroupOrder * BlsCofactor
    BY DEF AllBytes
  <2> QED BY <2>1
<1>3. CASE PointFromBytes(i, bytes)
  <2>1. PICK p, log : p = FromRaw(Deserialize(bytes)) /\ log = IF Encoded(bytes) THEN LogOf(bytes.number) ELSE Err
    OBVIOUS
  <2>2. Agree(p, log)
    BY <1>1, <1>2, <2>1, PointsDecoded
  <2>3. WritePoint(i, p, log)
    BY <1>3, <2>1 DEF PointFromBytes, Encoded
  <2> QED BY <2>2, <2>3, WritePointKeeps
<1>4. CASE ScalarFromBytes(i, bytes)
  <2>1. PICK s, n : /\ s = DeserializeScalar(bytes)
                    /\ n = IF bytes.length = "scalar" /\ bytes.number < GroupOrder THEN bytes.number ELSE Err
    OBVIOUS
  <2>2. ScalarsAgree(s, n)
    BY <1>1, <2>1, ScalarsMade DEF ScalarsAgree
  <2>3. WriteScalar(i, s, n)
    BY <1>4, <2>1 DEF ScalarFromBytes
  <2> QED BY <2>2, <2>3, WriteScalarKeeps
<1> QED BY <1>3, <1>4

\* to_bytes gives the number of the element.
LEMMA ReencodeKeeps ==
  ASSUME WrapInv, NEW i \in Registers, NEW j \in Registers, NEW form \in {"compressed", "uncompressed"},
         PointReencode(j, form, i)
  PROVE  WrapInv'
<1>1. PICK n \in 0 .. GroupOrder - 1 : n = logs[j] /\ points[j] = Held(n) /\ lib \in Libraries
  BY RegistersHold
<1>2. PICK e : e = n * Cofactor /\ e \in 0 .. GroupSize - 1 /\ e \in Int /\ (n = 0 <=> e = 0)
  BY <1>1, HeldFacts
<1>3. (IsZero(Held(n)) <=> n = 0) /\ FromRaw(Held(n)) = Held(n) /\ Residue(n) = n /\ n \in Int
  BY <1>1, HeldIsRaw
<1>4. (IF IsZero(points[j]) THEN 0 ELSE points[j]) = e
  <2>1. n # 0 => Held(n) = e
    BY <1>2 DEF Held, PointOf
  <2> QED BY <1>1, <1>2, <1>3, <2>1
<1>5. PICK bytes : bytes = [length |-> form, number |-> e]
  OBVIOUS
<1>6. bytes.number = e /\ Encoded(bytes) /\ bytes.number \in Nat /\ e < GroupSize
  <2>1. GroupSize \in Int /\ e \in Nat /\ e < GroupSize
    <3>1. GroupSize \in Int
      BY <1>1, LibraryFacts
    <3> QED BY <1>2, <3>1
  <2>2. bytes.number = e /\ bytes.length = form
    BY <1>5
  <2> QED BY <2>1, <2>2 DEF Encoded
<1>7. Deserialize(bytes) = PointOf(e)
  BY <1>1, <1>6, PointsDecoded
<1>8. PICK p : p = FromRaw(Deserialize(bytes))
  OBVIOUS
<1>9. Agree(p, n)
  BY <1>2, <1>3, <1>7, <1>8 DEF Agree, Held
<1>10. WritePoint(i, p, n)
  BY <1>1, <1>4, <1>5, <1>8 DEF PointReencode, Serialize
<1> QED BY <1>9, <1>10, WritePointKeeps

LEMMA RecoordinateKeeps ==
  ASSUME WrapInv, NEW i \in Registers, NEW j \in Registers, PointRecoordinate(j, i)
  PROVE  WrapInv'
<1>1. PICK n \in 0 .. GroupOrder - 1 : n = logs[j] /\ points[j] = Held(n) /\ lib \in Libraries
  BY RegistersHold
<1>2. PICK e : e = n * Cofactor /\ e \in 0 .. GroupSize - 1 /\ e \in Int /\ (n = 0 <=> e = 0)
  BY <1>1, HeldFacts
<1>3. (IsZero(Held(n)) <=> n = 0) /\ FromRaw(Held(n)) = Held(n) /\ Residue(n) = n /\ n \in Int
  BY <1>1, HeldIsRaw
<1>4. Coords(points[j]) # None
  BY DEF PointRecoordinate
<1>5. n # 0
  <2> SUFFICES ASSUME IsZero(points[j]) PROVE Coords(points[j]) = None
    BY <1>1, <1>3, <1>4
  <2> QED BY DEF Coords, SecpCoords, BlsCoords, IsZero, SecpIsZero
<1>6. e \in 1 .. GroupSize - 1 /\ Held(n) = e
  BY <1>2, <1>5 DEF Held, PointOf
<1>7. PICK x \in Coordinate, y \in Coordinate :
        Coordinates[lib][e] = <<x, y>> /\ ElementAt(<<x, y>>) = e /\ ~FlagGiven(x, y)
  BY <1>1, <1>6, OwnCoordinates
<1>8. Coords(points[j]) = <<x, y>>
  BY <1>1, <1>4, <1>6, <1>7 DEF Coords, SecpCoords, BlsCoords
<1>9. FromCoords(x, y) = e
  BY <1>1, <1>7, CoordinatesFound
<1>10. PICK p : p = FromRaw(FromCoords(x, y))
  OBVIOUS
<1>11. Agree(p, n)
  BY <1>3, <1>6, <1>9, <1>10 DEF Agree
<1>12. WritePoint(i, p, n)
  <2>1. <<x, y>>[1] = x /\ <<x, y>>[2] = y
    OBVIOUS
  <2> QED BY <1>1, <1>8, <1>10, <2>1 DEF PointRecoordinate
<1> QED BY <1>11, <1>12, WritePointKeeps

LEMMA CoordsKeep ==
  ASSUME WrapInv, NEW i \in Registers, NEW xy \in Given, PointFromCoords(i, xy[1], xy[2])
  PROVE  WrapInv'
<1>1. PICK x \in Coordinate, y \in Coordinate : x = xy[1] /\ y = xy[2]
  <2>1. xy \in Coordinate \X Coordinate
    BY WrapAssumption DEF Coordinate
  <2> QED BY <2>1
<1>2. PICK p, log : p = FromRaw(FromCoords(x, y)) /\ log = IF FlagGiven(x, y) THEN 0 ELSE LogOf(ElementAt(<<x, y>>))
  OBVIOUS
<1>3. Agree(p, log)
  BY <1>2, CoordinatesAgree DEF WrapInv
<1>4. WritePoint(i, p, log)
  BY <1>1, <1>2 DEF PointFromCoords
<1> QED BY <1>3, <1>4, WritePointKeeps

LEMMA BigIntKeeps ==
  ASSUME WrapInv, NEW i \in Registers, NEW n \in Int, ScalarFromBigInt(i, n)
  PROVE  WrapInv'
<1>1. PICK s : s = FromBigInt(n)
  OBVIOUS
<1>2. ScalarsAgree(s, n)
  BY <1>1, ScalarsMade DEF WrapInv, ScalarsAgree
<1>3. WriteScalar(i, s, n)
  BY <1>1 DEF ScalarFromBigInt
<1> QED BY <1>2, <1>3, WriteScalarKeeps

\* An operand is held, and the variant calls the function with both.
LEMMA OperandHeld ==
  ASSUME WrapInv, NEW i \in Registers, NEW k
  PROVE  /\ LogOperand(k, i) \in 0 .. GroupOrder - 1 /\ Operand(k, i) = Held(LogOperand(k, i))
         /\ lib \in Libraries
<1>1. lib \in Libraries /\ logs[i] \in 0 .. GroupOrder - 1 /\ points[i] = Held(logs[i])
  BY RegistersHold
<1>2. GENERATOR = Held(1) /\ 1 \in 0 .. GroupOrder - 1
  BY <1>1, GeneratorTimes, GroupFacts
<1> QED BY <1>1, <1>2 DEF Operand, LogOperand

LEMMA CalledWith ==
  ASSUME NEW op, NEW lhs, NEW rhs, NEW x, NEW y, NEW on, on = Called(Variant(op, lhs, rhs), x, y)
  PROVE  (on[1] = x /\ on[2] = y) \/ (op # "sub" /\ on[1] = y /\ on[2] = x)
BY DEF Called, Variant, SumVariant, DifferenceVariant

LEMMA OperationKeeps ==
  ASSUME WrapInv, NEW op \in {"add", "sub"}, NEW lhs, NEW rhs, NEW i \in Registers, NEW j \in Registers,
         NEW to \in Registers, PointOperation(op, lhs, i, rhs, j, to)
  PROVE  WrapInv'
<1>1. PICK l \in 0 .. GroupOrder - 1 : l = LogOperand(lhs, i) /\ Operand(lhs, i) = Held(l)
  BY OperandHeld
<1>2. PICK m \in 0 .. GroupOrder - 1 : m = LogOperand(rhs, j) /\ Operand(rhs, j) = Held(m)
  BY OperandHeld
<1>3. lib \in Libraries /\ l \in Int /\ m \in Int /\ l + m = m + l /\ l + m \in Int /\ l - m \in Int
  <2>1. GroupOrder \in Nat /\ lib \in Libraries
    BY GroupFacts DEF WrapInv
  <2> QED BY <2>1
<1>4. PICK x, y : x = Held(l) /\ y = Held(m)
  OBVIOUS
<1>5. PICK on : on = Called(Variant(op, lhs, rhs), x, y)
  OBVIOUS
<1>6. (on[1] = x /\ on[2] = y) \/ (op # "sub" /\ on[1] = y /\ on[2] = x)
  BY <1>5, CalledWith
<1>7. PICK p, log : p = PointFn(op, on[1], on[2]) /\ log = IF op = "add" THEN l + m ELSE l - m
  OBVIOUS
<1>8. WritePoint(to, p, log)
  BY <1>1, <1>2, <1>4, <1>5, <1>7 DEF PointOperation
<1>9. Agree(p, log)
  <2>1. CASE op = "add"
    <3>1. PointFn("add", x, y) = Held(Residue(l + m))
      BY <1>3, <1>4, PointSum
    <3>2. PointFn("add", y, x) = Held(Residue(m + l))
      BY <1>3, <1>4, PointSum
    <3> QED BY <1>3, <1>6, <1>7, <2>1, <3>1, <3>2 DEF Agree
  <2>2. CASE op = "sub"
    <3>1. PointFn("sub", x, y) = Held(Residue(l - m))
      BY <1>3, <1>4, PointDifference
    <3> QED BY <1>3, <1>6, <1>7, <2>2, <3>1 DEF Agree
  <2> QED BY <2>1, <2>2
<1> QED BY <1>8, <1>9, WritePointKeeps

LEMMA MultiplyKeeps ==
  ASSUME WrapInv, NEW lhs, NEW rhs, NEW i \in Registers, NEW j \in Registers,
         NEW to \in Registers, MultiplyPoint(lhs, rhs, i, j, to)
  PROVE  WrapInv'
<1>1. PICK l \in 0 .. GroupOrder - 1 : l = logs[i] /\ points[i] = Held(l) /\ lib \in Libraries
  BY RegistersHold
<1>2. PICK m \in 0 .. GroupOrder - 1 : m = residues[j] /\ scalars[j] = ScalarOf(m)
  BY RegistersHold
<1>3. l \in Int /\ m \in Int
  BY GroupFacts
<1>4. l * m \in Int
  BY <1>3
<1>5. PICK x, y : x = Held(l) /\ y = ScalarOf(m)
  OBVIOUS
<1>6. PICK on : on = IF lhs[1] = "scalar" THEN Called(ProductVariant(lhs, rhs), y, x)
                     ELSE Called(ProductVariant(lhs, rhs), x, y)
  OBVIOUS
<1>7. (on[1] = x /\ on[2] = y) \/ (on[1] = y /\ on[2] = x)
  BY <1>6 DEF Called
<1>8. PICK p, log : p = PointFn("mul", on[1], on[2]) /\ log = l * m
  OBVIOUS
<1>9. WritePoint(to, p, log)
  BY <1>1, <1>2, <1>5, <1>6, <1>8 DEF MultiplyPoint
<1>10. PointFn("mul", x, y) = Held(Residue(l * m)) /\ PointFn("mul", y, x) = Held(Residue(l * m))
  BY <1>1, <1>5, PointProduct
<1>11. Agree(p, log)
  BY <1>4, <1>7, <1>8, <1>10 DEF Agree
<1> QED BY <1>9, <1>11, WritePointKeeps

LEMMA GeneratorKeeps ==
  ASSUME WrapInv, NEW j \in Registers, NEW to \in Registers, MultiplyGenerator(j, to)
  PROVE  WrapInv'
<1>1. PICK m \in 0 .. GroupOrder - 1 : m = residues[j] /\ scalars[j] = ScalarOf(m) /\ lib \in Libraries
  BY RegistersHold
<1>2. GeneratorMul(ScalarOf(m)) = Held(m) /\ FromRawExpect(Held(m)) = Held(m) /\ m \in Int /\ Residue(m) = m
  BY <1>1, GeneratorTimes, HeldIsRaw
<1>3. PICK p : p = FromRawExpect(GeneratorMul(ScalarOf(m)))
  OBVIOUS
<1>4. WritePoint(to, p, m)
  BY <1>1, <1>3 DEF MultiplyGenerator
<1>5. Agree(p, m)
  BY <1>2, <1>3 DEF Agree
<1> QED BY <1>4, <1>5, WritePointKeeps

LEMMA NegateKeeps ==
  ASSUME WrapInv, NEW k, NEW i \in Registers, NEW to \in Registers, NegatePoint(k, i, to)
  PROVE  WrapInv'
<1>1. PICK l \in 0 .. GroupOrder - 1 : l = LogOperand(k, i) /\ Operand(k, i) = Held(l) /\ lib \in Libraries
  BY OperandHeld
<1>2. l \in Int /\ -l \in Int
  BY GroupFacts
<1>3. PICK log : log = -l
  OBVIOUS
<1>4. Residue(log) \in 0 .. GroupOrder - 1 /\ log \in Int
  BY <1>2, <1>3, ResidueType
<1>5. NegPoint(Held(l)) = Held(Residue(log)) /\ FromRawExpect(Held(Residue(log))) = Held(Residue(log))
  BY <1>1, <1>3, <1>4, PointNegated, HeldIsRaw
<1>6. PICK p : p = FromRawExpect(NegPoint(Held(l)))
  OBVIOUS
<1>7. WritePoint(to, p, log)
  BY <1>1, <1>3, <1>6 DEF NegatePoint
<1>8. Agree(p, log)
  BY <1>4, <1>5, <1>6 DEF Agree
<1> QED BY <1>7, <1>8, WritePointKeeps

LEMMA SumKeeps ==
  ASSUME WrapInv, NEW to \in Registers, SumPoints(to)
  PROVE  WrapInv'
<1>0. 1 \in Registers /\ 2 \in Registers
  BY DEF Registers
<1>1. PICK l \in 0 .. GroupOrder - 1 : l = logs[1] /\ points[1] = Held(l) /\ lib \in Libraries
  BY <1>0, RegistersHold
<1>2. PICK m \in 0 .. GroupOrder - 1 : m = logs[2] /\ points[2] = Held(m)
  BY <1>0, RegistersHold
<1>3. l \in Int /\ m \in Int /\ l + m \in Int /\ 0 + l = l /\ Residue(l) = l /\ 0 \in 0 .. GroupOrder - 1
  BY GroupFacts DEF Residue
<1>4. PointOf(0) = Held(0)
  <2>1. 0 * Cofactor = 0
    BY <1>1, LibraryFacts
  <2> QED BY <2>1 DEF Held
<1>5. PointFn("add", Held(0), Held(l)) = Held(Residue(0 + l))
  BY <1>1, <1>3, PointSum
<1>6. PointFn("add", Held(l), Held(m)) = Held(Residue(l + m))
  BY <1>1, PointSum
<1>7. PICK p, log : p = Held(Residue(l + m)) /\ log = l + m
  OBVIOUS
<1>8. WritePoint(to, p, log)
  BY <1>1, <1>2, <1>3, <1>4, <1>5, <1>6, <1>7 DEF SumPoints
<1>9. Agree(p, log)
  BY <1>3, <1>7 DEF Agree
<1> QED BY <1>8, <1>9, WritePointKeeps

LEMMA ScalarOperationKeeps ==
  ASSUME WrapInv, NEW op \in {"add", "sub", "mul"}, NEW lhs, NEW rhs, NEW i \in Registers, NEW j \in Registers,
         NEW to \in Registers, ScalarOperation(op, lhs, i, rhs, j, to)
  PROVE  WrapInv'
<1>1. PICK l \in 0 .. GroupOrder - 1 : l = residues[i] /\ scalars[i] = ScalarOf(l) /\ lib \in Libraries
  BY RegistersHold
<1>2. PICK m \in 0 .. GroupOrder - 1 : m = residues[j] /\ scalars[j] = ScalarOf(m)
  BY RegistersHold
<1>3. l \in Int /\ m \in Int
  BY GroupFacts
<1>4. l + m \in Int /\ l - m \in Int /\ l * m \in Int /\ m + l = l + m /\ m * l = l * m
  BY <1>3
<1>5. PICK x, y : x = ScalarOf(l) /\ y = ScalarOf(m)
  OBVIOUS
<1>6. PICK on : on = Called(Variant(op, lhs, rhs), x, y)
  OBVIOUS
<1>7. (on[1] = x /\ on[2] = y) \/ (op # "sub" /\ on[1] = y /\ on[2] = x)
  BY <1>6, CalledWith
<1>8. PICK s, n : s = ScalarFn(op, on[1], on[2]) /\ n = Result(op, l, m)
  OBVIOUS
<1>9. WriteScalar(to, s, n)
  BY <1>1, <1>2, <1>5, <1>6, <1>8 DEF ScalarOperation
<1>10. ScalarsAgree(s, n)
  <2>1. /\ ScalarFn("add", x, y) = ScalarOf(Residue(l + m)) /\ ScalarFn("sub", x, y) = ScalarOf(Residue(l - m))
        /\ ScalarFn("mul", x, y) = ScalarOf(Residue(l * m))
    BY <1>1, <1>5, ScalarsCompute
  <2>2. ScalarFn("add", y, x) = ScalarOf(Residue(m + l)) /\ ScalarFn("mul", y, x) = ScalarOf(Residue(m * l))
    BY <1>1, <1>5, ScalarsCompute
  <2>3. CASE op = "add"
    BY <1>4, <1>7, <1>8, <2>1, <2>2, <2>3 DEF ScalarsAgree, Result
  <2>4. CASE op = "sub"
    BY <1>4, <1>7, <1>8, <2>1, <2>4 DEF ScalarsAgree, Result
  <2>5. CASE op = "mul"
    BY <1>4, <1>7, <1>8, <2>1, <2>2, <2>5 DEF ScalarsAgree, Result
  <2> QED BY <2>3, <2>4, <2>5
<1> QED BY <1>9, <1>10, WriteScalarKeeps

LEMMA NegateScalarKeeps ==
  ASSUME WrapInv, NEW i \in Registers, NEW to \in Registers, NegateScalar(i, to)
  PROVE  WrapInv'
<1>1. PICK l \in 0 .. GroupOrder - 1 : l = residues[i] /\ scalars[i] = ScalarOf(l) /\ lib \in Libraries
  BY RegistersHold
<1>2. l \in Int /\ -l \in Int
  BY GroupFacts
<1>3. NegScalar(ScalarOf(l)) = ScalarOf(Residue(-l))
  BY <1>1, ScalarsCompute
<1>4. PICK s, n : s = NegScalar(ScalarOf(l)) /\ n = -l
  OBVIOUS
<1>5. WriteScalar(to, s, n)
  BY <1>1, <1>4 DEF NegateScalar
<1>6. ScalarsAgree(s, n)
  BY <1>2, <1>3, <1>4 DEF ScalarsAgree
<1> QED BY <1>5, <1>6, WriteScalarKeeps

LEMMA InvertScalarKeeps ==
  ASSUME WrapInv, NEW i \in Registers, NEW to \in Registers, InvertScalar(i, to)
  PROVE  WrapInv'
<1>1. PICK l \in 0 .. GroupOrder - 1 : l = residues[i] /\ scalars[i] = ScalarOf(l) /\ lib \in Libraries
  BY RegistersHold
<1>2. /\ (IsZero(ScalarOf(l)) <=> l = 0)
      /\ l # 0 => Reciprocal(l) \in 0 .. GroupOrder - 1 /\ InverseOf(ScalarOf(l)) = ScalarOf(Residue(Reciprocal(l)))
  BY <1>1, ScalarInverted
<1>3. l # 0 => Reciprocal(l) \in Int
  BY <1>2, GroupFacts
<1>4. PICK s, n : /\ s = IF IsZero(ScalarOf(l)) THEN Err ELSE InverseOf(ScalarOf(l))
                  /\ n = IF l = 0 THEN Err ELSE Reciprocal(l)
  OBVIOUS
<1>5. WriteScalar(to, s, n)
  BY <1>1, <1>4 DEF InvertScalar
<1>6. ScalarsAgree(s, n)
  BY <1>2, <1>3, <1>4 DEF ScalarsAgree
<1> QED BY <1>5, <1>6, WriteScalarKeeps

LEMMA MultiplyScalarsKeeps ==
  ASSUME WrapInv, NEW to \in Registers, MultiplyScalars(to)
  PROVE  WrapInv'
<1>0. 1 \in Registers /\ 2 \in Registers
  BY DEF Registers
<1>1. PICK l \in 0 .. GroupOrder - 1 : l = residues[1] /\ scalars[1] = ScalarOf(l) /\ lib \in Libraries
  BY <1>0, RegistersHold
<1>2. PICK m \in 0 .. GroupOrder - 1 : m = residues[2] /\ scalars[2] = ScalarOf(m)
  BY <1>0, RegistersHold
<1>3. l \in Int /\ m \in Int /\ 1 \in 0 .. GroupOrder - 1 /\ Residue(l) = l /\ Residue(1) = 1
  BY GroupFacts DEF Residue
<1>4. l * m \in Int /\ 1 * l = l
  BY <1>3
<1>5. FromBigInt(1) = ScalarOf(1)
  <2>1. 1 \in Int
    OBVIOUS
  <2> QED BY <1>1, <1>3, <2>1, ScalarsMade
<1>6. ScalarFn("mul", ScalarOf(1), ScalarOf(l)) = ScalarOf(Residue(1 * l))
  BY <1>1, <1>3, ScalarsCompute
<1>7. ScalarFn("mul", ScalarOf(l), ScalarOf(m)) = ScalarOf(Residue(l * m))
  BY <1>1, ScalarsCompute
<1>8. PICK s, n : s = ScalarOf(Residue(l * m)) /\ n = l * m
  OBVIOUS
<1>9. WriteScalar(to, s, n)
  BY <1>1, <1>2, <1>3, <1>4, <1>5, <1>6, <1>7, <1>8 DEF MultiplyScalars
<1>10. ScalarsAgree(s, n)
  BY <1>4, <1>8 DEF ScalarsAgree
<1> QED BY <1>9, <1>10, WriteScalarKeeps

LEMMA StepKeeps ==
  ASSUME WrapInv, [WrapNext]_wrapVars
  PROVE  WrapInv'
<1>1. CASE UNCHANGED wrapVars
  <2>1. lib' = lib /\ points' = points /\ logs' = logs /\ scalars' = scalars /\ residues' = residues
    BY <1>1 DEF wrapVars
  <2>2. \A n : Held(n)' = Held(n) /\ ScalarOf(n)' = ScalarOf(n)
    BY <2>1, SameLibrary
  <2> QED BY <2>1, <2>2 DEF WrapInv
<1>2. ASSUME NEW to \in Registers, NEW e \in 0 .. GroupOrder * BlsCofactor - 1, PointFromRaw(to, e) PROVE WrapInv'
  <2>1. e \in Nat
    OBVIOUS
  <2> QED BY <1>2, <2>1, RawKeeps
<1>3. ASSUME NEW to \in Registers, NEW n \in Numbers, ScalarFromBigInt(to, n) PROVE WrapInv'
  <2>1. n \in Int
    BY WrapAssumption
  <2> QED BY <1>3, <2>1, BigIntKeeps
<1>4. CASE \E to \in Registers : \/ \E e \in 0 .. GroupOrder * BlsCofactor - 1 : PointFromRaw(to, e)
                                 \/ \E xy \in Given : PointFromCoords(to, xy[1], xy[2])
                                 \/ \E bytes \in AllBytes : PointFromBytes(to, bytes) \/ ScalarFromBytes(to, bytes)
                                 \/ \E n \in Numbers : ScalarFromBigInt(to, n)
                                 \/ SumPoints(to) \/ MultiplyScalars(to)
  BY <1>2, <1>3, <1>4, CoordsKeep, BytesKeep, SumKeeps, MultiplyScalarsKeeps
<1>5. ASSUME NEW to \in Registers, NEW i \in Registers, NEW j \in Registers,
             \/ \E op \in {"add", "sub"}, lhs, rhs \in Passed \cup {"generator"} : PointOperation(op, lhs, i, rhs, j, to)
             \/ \E k1, k2 \in Passed : \/ MultiplyPoint(<<"point", k1>>, <<"scalar", k2>>, i, j, to)
                                      \/ MultiplyPoint(<<"scalar", k1>>, <<"point", k2>>, i, j, to)
             \/ \E op \in {"add", "sub", "mul"}, lhs, rhs \in Passed : ScalarOperation(op, lhs, i, rhs, j, to)
      PROVE  WrapInv'
  <2>1. CASE \E op \in {"add", "sub"}, lhs, rhs \in Passed \cup {"generator"} : PointOperation(op, lhs, i, rhs, j, to)
    BY <2>1, OperationKeeps
  <2>2. CASE \E k1, k2 \in Passed : \/ MultiplyPoint(<<"point", k1>>, <<"scalar", k2>>, i, j, to)
                                    \/ MultiplyPoint(<<"scalar", k1>>, <<"point", k2>>, i, j, to)
    <3>1. PICK lhs, rhs : MultiplyPoint(lhs, rhs, i, j, to)
      BY <2>2
    <3> QED BY <3>1, MultiplyKeeps
  <2>3. CASE \E op \in {"add", "sub", "mul"}, lhs, rhs \in Passed : ScalarOperation(op, lhs, i, rhs, j, to)
    BY <2>3, ScalarOperationKeeps
  <2> QED BY <1>5, <2>1, <2>2, <2>3
<1>6. ASSUME NEW to \in Registers, NEW i \in Registers,
             \/ \E form \in {"compressed", "uncompressed"} : PointReencode(i, form, to)
             \/ \E k \in Passed \cup {"generator"} : NegatePoint(k, i, to)
             \/ PointRecoordinate(i, to)
             \/ MultiplyGenerator(i, to) \/ NegateScalar(i, to) \/ InvertScalar(i, to)
      PROVE  WrapInv'
  BY <1>6, ReencodeKeeps, NegateKeeps, RecoordinateKeeps, GeneratorKeeps, NegateScalarKeeps, InvertScalarKeeps
<1> QED BY <1>1, <1>4, <1>5, <1>6 DEF WrapNext

\* However points and scalars are computed one from another (the operators of
\* wrappers/point.rs, scalar.rs and arithmetic.rs, from_bytes, from_raw and
\* from_coords), over secp256k1 and BLS12-381 of every prime order and cofactor, a
\* register holds the library's one form of the multiple or the residue that
\* integers modulo the order give.
THEOREM WrappersCorrect == WrapSpec => []WrappersAgree
<1>1. WrapInit => WrapInv
  <2> SUFFICES ASSUME WrapInit PROVE WrapInv
    OBVIOUS
  <2>1. lib \in Libraries /\ 0 \in 0 .. GroupOrder - 1
    BY GroupFacts DEF WrapInit
  <2>2. 0 * Cofactor = 0
    BY <2>1, LibraryFacts
  <2> QED BY <2>1, <2>2 DEF WrapInit, WrapInv, Held
<1>2. WrapInv /\ [WrapNext]_wrapVars => WrapInv'
  BY StepKeeps
<1>3. WrapInv => WrappersAgree
  <2> SUFFICES ASSUME WrapInv, NEW i \in Registers
               PROVE  points[i] = PointOf((logs[i] * GENERATOR) % GroupSize) /\ scalars[i] = ScalarOf(residues[i])
    BY DEF WrappersAgree
  <2>1. PICK n \in 0 .. GroupOrder - 1 : n = logs[i] /\ points[i] = Held(n) /\ lib \in Libraries
    BY RegistersHold
  <2>2. n \in Int /\ n % GroupOrder = n
    BY GroupFacts
  <2>3. (n * Cofactor) % GroupSize = n * Cofactor
    BY <2>1, <2>2, LibraryFacts
  <2>4. scalars[i] = ScalarOf(residues[i])
    BY RegistersHold
  <2> QED BY <2>1, <2>3, <2>4 DEF Held, GENERATOR
<1> QED BY <1>1, <1>2, <1>3, PTL DEF WrapSpec
=============================================================================

---------------------------- MODULE NatTheorems ----------------------------
(***************************************************************************)
(* What the proofs need of the naturals and is not in the library:         *)
(* induction and recursion over them, with sets and functions in place of  *)
(* predicates and operators, derived from the well-foundedness of Nat; the *)
(* remainders of every positive modulus, up to Fermat's little theorem;    *)
(* and sums and loops, which are recursive functions (Iteration).          *)
(***************************************************************************)
EXTENDS Iteration, WellFoundedInduction, TLAPS

\* Induction: a set of naturals with 0 that is closed under successor is Nat.
\* Else there is a smallest natural outside it, which is a successor.
LEMMA NatSetInduction ==
  ASSUME NEW S \in SUBSET Nat, 0 \in S, \A n \in S : n + 1 \in S
  PROVE  S = Nat
<1> SUFFICES ASSUME Nat \ S # {} PROVE FALSE
  OBVIOUS
<1> DEFINE R == OpToRel(<, Nat)
           T == Nat \ S
<1>1. \A m, n \in Nat : m < n => <<m, n>> \in R
  BY DEF OpToRel
<1>2. PICK x \in T : \A y \in T : <<y, x>> \notin R
  <2>1. IsWellFoundedOn(R, Nat)
    BY NatLessThanWellFounded
  <2>2. T \subseteq Nat /\ T # {}
    OBVIOUS
  <2> HIDE DEF R, T
  <2> QED BY <2>1, <2>2, WFMin
<1> HIDE DEF R
<1>3. x \in Nat \ {0} /\ x - 1 \in Nat /\ (x - 1) + 1 = x
  OBVIOUS
<1>4. x - 1 \in T
  BY <1>3
<1>5. <<x - 1, x>> \in R
  BY <1>1, <1>3
<1> QED BY <1>2, <1>4, <1>5

\* s begins with c and goes on by the steps of G.
Follows(s, c, G) == s[0] = c /\ \A n \in Nat : s[n + 1] = G[n + 1][s[n]]

\* Recursion: a first value and a step for each number determine a function, of
\* whatever type.  The solutions up to n exist, and agree with those up to m
\* where both are defined.
LEMMA FreeRecursion ==
  ASSUME NEW c, NEW G
  PROVE  \E s : s = [n \in Nat |-> s[n]] /\ Follows(s, c, G)
<1> DEFINE Sol(n, g) == g[0] = c /\ \A i \in 1 .. n : g[i] = G[i][g[i - 1]]
<1>1. \A n \in Nat : \E g : Sol(n, g)
  <2>1. \E g : Sol(0, g)
    <3>1. Sol(0, [i \in 0 .. 0 |-> c])
      OBVIOUS
    <3> QED BY <3>1
  <2>2. ASSUME NEW n \in Nat, NEW g, Sol(n, g) PROVE \E h : Sol(n + 1, h)
    <3> DEFINE h == [i \in 0 .. n + 1 |-> IF i = n + 1 THEN G[n + 1][g[n]] ELSE g[i]]
    <3>1. h[0] = c
      BY <2>2
    <3>2. ASSUME NEW i \in 1 .. n + 1 PROVE h[i] = G[i][h[i - 1]]
      <4>1. CASE i = n + 1
        BY <4>1
      <4>2. CASE i \in 1 .. n
        <5>1. g[i] = G[i][g[i - 1]]
          BY <2>2, <4>2
        <5>2. h[i] = g[i] /\ h[i - 1] = g[i - 1]
          BY <4>2
        <5> QED BY <5>1, <5>2
      <4> QED BY <4>1, <4>2
    <3>3. Sol(n + 1, h)
      <4> HIDE DEF h
      <4> QED BY <3>1, <3>2
    <3> QED BY <3>3
  <2> HIDE DEF Sol
  <2> DEFINE T == {n \in Nat : \E g : Sol(n, g)}
  <2>3. 0 \in T /\ \A n \in T : n + 1 \in T
    BY <2>1, <2>2
  <2>4. T = Nat
    <3> HIDE DEF T
    <3>1. T \in SUBSET Nat
      BY DEF T
    <3> QED BY <2>3, <3>1, NatSetInduction
  <2> QED BY <2>4
<1>2. \A m, n \in Nat : \A g, h : Sol(n, g) /\ Sol(m, h) /\ n <= m => g[n] = h[n]
  <2> SUFFICES ASSUME NEW m \in Nat, NEW h, Sol(m, h)
               PROVE  \A n \in Nat : \A g : Sol(n, g) /\ n <= m => g[n] = h[n]
    <3> HIDE DEF Sol
    <3> QED OBVIOUS
  <2> DEFINE Agree(n) == \A g : Sol(n, g) /\ n <= m => g[n] = h[n]
  <2>1. Agree(0)
    OBVIOUS
  <2>2. ASSUME NEW n \in Nat, Agree(n), NEW g, Sol(n + 1, g), n + 1 <= m
        PROVE  g[n + 1] = h[n + 1]
    <3> DEFINE r == [i \in 0 .. n |-> g[i]]
    <3>1. Sol(n, r)
      <4>1. r[0] = c
        BY <2>2
      <4>2. ASSUME NEW i \in 1 .. n PROVE r[i] = G[i][r[i - 1]]
        <5>1. g[i] = G[i][g[i - 1]]
          BY <2>2
        <5> QED BY <5>1
      <4> QED BY <4>1, <4>2
    <3>2. r[n] = h[n]
      <4>1. n <= m
        BY <2>2
      <4> HIDE DEF r, Sol
      <4> QED BY <2>2, <3>1, <4>1
    <3>3. g[n + 1] = G[n + 1][g[n]]
      BY <2>2
    <3>4. h[n + 1] = G[n + 1][h[n]]
      BY <2>2
    <3> QED BY <3>2, <3>3, <3>4
  <2>3. \A n \in Nat : Agree(n) => Agree(n + 1)
    BY <2>2
  <2> HIDE DEF Agree
  <2> DEFINE T == {n \in Nat : Agree(n)}
  <2>4. 0 \in T /\ \A n \in T : n + 1 \in T
    BY <2>1, <2>3
  <2>5. T = Nat
    <3> HIDE DEF T
    <3>1. T \in SUBSET Nat
      BY DEF T
    <3> QED BY <2>4, <3>1, NatSetInduction
  <2>6. \A n \in Nat : Agree(n)
    BY <2>5
  <2> QED BY <2>6 DEF Agree
<1>3. \A n \in Nat : \A g : Sol(n, g) => g[0] = c /\ (n > 0 => g[n] = G[n][g[n - 1]])
  OBVIOUS
<1> DEFINE pick(n) == CHOOSE g : Sol(n, g)
           s == [n \in Nat |-> pick(n)[n]]
<1>4. \A n \in Nat : Sol(n, pick(n))
  <2> HIDE DEF Sol
  <2> QED BY <1>1
<1>5. s = [n \in Nat |-> s[n]] /\ s[0] = c
  <2> HIDE DEF Sol, pick
  <2>1. pick(0)[0] = c
    BY <1>3, <1>4
  <2> QED BY <2>1
<1>6. ASSUME NEW n \in Nat PROVE s[n + 1] = G[n + 1][s[n]]
  <2> HIDE DEF Sol, pick
  <2> DEFINE m == n + 1
  <2>1. m \in Nat /\ m > 0 /\ m - 1 = n /\ n <= m
    OBVIOUS
  <2> HIDE DEF m
  <2>2. Sol(m, pick(m)) /\ Sol(n, pick(n))
    BY <1>4, <2>1
  <2>3. pick(m)[m] = G[m][pick(m)[n]]
    BY <1>3, <2>1, <2>2
  <2>4. pick(n)[n] = pick(m)[n]
    BY <1>2, <2>1, <2>2
  <2>5. s[m] = G[m][s[n]]
    BY <2>1, <2>3, <2>4
  <2> QED BY <2>5 DEF m
<1>7. Follows(s, c, G)
  <2> HIDE DEF s
  <2> QED BY <1>5, <1>6 DEF Follows
<1> QED BY <1>5, <1>7

\* The first m steps of G stay in S; so do the values of s.
Stays(S, G, m)  == \A i \in 1 .. m : \A v \in S : G[i][v] \in S
Within(S, s, m) == \A n \in 0 .. m : s[n] \in S

LEMMA FollowsType ==
  ASSUME NEW S, NEW c \in S, NEW G, NEW s, Follows(s, c, G), NEW m \in Nat, Stays(S, G, m)
  PROVE  Within(S, s, m)
<1> DEFINE T == {n \in Nat : n <= m => s[n] \in S}
<1>1. 0 \in T
  BY DEF Follows
<1>2. \A n \in T : n + 1 \in T
  BY DEF Follows, Stays
<1>3. T = Nat
  <2> HIDE DEF T
  <2>1. T \in SUBSET Nat
    BY DEF T
  <2> QED BY <1>1, <1>2, <2>1, NatSetInduction
<1> QED BY <1>3 DEF Within

LEMMA NatRecursion ==
  ASSUME NEW S, NEW c \in S, NEW G \in [Nat -> [S -> S]]
  PROVE  \E s \in [Nat -> S] : Follows(s, c, G)
<1>1. PICK s : s = [n \in Nat |-> s[n]] /\ Follows(s, c, G)
  BY FreeRecursion, Zenon
<1>2. ASSUME NEW n \in Nat PROVE s[n] \in S
  <2>1. Stays(S, G, n)
    BY DEF Stays
  <2>2. Within(S, s, n)
    BY <1>1, <2>1, FollowsType, Zenon
  <2> QED BY <2>2 DEF Within
<1> QED BY <1>1, <1>2

\* A loop has the value of its turns.
LEMMA IterateDef ==
  ASSUME NEW c, NEW G
  PROVE  Follows(Iterate(c, G), c, G)
<1>1. PICK s : s = [n \in Nat |-> s[n]] /\ Follows(s, c, G)
  BY FreeRecursion, Zenon
<1>2. s = [n \in Nat |-> IF n = 0 THEN c ELSE G[n][s[n - 1]]]
  <2>1. ASSUME NEW n \in Nat \ {0} PROVE s[n] = G[n][s[n - 1]]
    <3>1. n - 1 \in Nat /\ (n - 1) + 1 = n
      OBVIOUS
    <3>2. s[(n - 1) + 1] = G[(n - 1) + 1][s[n - 1]]
      BY <1>1, <3>1 DEF Follows
    <3> QED BY <3>1, <3>2
  <2>2. s[0] = c
    BY <1>1 DEF Follows
  <2> QED BY <1>1, <2>1, <2>2
<1>3. Iterate(c, G) = [n \in Nat |-> IF n = 0 THEN c ELSE G[n][Iterate(c, G)[n - 1]]]
  BY <1>2 DEF Iterate
<1> DEFINE r == Iterate(c, G)
<1> HIDE DEF r
<1>4. r = [n \in Nat |-> IF n = 0 THEN c ELSE G[n][r[n - 1]]]
  BY <1>3 DEF r
<1>5. r[0] = c /\ \A n \in Nat : r[n + 1] = G[n + 1][r[n]]
  BY <1>4
<1> QED BY <1>5 DEF Follows, r

\* Of a loop whose values stay in a set for its first m turns.
LEMMA IterateType ==
  ASSUME NEW S, NEW c \in S, NEW G, NEW m \in Nat, Stays(S, G, m)
  PROVE  Follows(Iterate(c, G), c, G) /\ Within(S, Iterate(c, G), m)
<1> DEFINE r == Iterate(c, G)
<1>1. Follows(r, c, G)
  BY IterateDef
<1> HIDE DEF r
<1>2. Within(S, r, m)
  BY <1>1, FollowsType, Zenon
<1> QED BY <1>1, <1>2 DEF r

\* Powers of two grow, and faster than their exponents.
LEMMA TwoToFacts ==
  /\ TwoTo[0] = 1 /\ \A n \in Nat : TwoTo[n + 1] = 2 * TwoTo[n]
  /\ \A n \in Nat : TwoTo[n] \in Nat /\ n < TwoTo[n]
  /\ \A n \in Nat : \A m \in 0 .. n - 1 : TwoTo[m] < TwoTo[n]
<1> DEFINE c == 1
           G == [l \in Nat |-> [v \in Nat |-> 2 * v]]
           t == TwoTo
<1>1. Follows(t, c, G)
  BY IterateDef DEF TwoTo
<1>2. \A n, v \in Nat : G[n + 1][v] = 2 * v
  OBVIOUS
<1>3. c = 1 /\ 1 \in Nat
  OBVIOUS
<1> HIDE DEF t, c, G
<1> DEFINE T == {n \in Nat : t[n] \in Nat /\ n < t[n]}
<1>4. 0 \in T
  BY <1>1, <1>3 DEF Follows
<1>5. ASSUME NEW n \in T PROVE n + 1 \in T /\ t[n + 1] = 2 * t[n]
  <2>1. t[n + 1] = 2 * t[n]
    BY <1>1, <1>2 DEF Follows
  <2> QED BY <2>1
<1>6. T = Nat
  <2>1. \A n \in T : n + 1 \in T
    BY <1>5
  <2> HIDE DEF T
  <2>2. T \in SUBSET Nat
    BY DEF T
  <2> QED BY <1>4, <2>1, <2>2, NatSetInduction
<1>7. \A n \in Nat : t[n] \in Nat /\ n < t[n] /\ t[n + 1] = 2 * t[n]
  BY <1>5, <1>6
<1> HIDE DEF T
<1> DEFINE U == {n \in Nat : \A m \in 0 .. n - 1 : t[m] < t[n]}
<1>8. 0 \in U
  OBVIOUS
<1>9. ASSUME NEW n \in U PROVE n + 1 \in U
  <2> SUFFICES ASSUME NEW m \in 0 .. n PROVE t[m] < t[n + 1]
    OBVIOUS
  <2>1. t[n] \in Nat /\ t[n] > 0 /\ t[n + 1] = 2 * t[n] /\ t[m] \in Nat
    BY <1>7
  <2>2. m = n \/ t[m] < t[n]
    OBVIOUS
  <2> QED BY <2>1, <2>2
<1>10. U = Nat
  <2> HIDE DEF U
  <2>1. U \in SUBSET Nat
    BY DEF U
  <2> QED BY <1>8, <1>9, <2>1, NatSetInduction
<1>11. \A n \in Nat : \A m \in 0 .. n - 1 : t[m] < t[n]
  BY <1>10
<1> QED BY <1>1, <1>3, <1>7, <1>11 DEF Follows, t

-----------------------------------------------------------------------------
(* Remainders. *)

\* The remainder lies in range and differs from the number by a multiple of N.
LEMMA ModRange ==
  ASSUME NEW N \in Nat \ {0}, NEW a \in Int
  PROVE  a % N \in 0 .. N - 1 /\ \E q \in Int : a = q * N + (a % N)
<1>1. a % N \in 0 .. N - 1 /\ a \div N \in Int /\ a = N * (a \div N) + (a % N)
  OBVIOUS
<1>2. N * (a \div N) = (a \div N) * N
  BY <1>1
<1> QED BY <1>1, <1>2

\* A remainder in range is the remainder.
LEMMA ModUnique ==
  ASSUME NEW N \in Nat \ {0}, NEW q \in Int, NEW r \in 0 .. N - 1
  PROVE  (q * N + r) % N = r
<1> DEFINE a == q * N + r
<1>1. a \in Int
  OBVIOUS
<1>2. PICK p \in Int : a = p * N + (a % N)
  BY <1>1, ModRange
<1>3. a % N \in 0 .. N - 1
  BY <1>1, ModRange
<1> DEFINE s == a % N
<1>4. s \in 0 .. N - 1 /\ q * N + r = p * N + s
  BY <1>2, <1>3
<1> HIDE DEF s
<1>5. q = p
  <2>1. (q - p) * N = s - r
    BY <1>4
  <2>2. ~ (q - p >= 1)
    <3>1. SUFFICES ASSUME q - p >= 1 PROVE FALSE
      OBVIOUS
    <3>2. (q - p) * N >= N
      BY <3>1
    <3> QED BY <1>4, <2>1, <3>2
  <2>3. ~ (p - q >= 1)
    <3>1. SUFFICES ASSUME p - q >= 1 PROVE FALSE
      OBVIOUS
    <3>2. (p - q) * N >= N
      BY <3>1
    <3>3. (p - q) * N = 0 - ((q - p) * N)
      OBVIOUS
    <3> QED BY <1>4, <2>1, <3>2, <3>3
  <2> QED BY <2>2, <2>3
<1>6. s = r
  BY <1>4, <1>5
<1> QED BY <1>6 DEF s

\* A number already in range is its own remainder.
LEMMA ModSmall ==
  ASSUME NEW N \in Nat \ {0}, NEW r \in 0 .. N - 1
  PROVE  r % N = r
<1>1. (0 * N + r) % N = r
  BY ModUnique
<1>2. 0 * N + r = r
  OBVIOUS
<1> QED BY <1>1, <1>2

\* Multiples of N do not matter, nor does reducing a summand first.
LEMMA ModCarry ==
  ASSUME NEW N \in Nat \ {0}, NEW a \in Int, NEW b \in Int, NEW k \in Int
  PROVE  (a + b + k * N) % N = ((a % N) + b) % N
<1>1. PICK q \in Int : a = q * N + (a % N)
  BY ModRange
<1> DEFINE r == a % N
<1>2. r \in Int /\ a = q * N + r
  BY <1>1, ModRange
<1> HIDE DEF r
<1> DEFINE c == r + b
           t == c % N
<1>3. c \in Int
  BY <1>2
<1>4. t \in 0 .. N - 1 /\ \E p \in Int : c = p * N + t
  <2> HIDE DEF c
  <2> QED BY <1>3, ModRange
<1> HIDE DEF t
<1> PICK p \in Int : c = p * N + t
  BY <1>4
<1>5. a + b + k * N = (q + p + k) * N + t
  <2>1. a + b + k * N = q * N + p * N + k * N + t
    BY <1>2, <1>4
  <2>2. q * N + p * N + k * N = (q + p + k) * N
    OBVIOUS
  <2> QED BY <1>4, <2>1, <2>2
<1>6. ((q + p + k) * N + t) % N = t
  BY <1>4, ModUnique
<1> QED BY <1>5, <1>6 DEF t, r

\* Reducing a summand first does not matter.
LEMMA ModPlus ==
  ASSUME NEW N \in Nat \ {0}, NEW a \in Int, NEW b \in Int
  PROVE  (a + b) % N = ((a % N) + b) % N
<1> DEFINE z == 0
<1>1. z \in Int /\ a + b + z * N = a + b
  OBVIOUS
<1> HIDE DEF z
<1>2. (a + b + z * N) % N = ((a % N) + b) % N
  BY <1>1, ModCarry
<1> QED BY <1>1, <1>2

LEMMA ModSum ==
  ASSUME NEW N \in Nat \ {0}, NEW a \in Int, NEW b \in Int
  PROVE  ((a % N) + (b % N)) % N = (a + b) % N
<1> DEFINE s == b % N
<1>1. s \in Int
  BY ModRange
<1>2. (b + a) % N = (s + a) % N
  BY ModPlus
<1> HIDE DEF s
<1>3. (a + s) % N = ((a % N) + s) % N
  BY <1>1, ModPlus
<1>4. b + a = a + b /\ s + a = a + s
  BY <1>1
<1> QED BY <1>2, <1>3, <1>4 DEF s

\* Multiples of N do not matter.
LEMMA ModShift ==
  ASSUME NEW N \in Nat \ {0}, NEW a \in Int, NEW k \in Int
  PROVE  (a + k * N) % N = a % N
<1> DEFINE z == 0
<1>1. z \in Int /\ a + z + k * N = a + k * N
  BY Z3
<1>2. (a % N) + z = a % N /\ a % N \in 0 .. N - 1
  BY ModRange
<1> HIDE DEF z
<1>3. (a + z + k * N) % N = ((a % N) + z) % N
  BY <1>1, ModCarry
<1>4. (a % N) % N = a % N
  BY <1>2, ModSmall
<1> QED BY <1>1, <1>2, <1>3, <1>4

\* Reducing a factor first does not matter.
LEMMA ModTimes ==
  ASSUME NEW N \in Nat \ {0}, NEW a \in Int, NEW b \in Int
  PROVE  ((a % N) * b) % N = (a * b) % N
<1> DEFINE r == a % N
<1>1. PICK q \in Int : a = q * N + r
  BY ModRange
<1>2. r \in Int
  BY ModRange
<1> HIDE DEF r
<1> DEFINE c == r * b
           k == q * b
<1>3. c \in Int /\ k \in Int
  BY <1>2
<1>4. a * b = c + k * N
  <2>1. a * b = (q * N) * b + r * b
    BY <1>1, <1>2, Z3
  <2>2. (q * N) * b = (q * b) * N
    BY Z3
  <2> QED BY <2>1, <2>2, <1>2, Z3
<1> HIDE DEF c, k
<1>5. (c + k * N) % N = c % N
  BY <1>3, ModShift
<1> QED BY <1>4, <1>5 DEF c, r

-----------------------------------------------------------------------------
(* Residues. *)

\* a and b have one residue.
Same(N, a, b) == a % N = b % N

LEMMA SameRefl ==
  ASSUME NEW N \in Nat \ {0}, NEW a \in Int
  PROVE  a % N \in Int /\ Same(N, a % N, a)
<1> DEFINE r == a % N
<1>1. r \in 0 .. N - 1
  BY ModRange
<1> HIDE DEF r
<1>2. r % N = r /\ r \in Int
  BY <1>1, ModSmall
<1> QED BY <1>2 DEF r, Same

\* Sums and products of equal residues are equal residues.
LEMMA SamePlus ==
  ASSUME NEW N \in Nat \ {0}, NEW a \in Int, NEW b \in Int, NEW c \in Int, NEW d \in Int,
         Same(N, a, b), Same(N, c, d)
  PROVE  Same(N, a + c, b + d)
<1>1. ((a % N) + (c % N)) % N = (a + c) % N
  BY ModSum
<1>2. ((b % N) + (d % N)) % N = (b + d) % N
  BY ModSum
<1> QED BY <1>1, <1>2 DEF Same

LEMMA SameTimes ==
  ASSUME NEW N \in Nat \ {0}, NEW a \in Int, NEW b \in Int, NEW c \in Int, Same(N, a, b)
  PROVE  Same(N, a * c, b * c)
<1>1. ((a % N) * c) % N = (a * c) % N
  BY ModTimes
<1>2. ((b % N) * c) % N = (b * c) % N
  BY ModTimes
<1> QED BY <1>1, <1>2 DEF Same

LEMMA SameMinus ==
  ASSUME NEW N \in Nat \ {0}, NEW a \in Int, NEW b \in Int, NEW c \in Int, NEW d \in Int,
         Same(N, a, b), Same(N, c, d)
  PROVE  Same(N, a - c, b - d)
<1> DEFINE m == -1
           u == c * m
           w == d * m
<1>1. m \in Int
  OBVIOUS
<1>2. u \in Int /\ w \in Int /\ a + u = a - c /\ b + w = b - d
  OBVIOUS
<1> HIDE DEF m
<1>3. Same(N, u, w)
  BY <1>1, SameTimes
<1> HIDE DEF u, w
<1>4. Same(N, a + u, b + w)
  BY <1>2, <1>3, SamePlus
<1> QED BY <1>2, <1>4

\* No number from 2 up to N divides N.
NoDivisor(N) == \A d \in 2 .. N - 1 : N % d # 0

\* Modulo a prime, every number that is not zero has an inverse: N % a has one,
\* and N = q * a + N % a.
LEMMA PrimeInverse ==
  ASSUME NEW N \in Nat \ {0}, NoDivisor(N), NEW a \in 1 .. N - 1
  PROVE  \E b \in Int : Same(N, b * a, 1)
<1> DEFINE Inv(n) == \E b \in Int : Same(N, b * n, 1)
           T == {n \in Nat : \A m \in 1 .. n : m < N => Inv(m)}
<1>1. 0 \in T
  OBVIOUS
<1>2. ASSUME NEW n \in Nat, \A m \in 1 .. n : m < N => Inv(m), n + 1 < N PROVE Inv(n + 1)
  <2>1. CASE n = 0
    <3> DEFINE b == 1
    <3>1. b * (n + 1) = 1 /\ b \in Int
      BY <2>1
    <3>2. Same(N, b * (n + 1), 1)
      BY <3>1 DEF Same
    <3> QED BY <3>1, <3>2
  <2>2. CASE n # 0
    <3> DEFINE m == n + 1
    <3>1. m \in 2 .. N - 1 /\ m \in Nat \ {0}
      BY <1>2, <2>2
    <3> DEFINE r == N % m
    <3> HIDE DEF m
    <3>2. N \in Int
      OBVIOUS
    <3>3. r \in 0 .. m - 1 /\ \E q \in Int : N = q * m + r
      BY <3>1, <3>2, ModRange
    <3>4. r # 0
      BY <3>1 DEF NoDivisor
    <3> HIDE DEF r
    <3>5. r \in 1 .. n /\ r < N
      BY <3>1, <3>3, <3>4 DEF m
    <3>6. PICK b \in Int : Same(N, b * r, 1)
      BY <1>2, <3>5
    <3>7. PICK q \in Int : N = q * m + r
      BY <3>3
    <3> DEFINE c == 0 - b * q
               x == b * r
    <3>8. c \in Int /\ x \in Int /\ b \in Int
      BY <3>3
    <3>9. c * m = x + (0 - b) * N
      <4>1. b * N = b * (q * m) + b * r
        BY <3>1, <3>3, <3>7
      <4>2. c * m = 0 - b * (q * m)
        BY <3>1
      <4>3. b * (q * m) \in Int /\ (0 - b) * N = 0 - b * N /\ b * N \in Int
        BY <3>1
      <4>4. b * r = x
        OBVIOUS
      <4> DEFINE u == b * (q * m)
                 w == b * N
      <4>5. w = u + x /\ c * m = 0 - u /\ (0 - b) * N = 0 - w /\ u \in Int /\ w \in Int
        BY <4>1, <4>2, <4>3, <4>4
      <4> HIDE DEF u, w, c, x
      <4> QED BY <3>8, <4>5
    <3>10. (x + (0 - b) * N) % N = x % N
      <4> DEFINE k == 0 - b
      <4>1. k \in Int
        OBVIOUS
      <4> HIDE DEF k, x
      <4>2. (x + k * N) % N = x % N
        BY <3>8, <4>1, ModShift
      <4> QED BY <4>2 DEF k
    <3>11. Same(N, c * m, 1)
      BY <3>6, <3>9, <3>10 DEF Same
    <3> QED BY <3>8, <3>11 DEF m
  <2> QED BY <2>1, <2>2
<1> HIDE DEF Inv
<1>3. ASSUME NEW n \in T PROVE n + 1 \in T
  <2>1. n \in Nat /\ \A m \in 1 .. n : m < N => Inv(m)
    OBVIOUS
  <2>2. \A m \in 1 .. n + 1 : m \in 1 .. n \/ m = n + 1
    BY <2>1
  <2> QED BY <1>2, <2>1, <2>2
<1>4. T = Nat
  <2> HIDE DEF T
  <2>1. T \in SUBSET Nat
    BY DEF T
  <2> QED BY <1>1, <1>3, <2>1, NatSetInduction
<1>5. a \in T /\ a \in 1 .. a /\ a < N
  BY <1>4
<1>6. Inv(a)
  BY <1>5
<1> QED BY <1>6 DEF Inv

\* A factor that is not zero can be taken off.
LEMMA PrimeCancel ==
  ASSUME NEW N \in Nat \ {0}, NoDivisor(N), NEW a \in 1 .. N - 1,
         NEW x \in Int, NEW y \in Int, Same(N, x * a, y * a)
  PROVE  Same(N, x, y)
<1>1. PICK b \in Int : Same(N, b * a, 1)
  BY PrimeInverse
<1> DEFINE u == b * a
           o == 1
<1>2. u \in Int /\ o \in Int /\ Same(N, u, o)
  BY <1>1
<1> HIDE DEF u, o
<1>3. Same(N, u * x, o * x) /\ Same(N, u * y, o * y)
  BY <1>2, SameTimes
<1>4. Same(N, (x * a) * b, (y * a) * b)
  <2> DEFINE v == x * a
             w == y * a
  <2>1. v \in Int /\ w \in Int /\ Same(N, v, w)
    OBVIOUS
  <2> HIDE DEF v, w
  <2>2. Same(N, v * b, w * b)
    BY <2>1, SameTimes
  <2> QED BY <2>2 DEF v, w
<1>5. (x * a) * b = u * x /\ (y * a) * b = u * y /\ o * x = x /\ o * y = y
  BY DEF u, o
<1> QED BY <1>3, <1>4, <1>5 DEF Same

-----------------------------------------------------------------------------
(* Products of the members of a set, and Fermat's little theorem. *)

\* The product of the members of S up to n, for every n.
MembersProduct(S) ==
  Iterate(1, [i \in Nat |-> [v \in Nat |-> IF i \in S THEN v * i ELSE v]])

LEMMA MembersProductDef ==
  ASSUME NEW S
  PROVE  /\ MembersProduct(S)[0] = 1
         /\ \A n \in Nat : /\ MembersProduct(S)[n] \in Nat
                           /\ MembersProduct(S)[n + 1] = IF n + 1 \in S
                                THEN MembersProduct(S)[n] * (n + 1) ELSE MembersProduct(S)[n]
<1> DEFINE c == 1
           G == [i \in Nat |-> [v \in Nat |-> IF i \in S THEN v * i ELSE v]]
           t == MembersProduct(S)
<1>1. Follows(t, c, G)
  BY IterateDef DEF MembersProduct
<1>2. ASSUME NEW n \in Nat, NEW v \in Nat
      PROVE  G[n + 1][v] = IF n + 1 \in S THEN v * (n + 1) ELSE v
  OBVIOUS
<1>3. c = 1
  OBVIOUS
<1> HIDE DEF t, c, G
<1>4. t[0] = 1 /\ \A n \in Nat : t[n + 1] = G[n + 1][t[n]]
  BY <1>1, <1>3 DEF Follows
<1> DEFINE T == {n \in Nat : t[n] \in Nat}
<1>5. 0 \in T
  BY <1>4
<1>6. ASSUME NEW n \in T PROVE n + 1 \in T
  <2> DEFINE v == t[n]
  <2>1. v \in Nat /\ n \in Nat /\ n + 1 \in Nat
    OBVIOUS
  <2>2. t[n + 1] = IF n + 1 \in S THEN v * (n + 1) ELSE v
    BY <1>2, <1>4
  <2> HIDE DEF v
  <2>3. v * (n + 1) \in Nat
    BY <2>1
  <2> QED BY <2>1, <2>2, <2>3
<1>7. T = Nat
  <2> HIDE DEF T
  <2>1. T \in SUBSET Nat
    BY DEF T
  <2> QED BY <1>5, <1>6, <2>1, NatSetInduction
<1>8. \A n \in Nat : t[n] \in Nat
  BY <1>7
<1> QED BY <1>2, <1>4, <1>8 DEF t

\* A new member multiplies it, from its own place on.
LEMMA MembersProductAdd ==
  ASSUME NEW S, NEW x \in Nat \ {0}, x \notin S
  PROVE  \A n \in Nat : MembersProduct(S \cup {x})[n] =
           IF x <= n THEN MembersProduct(S)[n] * x ELSE MembersProduct(S)[n]
<1> DEFINE R == S \cup {x}
           P == MembersProduct(S)
           Q == MembersProduct(R)
<1>1. P[0] = 1 /\ \A n \in Nat : /\ P[n] \in Nat
                                 /\ P[n + 1] = IF n + 1 \in S THEN P[n] * (n + 1) ELSE P[n]
  BY MembersProductDef, Zenon
<1>2. Q[0] = 1 /\ \A n \in Nat : /\ Q[n] \in Nat
                                 /\ Q[n + 1] = IF n + 1 \in R THEN Q[n] * (n + 1) ELSE Q[n]
  <2> HIDE DEF R
  <2> QED BY MembersProductDef, Zenon
<1> HIDE DEF P, Q
<1> DEFINE T == {n \in Nat : Q[n] = IF x <= n THEN P[n] * x ELSE P[n]}
<1>3. 0 \in T
  BY <1>1, <1>2
<1>4. ASSUME NEW n \in T PROVE n + 1 \in T
  <2> DEFINE v == P[n]
             w == Q[n]
             m == n + 1
  <2>1. v \in Nat /\ w \in Nat /\ m \in Nat /\ n \in Nat /\ n < m /\ (x <= n <=> x < m)
    BY <1>1, <1>2
  <2>2. w = IF x < m THEN v * x ELSE v
    BY <2>1
  <2>3. P[m] = (IF m \in S THEN v * m ELSE v) /\ Q[m] = (IF m \in R THEN w * m ELSE w)
    BY <1>1, <1>2
  <2> HIDE DEF v, w, m
  <2>4. CASE x < m
    <3>1. m \in R <=> m \in S
      BY <2>1, <2>4
    <3>2. (v * x) * m = (v * m) * x
      BY <2>1
    <3>3. Q[m] = P[m] * x
      BY <2>2, <2>3, <2>4, <3>1, <3>2
    <3> QED BY <2>1, <2>4, <3>3 DEF m
  <2>5. CASE x = m
    <3>1. Q[m] = w * x /\ P[m] = v /\ w = v
      BY <2>1, <2>2, <2>3, <2>5
    <3> QED BY <2>1, <2>5, <3>1 DEF m
  <2>6. CASE x > m
    <3>1. m \in R <=> m \in S
      BY <2>1, <2>6
    <3>2. Q[m] = P[m] /\ ~ (x <= m)
      BY <2>1, <2>2, <2>3, <2>6, <3>1
    <3> QED BY <2>1, <3>2 DEF m
  <2> QED BY <2>1, <2>4, <2>5, <2>6
<1>5. T = Nat
  <2> HIDE DEF T
  <2>1. T \in SUBSET Nat
    BY DEF T
  <2> QED BY <1>3, <1>4, <2>1, NatSetInduction
<1> QED BY <1>5 DEF P, Q

\* Modulo a prime a product of two numbers that are not zero is not.
LEMMA PrimeNonzero ==
  ASSUME NEW N \in Nat \ {0}, NoDivisor(N), NEW a \in 1 .. N - 1, NEW x \in Int,
         ~ Same(N, x, 0)
  PROVE  ~ Same(N, x * a, 0)
<1> DEFINE z == 0
<1>1. z * a = 0 /\ z \in Int
  OBVIOUS
<1> HIDE DEF z
<1>2. Same(N, x * a, z * a) => Same(N, x, z)
  BY <1>1, PrimeCancel
<1> QED BY <1>1, <1>2 DEF z

\* The powers of a as they are computed, up to multiples of N.
PowersOf(N, a, p) == /\ p[0] = 1
                     /\ \A n \in Nat : p[n] \in Int /\ Same(N, p[n + 1], p[n] * a)

\* Fermat's little theorem.  The multiples a, 2 * a, ... (N - 1) * a have all the
\* residues but zero, so that their product is the product of these; but it is
\* also theirs times the power of a.
LEMMA Fermat ==
  ASSUME NEW N \in Nat \ {0}, NoDivisor(N), NEW a \in 1 .. N - 1, NEW p, PowersOf(N, a, p)
  PROVE  Same(N, p[N - 1], 1)
<1> DEFINE L == N - 1
           res(i) == (a * i) % N
           S(k) == {res(i) : i \in 1 .. k}
           F(k) == MembersProduct(1 .. k)[k]
           E(k) == MembersProduct(S(k))[L]
<1>1. L \in Nat /\ a \in Int
  OBVIOUS
<1>2. ASSUME NEW i \in 1 .. L
      PROVE  a * i \in Int /\ res(i) \in 1 .. L /\ Same(N, res(i), a * i)
  <2> DEFINE v == a * i
  <2>1. v \in Int /\ i \in Int /\ i \in 1 .. N - 1
    OBVIOUS
  <2>2. i % N = i /\ 0 % N = 0
    BY <2>1, ModSmall
  <2>3. ~ Same(N, i, 0)
    BY <2>1, <2>2 DEF Same
  <2>4. ~ Same(N, i * a, 0)
    BY <2>1, <2>3, PrimeNonzero
  <2>5. i * a = v
    BY <2>1
  <2> HIDE DEF v
  <2>6. v % N \in 0 .. N - 1 /\ Same(N, v % N, v)
    BY <2>1, ModRange, SameRefl
  <2>7. v % N # 0
    BY <2>2, <2>4, <2>5 DEF Same
  <2> QED BY <2>1, <2>6, <2>7 DEF v
<1>3. ASSUME NEW i \in 1 .. L, NEW j \in 1 .. L, res(i) = res(j) PROVE i = j
  <2>1. a * i = i * a /\ a * j = j * a
    OBVIOUS
  <2>2. Same(N, i * a, j * a)
    BY <1>3, <2>1 DEF Same
  <2>3. Same(N, i, j)
    <3> HIDE DEF L
    <3>1. i \in Int /\ j \in Int
      BY <1>1
    <3> QED BY <2>2, <3>1, PrimeCancel
  <2>4. i % N = i /\ j % N = j
    BY ModSmall
  <2> QED BY <2>3, <2>4 DEF Same
<1>4. ASSUME NEW y \in 1 .. L PROVE \E i \in 1 .. L : res(i) = y
  <2>1. PICK b \in Int : Same(N, b * a, 1)
    BY PrimeInverse
  <2> DEFINE u == b * y
             i == u % N
             v == b * a
             o == 1
  <2>2. u \in Int /\ v \in Int /\ o \in Int /\ y \in Int /\ Same(N, v, o)
    BY <2>1
  <2>3. v * y = u * a /\ o * y = y
    BY <2>1
  <2> HIDE DEF u, v, o
  <2>4. Same(N, v * y, o * y)
    BY <2>2, SameTimes
  <2>5. i \in 0 .. N - 1 /\ i \in Int /\ Same(N, i, u)
    BY <2>2, ModRange, SameRefl
  <2> HIDE DEF i
  <2>6. Same(N, i * a, u * a)
    BY <1>1, <2>2, <2>5, SameTimes
  <2>7. Same(N, i * a, y)
    BY <2>3, <2>4, <2>6 DEF Same
  <2>8. a * i = i * a
    BY <2>5
  <2>9. y % N = y /\ 0 % N = 0
    BY ModSmall
  <2>10. res(i) = y
    BY <2>7, <2>8, <2>9 DEF Same
  <2>11. i # 0
    <3>1. a * 0 = 0
      OBVIOUS
    <3> QED BY <2>9, <2>10, <3>1
  <2> QED BY <2>5, <2>10, <2>11
<1>5. S(L) = 1 .. L
  <2> HIDE DEF res, L
  <2>1. \A i \in 1 .. L : res(i) \in 1 .. L
    BY <1>2
  <2> QED BY <1>4, <2>1
<1>6. F(0) = 1 /\ E(0) = 1 /\ p[0] = 1
  <2>1. S(0) = {} /\ \A n \in Nat : n \notin S(0)
    OBVIOUS
  <2> DEFINE P == MembersProduct(S(0))
             T == {n \in Nat : P[n] = 1}
  <2>2. P[0] = 1 /\ \A n \in Nat : P[n + 1] = IF n + 1 \in S(0) THEN P[n] * (n + 1) ELSE P[n]
    <3> HIDE DEF S
    <3> QED BY MembersProductDef, Zenon
  <2> HIDE DEF P, S
  <2>3. T \in SUBSET Nat /\ 0 \in T /\ \A n \in T : n + 1 \in T
    BY <2>1, <2>2
  <2>4. T = Nat
    <3> HIDE DEF T
    <3> QED BY <2>3, NatSetInduction
  <2>5. E(0) = 1
    BY <1>1, <2>4 DEF P
  <2>6. F(0) = 1
    BY MembersProductDef
  <2> QED BY <2>5, <2>6 DEF PowersOf
<1>7. ASSUME NEW k \in Nat
      PROVE  F(k) \in Nat /\ F(k + 1) = F(k) * (k + 1) /\ (k < L => E(k) \in Nat /\ E(k + 1) = E(k) * res(k + 1))
  <2> DEFINE m == k + 1
             A == 1 .. k
  <2>1. m \in Nat \ {0} /\ m \notin A /\ 1 .. m = A \cup {m} /\ m <= m /\ m > k
    OBVIOUS
  <2> HIDE DEF m, A
  <2>2. MembersProduct(1 .. m)[m] = MembersProduct(A)[m] * m
    BY <2>1, MembersProductAdd
  <2>3. MembersProduct(A)[k + 1] = MembersProduct(A)[k] /\ MembersProduct(A)[k] \in Nat
    BY <2>1, MembersProductDef DEF m
  <2>4. F(k) \in Nat /\ F(m) = F(k) * m
    BY <2>2, <2>3 DEF m, A
  <2>5. ASSUME k < L PROVE E(k) \in Nat /\ E(m) = E(k) * res(m)
    <3> DEFINE x == res(m)
               B == S(k)
    <3>1. m \in 1 .. L /\ m \in Nat /\ \A i \in 1 .. k : i \in 1 .. L /\ i # m
      BY <1>1, <2>1, <2>5 DEF m
    <3>2. x \in 1 .. L
      <4> HIDE DEF res, L
      <4> QED BY <1>2, <3>1
    <3>3. x \notin B
      <4> HIDE DEF res, L
      <4> QED BY <1>3, <3>1
    <3>4. S(m) = B \cup {x}
      <4> HIDE DEF res
      <4>1. 1 .. m = (1 .. k) \cup {m}
        BY <2>1 DEF A
      <4> QED BY <4>1
    <3>5. x \in Nat \ {0} /\ x <= L
      <4> HIDE DEF res
      <4> QED BY <3>2
    <3> HIDE DEF x, B
    <3>6. MembersProduct(S(m))[L] = MembersProduct(B)[L] * x /\ MembersProduct(B)[L] \in Nat
      <4> HIDE DEF S, L
      <4>1. \A n \in Nat : MembersProduct(B \cup {x})[n] =
              IF x <= n THEN MembersProduct(B)[n] * x ELSE MembersProduct(B)[n]
        BY <3>3, <3>5, MembersProductAdd
      <4>2. \A n \in Nat : MembersProduct(B)[n] \in Nat
        BY MembersProductDef
      <4> QED BY <1>1, <3>4, <3>5, <4>1, <4>2
    <3> QED BY <3>6 DEF x, B
  <2> HIDE DEF F, E, res, L
  <2> QED BY <2>4, <2>5 DEF m
<1> HIDE DEF F, E
<1> DEFINE Kept(k) == /\ E(k) \in Nat
                      /\ Same(N, E(k), p[k] * F(k))
                      /\ ~ Same(N, F(k), 0)
<1>8. Kept(0)
  <2>1. 1 % N = 1 /\ 0 % N = 0
    <3>1. 1 \in 0 .. N - 1 /\ 0 \in 0 .. N - 1
      OBVIOUS
    <3> QED BY <3>1, ModSmall
  <2> QED BY <1>6, <2>1 DEF Same
<1>9. ASSUME NEW k \in Nat, k < L, Kept(k) PROVE Kept(k + 1)
  <2> DEFINE m == k + 1
             x == res(m)
             e == E(k)
             f == F(k)
             g == p[k]
             h == p[m]
             y == a * m
  <2>1. m \in 1 .. L /\ m \in Int /\ m \in 1 .. N - 1
    BY <1>1, <1>9
  <2>2. x \in Int /\ y \in Int /\ x \in Nat /\ Same(N, x, y)
    <3> HIDE DEF m, res
    <3> QED BY <1>2, <2>1
  <2>3. e \in Nat /\ f \in Nat /\ E(m) = e * x /\ F(m) = f * m
    BY <1>7, <1>9
  <2>4. g \in Int /\ h \in Int /\ Same(N, h, g * a)
    BY <1>9 DEF PowersOf
  <2>5. Same(N, e, g * f) /\ ~ Same(N, f, 0)
    BY <1>9
  <2> HIDE DEF m, x, e, f, g, h, res
  <2> DEFINE z == f * m
             w == g * f
             b == g * a
  <2>6. z \in Int /\ w \in Int /\ b \in Int /\ e * x \in Nat
    BY <2>1, <2>2, <2>3, <2>4
  <2>7. w * y = b * z
    BY <2>1, <2>2, <2>3, <2>4
  <2> HIDE DEF y, z, w, b
  <2>8. Same(N, e * x, w * x)
    <3>1. Same(N, e, w) /\ e \in Int
      BY <2>3, <2>5 DEF w
    <3> QED BY <2>2, <2>6, <3>1, SameTimes
  <2>9. Same(N, x * w, y * w)
    BY <2>2, <2>6, SameTimes
  <2>10. Same(N, h * z, b * z)
    BY <2>4, <2>6, SameTimes DEF b
  <2>11. x * w = w * x /\ y * w = w * y
    BY <2>2, <2>6
  <2>12. Same(N, e * x, h * z)
    BY <2>7, <2>8, <2>9, <2>10, <2>11 DEF Same
  <2>13. ~ Same(N, f * m, 0)
    BY <2>1, <2>3, <2>5, PrimeNonzero
  <2>14. /\ E(m) \in Nat /\ Same(N, E(m), h * F(m)) /\ ~ Same(N, F(m), 0)
    BY <2>3, <2>6, <2>12, <2>13 DEF z
  <2> QED BY <2>14 DEF m, h
<1>10. Kept(L)
  <2> HIDE DEF Kept, L
  <2> DEFINE T == {k \in Nat : k <= L => Kept(k)}
  <2>1. T \in SUBSET Nat /\ 0 \in T
    BY <1>8
  <2>2. \A k \in T : k + 1 \in T
    BY <1>1, <1>9
  <2>3. T = Nat
    <3> HIDE DEF T
    <3> QED BY <2>1, <2>2, NatSetInduction
  <2> QED BY <1>1, <2>3
<1>11. E(L) = F(L)
  BY <1>5 DEF E, F
<1> DEFINE f == F(L)
           g == p[L]
           r == f % N
<1>12. f \in Nat /\ f \in Int /\ g \in Int /\ Same(N, f, g * f) /\ ~ Same(N, f, 0)
  <2> HIDE DEF L
  <2> QED BY <1>1, <1>7, <1>10, <1>11 DEF PowersOf
<1> HIDE DEF f, g
<1>13. r \in 0 .. N - 1 /\ Same(N, r, f) /\ r \in Int
  BY <1>12, ModRange, SameRefl
<1>14. r # 0
  <2>1. 0 % N = 0
    BY ModSmall
  <2> QED BY <1>12, <2>1 DEF Same
<1> HIDE DEF r
<1>15. r \in 1 .. N - 1
  BY <1>13, <1>14
<1>16. Same(N, r * g, f * g)
  BY <1>12, <1>13, SameTimes
<1> DEFINE o == 1
<1>17. r * g = g * r /\ f * g = g * f /\ o * r = r /\ o \in Int
  BY <1>12, <1>13
<1> HIDE DEF o
<1>18. Same(N, g * r, o * r)
  BY <1>12, <1>13, <1>16, <1>17 DEF Same
<1>19. Same(N, g, o)
  BY <1>12, <1>15, <1>17, <1>18, PrimeCancel
<1> QED BY <1>19 DEF g, o

-----------------------------------------------------------------------------
(* Sums. *)

\* The recursive equation of PartialSums has a solution, so PartialSums satisfies
\* its defining equation.
LEMMA PartialSumsDef ==
  ASSUME NEW F \in [Nat -> Int]
  PROVE  /\ PartialSums(F) \in [Nat -> Int]
         /\ PartialSums(F)[0] = 0
         /\ \A n \in Nat : PartialSums(F)[n + 1] = PartialSums(F)[n] + F[n + 1]
<1> DEFINE G == [n \in Nat |-> [x \in Int |-> x + F[n]]]
<1>1. G \in [Nat -> [Int -> Int]]
  OBVIOUS
<1>2. PICK s \in [Nat -> Int] : s[0] = 0 /\ \A n \in Nat : s[n + 1] = G[n + 1][s[n]]
  <2> HIDE DEF G
  <2> DEFINE S == Int
             c == 0
  <2>1. c \in S /\ G \in [Nat -> [S -> S]]
    BY <1>1
  <2> HIDE DEF S, c
  <2>2. \E s \in [Nat -> S] : Follows(s, c, G)
    BY <2>1, NatRecursion, Zenon
  <2> QED BY <2>2 DEF S, c, Follows
<1>3. s = [n \in Nat |-> IF n = 0 THEN 0 ELSE s[n - 1] + F[n]]
  <2>1. ASSUME NEW n \in Nat \ {0} PROVE s[n] = s[n - 1] + F[n]
    <3>1. n - 1 \in Nat /\ (n - 1) + 1 = n
      OBVIOUS
    <3>2. s[(n - 1) + 1] = G[(n - 1) + 1][s[n - 1]] /\ s[n - 1] \in Int
      BY <1>2, <3>1
    <3> QED BY <3>1, <3>2
  <2>2. s = [n \in Nat |-> s[n]]
    OBVIOUS
  <2> HIDE DEF G
  <2> QED BY <1>2, <2>1, <2>2
<1>4. PartialSums(F) = [n \in Nat |-> IF n = 0 THEN 0 ELSE PartialSums(F)[n - 1] + F[n]]
  BY <1>3 DEF PartialSums
<1> DEFINE P == PartialSums(F)
<1> HIDE DEF P, G
<1>5. P[0] = 0 /\ \A n \in Nat : P[n + 1] = P[n] + F[n + 1]
  <2>1. P = [n \in Nat |-> IF n = 0 THEN 0 ELSE P[n - 1] + F[n]]
    BY <1>4 DEF P
  <2> QED BY <2>1
<1>6. P \in [Nat -> Int]
  <2> DEFINE S == {n \in Nat : P[n] \in Int}
  <2>1. 0 \in S /\ \A n \in S : n + 1 \in S
    BY <1>5
  <2>2. S = Nat
    <3> HIDE DEF S
    <3>1. S \in SUBSET Nat
      BY DEF S
    <3> QED BY <2>1, <3>1, NatSetInduction
  <2>3. P = [n \in Nat |-> IF n = 0 THEN 0 ELSE P[n - 1] + F[n]]
    BY <1>4 DEF P
  <2> QED BY <2>2, <2>3
<1> QED BY <1>5, <1>6 DEF P

\* Changing one summand changes every partial sum that contains it, by the
\* difference, and no other.
LEMMA PartialSumsUpdate ==
  ASSUME NEW F \in [Nat -> Int], NEW G \in [Nat -> Int], NEW j \in Nat \ {0},
         \A i \in Nat \ {j} : G[i] = F[i]
  PROVE  \A n \in Nat : PartialSums(G)[n] =
           PartialSums(F)[n] + (IF j <= n THEN G[j] - F[j] ELSE 0)
<1> DEFINE P == PartialSums(F)
           Q == PartialSums(G)
           Holds(n) == Q[n] = P[n] + (IF j <= n THEN G[j] - F[j] ELSE 0)
<1>1. /\ P \in [Nat -> Int] /\ Q \in [Nat -> Int] /\ P[0] = 0 /\ Q[0] = 0
      /\ \A n \in Nat : P[n + 1] = P[n] + F[n + 1] /\ Q[n + 1] = Q[n] + G[n + 1]
  BY PartialSumsDef
<1> HIDE DEF P, Q
<1>2. Holds(0)
  BY <1>1
<1>3. ASSUME NEW n \in Nat, Holds(n) PROVE Holds(n + 1)
  <2>1. CASE n + 1 = j
    BY <1>1, <1>3, <2>1
  <2>2. CASE n + 1 # j
    <3>1. G[n + 1] = F[n + 1] /\ (j <= n + 1 <=> j <= n)
      BY <2>2
    <3> QED BY <1>1, <1>3, <3>1
  <2> QED BY <2>1, <2>2
<1> DEFINE S == {n \in Nat : Holds(n)}
<1>4. S = Nat
  <2>1. S \in SUBSET Nat /\ 0 \in S /\ \A n \in S : n + 1 \in S
    <3> HIDE DEF Holds
    <3> QED BY <1>2, <1>3
  <2> HIDE DEF S
  <2> QED BY <2>1, NatSetInduction
<1> QED BY <1>4 DEF P, Q

\* A sum of zeros is zero.
LEMMA PartialSumsZero ==
  ASSUME NEW F \in [Nat -> Int], NEW m \in Nat, \A i \in 1 .. m : F[i] = 0
  PROVE  PartialSums(F)[m] = 0
<1> DEFINE P == PartialSums(F)
           S == {n \in Nat : n <= m => P[n] = 0}
<1>1. P[0] = 0 /\ \A n \in Nat : P[n + 1] = P[n] + F[n + 1]
  BY PartialSumsDef
<1> HIDE DEF P
<1>2. S \in SUBSET Nat /\ 0 \in S /\ \A n \in S : n + 1 \in S
  BY <1>1
<1>3. S = Nat
  <2> HIDE DEF S
  <2> QED BY <1>2, NatSetInduction
<1> QED BY <1>3 DEF P

\* When a single summand is not zero, it is the sum.
LEMMA PartialSumsSingle ==
  ASSUME NEW F \in [Nat -> Int], NEW m \in Nat, NEW j \in 1 .. m,
         \A i \in (1 .. m) \ {j} : F[i] = 0
  PROVE  PartialSums(F)[m] = F[j]
<1> DEFINE G == [F EXCEPT ![j] = 0]
<1>1. G \in [Nat -> Int] /\ G[j] = 0 /\ \A i \in Nat \ {j} : F[i] = G[i]
  OBVIOUS
<1>2. \A i \in 1 .. m : G[i] = 0
  BY <1>1
<1> HIDE DEF G
<1>3. PartialSums(G)[m] = 0
  BY <1>1, <1>2, PartialSumsZero
<1>4. PartialSums(F)[m] = PartialSums(G)[m] + (F[j] - G[j])
  BY <1>1, PartialSumsUpdate
<1> QED BY <1>1, <1>3, <1>4
=============================================================================

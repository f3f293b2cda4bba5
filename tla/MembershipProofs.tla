-------------------------- MODULE MembershipProofs --------------------------
(***************************************************************************)
(* For every prime order, any number of points, rings of any size up to    *)
(* the order, and any keys and masks: interpolate returns the polynomial   *)
(* through the points, construct commits to the polynomial whose leading   *)
(* terms cancel where the committed key is the member's, so that the       *)
(* verifier accepts it for every hash, and another ring or member leaves a *)
(* polynomial with no more roots than its degree: at most log2(ring)       *)
(* hashes are accepted.  And for every width and every field: the members  *)
(* of a document's ring are the numbers of its keys.                       *)
(*                                                                         *)
(* Numbers are compared by their difference, a multiple of the order       *)
(* (Multiples), and a loop turn by the relation it keeps between the       *)
(* integers (Turned, Mixed, Shifted...), so that each lemma is one         *)
(* identity of integers and what follows of it.                            *)
(***************************************************************************)
EXTENDS Membership, Interpolation, Parse, FiniteSetTheorems, SequenceTheorems, NatTheorems

-----------------------------------------------------------------------------
(* Multiples of the order. *)

\* What the assumption on the order says of it and of its scalars.
LEMMA OrderFacts ==
  /\ Order \in Nat \ {0} /\ Order > 1 /\ NoDivisor(Order)
  /\ \A v \in Int : v % Order \in Scalar
  /\ \A v \in Scalar : v \in Int /\ v % Order = v
  /\ 0 \in Scalar /\ 1 \in Scalar
<1>1. Order \in Nat \ {0} /\ Order > 1 /\ NoDivisor(Order)
  BY OrderAssumption DEF NoDivisor
<1>2. \A v \in Int : v % Order \in Scalar
  BY <1>1, ModRange DEF Scalar
<1>3. \A v \in Scalar : v \in Int /\ v % Order = v
  BY <1>1, ModSmall DEF Scalar
<1>4. 0 \in Scalar /\ 1 \in Scalar
  BY <1>1 DEF Scalar
<1> QED BY <1>1, <1>2, <1>3, <1>4

LEMMA ScalarsAreInts == \A v \in Scalar : v \in Int
BY DEF Scalar

\* The numbers that are zero as scalars.
Multiples == {v \in Int : v % Order = 0}

LEMMA MultiplesAreInts == \A v \in Multiples : v \in Int
BY DEF Multiples

\* A remainder of zero is a multiple.
LEMMA MultipleSame ==
  ASSUME NEW v \in Int, NEW w \in Int
  PROVE  v - w \in Multiples <=> Same(Order, v, w)
<1>1. ASSUME Same(Order, v, w) PROVE v - w \in Multiples
  <2>1. Same(Order, w, w)
    BY DEF Same
  <2>2. Same(Order, v - w, w - w)
    BY <1>1, <2>1, OrderFacts, SameMinus
  <2>3. w - w = 0 /\ v - w \in Int
    OBVIOUS
  <2>4. 0 % Order = 0
    BY OrderFacts
  <2> QED BY <2>2, <2>3, <2>4 DEF Same, Multiples
<1>2. ASSUME v - w \in Multiples PROVE Same(Order, v, w)
  <2>1. Same(Order, v - w, 0)
    <3>1. 0 % Order = 0
      BY OrderFacts
    <3> QED BY <1>2, <3>1 DEF Multiples, Same
  <2>2. Same(Order, w, w)
    BY DEF Same
  <2>3. v - w \in Int /\ 0 \in Int
    OBVIOUS
  <2>4. Same(Order, (v - w) + w, 0 + w)
    BY <2>1, <2>2, <2>3, OrderFacts, SamePlus
  <2>5. (v - w) + w = v /\ 0 + w = w
    OBVIOUS
  <2> QED BY <2>4, <2>5
<1> QED BY <1>1, <1>2

\* Multiples are closed under sum, difference and sign.
LEMMA MultiplesClosed ==
  ASSUME NEW v \in Multiples, NEW w \in Multiples
  PROVE  0 \in Multiples /\ v + w \in Multiples /\ v - w \in Multiples
<1>1. v \in Int /\ w \in Int /\ 0 \in Int /\ Same(Order, v, 0) /\ Same(Order, w, 0) /\ 0 % Order = 0
  <2>1. 0 % Order = 0
    BY OrderFacts
  <2> QED BY <2>1 DEF Multiples, Same
<1>2. Same(Order, v + w, 0 + 0)
  BY <1>1, OrderFacts, SamePlus
<1>3. Same(Order, v - w, 0 - 0)
  BY <1>1, OrderFacts, SameMinus
<1>4. 0 + 0 = 0 /\ 0 - 0 = 0 /\ v + w \in Int /\ v - w \in Int
  BY <1>1
<1> QED BY <1>1, <1>2, <1>3, <1>4 DEF Multiples, Same

\* A multiple times an integer.
LEMMA MultiplesTimes ==
  ASSUME NEW v \in Multiples, NEW w \in Int
  PROVE  v * w \in Multiples /\ w * v \in Multiples
<1>1. v \in Int /\ Same(Order, v, 0) /\ 0 % Order = 0 /\ 0 \in Int
  <2>1. 0 % Order = 0
    BY OrderFacts
  <2> QED BY <2>1 DEF Multiples, Same
<1>2. Same(Order, v * w, 0 * w)
  BY <1>1, OrderFacts, SameTimes
<1>3. 0 * w = 0 /\ v * w \in Int /\ w * v = v * w
  BY <1>1
<1> QED BY <1>1, <1>2, <1>3 DEF Multiples, Same

\* Reducing a number changes it by a multiple.
LEMMA ReducedBy ==
  ASSUME NEW v \in Int
  PROVE  v % Order \in Scalar /\ v % Order \in Int /\ (v % Order) - v \in Multiples
                              /\ v - (v % Order) \in Multiples
<1>1. v % Order \in Int /\ Same(Order, v % Order, v)
  BY OrderFacts, SameRefl
<1>2. Same(Order, v, v % Order)
  BY <1>1 DEF Same
<1> QED BY <1>1, <1>2, OrderFacts, MultipleSame

\* The order is prime.
LEMMA MultiplePrime ==
  ASSUME NEW v \in Int, NEW w \in Int, v * w \in Multiples
  PROVE  v \in Multiples \/ w \in Multiples
<1> SUFFICES ASSUME v \notin Multiples, w \notin Multiples PROVE FALSE
  OBVIOUS
<1> DEFINE r == w % Order
<1>1. r \in Scalar /\ r \in Int /\ r # 0 /\ w - r \in Multiples
  BY ReducedBy DEF Multiples
<1> HIDE DEF r
<1>2. r \in 1 .. Order - 1
  BY <1>1, OrderFacts DEF Scalar
<1>3. ~ Same(Order, v, 0)
  <2>1. 0 % Order = 0
    BY OrderFacts
  <2> QED BY <2>1 DEF Multiples, Same
<1>4. ~ Same(Order, v * r, 0)
  BY <1>2, <1>3, OrderFacts, PrimeNonzero
<1>5. v * (w - r) \in Multiples
  BY <1>1, MultiplesTimes
<1> DEFINE vw == v * w
           vwr == v * (w - r)
           vr == v * r
<1>6. vw \in Multiples /\ vwr \in Multiples /\ vr \in Int /\ vr = vw - vwr
  BY <1>1, <1>5
<1> HIDE DEF vw, vwr, vr
<1>7. vr \in Multiples
  BY <1>6, MultiplesClosed
<1>8. 0 % Order = 0
  BY OrderFacts
<1>9. Same(Order, vr, 0)
  BY <1>7, <1>8 DEF Multiples, Same
<1> QED BY <1>4, <1>9 DEF vr

\* Scalars that differ by a multiple are equal.
LEMMA ScalarsSame ==
  ASSUME NEW v \in Scalar, NEW w \in Scalar, v - w \in Multiples
  PROVE  v = w
<1>1. v \in Int /\ w \in Int /\ v % Order = v /\ w % Order = w
  BY OrderFacts
<1>2. Same(Order, v, w)
  BY <1>1, MultipleSame
<1> QED BY <1>1, <1>2 DEF Same

\* The only scalar that is a multiple is zero.
LEMMA ScalarMultiple ==
  ASSUME NEW v \in Scalar
  PROVE  v \in Multiples <=> v = 0
BY OrderFacts DEF Multiples

\* ScalarInverse inverts.
LEMMA InverseFacts ==
  ASSUME NEW v \in Scalar
  PROVE  /\ ScalarInverse(v) \in Scalar /\ ScalarInverse(v) \in Int
         /\ v # 0 => v * ScalarInverse(v) - 1 \in Multiples
         /\ v = 0 => ScalarInverse(v) = 0
<1>1. CASE v = 0
  BY <1>1, OrderFacts DEF ScalarInverse
<1>2. CASE v # 0
  <2>1. v \in 1 .. Order - 1 /\ v \in Int
    BY <1>2, OrderFacts DEF Scalar
  <2>2. PICK u \in Int : Same(Order, u * v, 1)
    BY <2>1, OrderFacts, PrimeInverse
  <2> DEFINE w == u % Order
  <2>3. w \in Scalar /\ w \in Int
    BY ReducedBy
  <2>4. (w * v) % Order = (u * v) % Order
    BY <2>1, OrderFacts, ModTimes
  <2>5. 1 % Order = 1
    BY OrderFacts
  <2> HIDE DEF w
  <2>6. v * w = w * v
    BY <2>1, <2>3
  <2>7. \E z \in Scalar : (v * z) % Order = 1
    BY <2>2, <2>3, <2>4, <2>5, <2>6 DEF Same
  <2>8. ScalarInverse(v) \in Scalar /\ (v * ScalarInverse(v)) % Order = 1
    BY <1>2, <2>7 DEF ScalarInverse
  <2>9. ScalarInverse(v) \in Int
    BY <2>8, ScalarsAreInts
  <2> DEFINE p == v * ScalarInverse(v)
  <2>10. p \in Int /\ p % Order = 1
    BY <2>1, <2>8, <2>9
  <2> HIDE DEF p
  <2>11. Same(Order, p, 1)
    BY <2>10, <2>5 DEF Same
  <2>12. p - 1 \in Multiples
    BY <2>10, <2>11, MultipleSame
  <2> QED BY <1>2, <2>8, <2>9, <2>12 DEF p
<1> QED BY <1>1, <1>2

-----------------------------------------------------------------------------
(* Loops over vectors: the power, sum and product of scalars, and Horner. *)

\* The first m elements are integers.
Ints(f, m) == \A j \in 0 .. m - 1 : f[j] \in Int

\* The recursive functions, turn by turn.
LEMMA PowFacts ==
  ASSUME NEW c \in Int
  PROVE  /\ Pow(c, 0) = 1
         /\ \A m \in Nat : /\ Pow(c, m) \in Scalar /\ Pow(c, m) \in Int
                           /\ Pow(c, m + 1) = (Pow(c, m) * c) % Order
<1> DEFINE G == [j \in Nat |-> [v \in Scalar |-> (v * c) % Order]]
           r == Iterate(1, G)
<1>1. \A j \in Nat : \A v \in Scalar : G[j][v] = (v * c) % Order /\ G[j][v] \in Scalar
  <2> SUFFICES ASSUME NEW j \in Nat, NEW v \in Scalar
               PROVE  G[j][v] = (v * c) % Order /\ G[j][v] \in Scalar
    OBVIOUS
  <2>1. v * c \in Int
    BY ScalarsAreInts
  <2>2. (v * c) % Order \in Scalar
    BY <2>1, OrderFacts
  <2> QED BY <2>2
<1>2. \A m \in Nat : Pow(c, m) = r[m]
  BY DEF Pow
<1> HIDE DEF G
<1>3. 1 \in Scalar
  BY OrderFacts
<1>4. \A m \in Nat : Stays(Scalar, G, m)
  BY <1>1 DEF Stays
<1>5. \A m \in Nat : Follows(r, 1, G) /\ Within(Scalar, r, m)
  BY <1>3, <1>4, IterateType
<1> HIDE DEF r
<1>6. r[0] = 1 /\ \A m \in Nat : r[m] \in Scalar /\ r[m + 1] = G[m + 1][r[m]]
  BY <1>5 DEF Follows, Within
<1>7. \A m \in Nat : r[m + 1] = (r[m] * c) % Order
  BY <1>1, <1>6
<1> QED BY <1>2, <1>6, <1>7, ScalarsAreInts

LEMMA SumFacts ==
  ASSUME NEW m \in Nat, NEW f, Ints(f, m)
  PROVE  /\ ScalarSum(f, 0) = 0
         /\ \A k \in 0 .. m : ScalarSum(f, k) \in Scalar /\ ScalarSum(f, k) \in Int
         /\ \A k \in 0 .. m - 1 : ScalarSum(f, k + 1) = (ScalarSum(f, k) + f[k]) % Order
<1> DEFINE G == [j \in Nat |-> [v \in Scalar |-> (v + f[j - 1]) % Order]]
           r == Iterate(0, G)
<1>1. \A j \in 1 .. m : \A v \in Scalar : G[j][v] = (v + f[j - 1]) % Order /\ G[j][v] \in Scalar
  <2> SUFFICES ASSUME NEW j \in 1 .. m, NEW v \in Scalar
               PROVE  G[j][v] = (v + f[j - 1]) % Order /\ G[j][v] \in Scalar
    OBVIOUS
  <2>1. f[j - 1] \in Int
    BY DEF Ints
  <2>2. (v + f[j - 1]) % Order \in Scalar
    BY <2>1, OrderFacts
  <2> QED BY <2>2
<1>2. \A k \in Nat : ScalarSum(f, k) = r[k]
  BY DEF ScalarSum
<1> HIDE DEF G
<1>3. 0 \in Scalar
  BY OrderFacts
<1>4. Stays(Scalar, G, m)
  BY <1>1 DEF Stays
<1>5. Follows(r, 0, G) /\ Within(Scalar, r, m)
  BY <1>3, <1>4, IterateType
<1> HIDE DEF r
<1>6. /\ r[0] = 0 /\ \A k \in 0 .. m : r[k] \in Scalar
      /\ \A k \in 0 .. m - 1 : r[k + 1] = G[k + 1][r[k]]
  <2>1. \A k \in 0 .. m - 1 : k \in Nat
    OBVIOUS
  <2> QED BY <1>5, <2>1 DEF Follows, Within
<1>7. ASSUME NEW k \in 0 .. m - 1 PROVE r[k + 1] = (r[k] + f[k]) % Order
  <2>1. k + 1 \in 1 .. m /\ (k + 1) - 1 = k /\ r[k] \in Scalar
    BY <1>6
  <2> QED BY <1>1, <1>6, <2>1
<1> QED BY <1>2, <1>6, <1>7, ScalarsAreInts

LEMMA ProductFacts ==
  ASSUME NEW m \in Nat, NEW f, Ints(f, m)
  PROVE  /\ ScalarProduct(f, 0) = 1
         /\ \A k \in 0 .. m : ScalarProduct(f, k) \in Scalar /\ ScalarProduct(f, k) \in Int
         /\ \A k \in 0 .. m - 1 : ScalarProduct(f, k + 1) = (ScalarProduct(f, k) * f[k]) % Order
<1> DEFINE G == [j \in Nat |-> [v \in Scalar |-> (v * f[j - 1]) % Order]]
           r == Iterate(1, G)
<1>1. \A j \in 1 .. m : \A v \in Scalar : G[j][v] = (v * f[j - 1]) % Order /\ G[j][v] \in Scalar
  <2> SUFFICES ASSUME NEW j \in 1 .. m, NEW v \in Scalar
               PROVE  G[j][v] = (v * f[j - 1]) % Order /\ G[j][v] \in Scalar
    OBVIOUS
  <2>1. f[j - 1] \in Int /\ v \in Int
    BY ScalarsAreInts DEF Ints
  <2>2. v * f[j - 1] \in Int
    BY <2>1
  <2>3. (v * f[j - 1]) % Order \in Scalar
    BY <2>2, OrderFacts
  <2> QED BY <2>3
<1>2. \A k \in Nat : ScalarProduct(f, k) = r[k]
  BY DEF ScalarProduct
<1> HIDE DEF G
<1>3. 1 \in Scalar
  BY OrderFacts
<1>4. Stays(Scalar, G, m)
  BY <1>1 DEF Stays
<1>5. Follows(r, 1, G) /\ Within(Scalar, r, m)
  BY <1>3, <1>4, IterateType
<1> HIDE DEF r
<1>6. /\ r[0] = 1 /\ \A k \in 0 .. m : r[k] \in Scalar
      /\ \A k \in 0 .. m - 1 : r[k + 1] = G[k + 1][r[k]]
  <2>1. \A k \in 0 .. m - 1 : k \in Nat
    OBVIOUS
  <2> QED BY <1>5, <2>1 DEF Follows, Within
<1>7. ASSUME NEW k \in 0 .. m - 1 PROVE r[k + 1] = (r[k] * f[k]) % Order
  <2>1. k + 1 \in 1 .. m /\ (k + 1) - 1 = k /\ r[k] \in Scalar
    BY <1>6
  <2> QED BY <1>1, <1>6, <2>1
<1> QED BY <1>2, <1>6, <1>7, ScalarsAreInts

LEMMA HornerFacts ==
  ASSUME NEW m \in Nat, NEW c, Ints(c, m), NEW v \in Int
  PROVE  /\ HornerLoop(c, m, v)[0] = 0
         /\ \A k \in 0 .. m : HornerLoop(c, m, v)[k] \in Scalar /\ HornerLoop(c, m, v)[k] \in Int
         /\ \A k \in 0 .. m - 1 :
              HornerLoop(c, m, v)[k + 1] = (c[m - (k + 1)] + v * HornerLoop(c, m, v)[k]) % Order
<1> DEFINE G == [k \in Nat |-> [u \in Scalar |-> (c[m - k] + v * u) % Order]]
           r == Iterate(0, G)
<1>1. \A k \in 1 .. m : \A u \in Scalar : G[k][u] = (c[m - k] + v * u) % Order /\ G[k][u] \in Scalar
  <2> SUFFICES ASSUME NEW k \in 1 .. m, NEW u \in Scalar
               PROVE  G[k][u] = (c[m - k] + v * u) % Order /\ G[k][u] \in Scalar
    OBVIOUS
  <2>1. m - k \in 0 .. m - 1
    OBVIOUS
  <2>2. c[m - k] \in Int /\ u \in Int
    BY <2>1, ScalarsAreInts DEF Ints
  <2>3. v * u \in Int
    BY <2>2
  <2>4. (c[m - k] + v * u) % Order \in Scalar
    BY <2>2, <2>3, OrderFacts
  <2> QED BY <2>4
<1>2. HornerLoop(c, m, v) = r
  BY DEF HornerLoop
<1> HIDE DEF G
<1>3. 0 \in Scalar
  BY OrderFacts
<1>4. Stays(Scalar, G, m)
  BY <1>1 DEF Stays
<1>5. Follows(r, 0, G) /\ Within(Scalar, r, m)
  BY <1>3, <1>4, IterateType
<1> HIDE DEF r
<1>6. /\ r[0] = 0 /\ \A k \in 0 .. m : r[k] \in Scalar
      /\ \A k \in 0 .. m - 1 : r[k + 1] = G[k + 1][r[k]]
  <2>1. \A k \in 0 .. m - 1 : k \in Nat
    OBVIOUS
  <2> QED BY <1>5, <2>1 DEF Follows, Within
<1>7. ASSUME NEW k \in 0 .. m - 1 PROVE r[k + 1] = (c[m - (k + 1)] + v * r[k]) % Order
  <2>1. k + 1 \in 1 .. m /\ r[k] \in Scalar
    BY <1>6
  <2> QED BY <1>1, <1>6, <2>1
<1> QED BY <1>2, <1>6, <1>7, ScalarsAreInts

\* h1 is a turn of the loop of Horner: the value so far times v plus the next
\* coefficient.
Turned(h1, e0, v, h0) == h1 - (e0 + v * h0) \in Multiples

\* A turn of each loop, up to a multiple.
LEMMA Turns ==
  ASSUME NEW m \in Nat, NEW c, Ints(c, m), NEW v \in Int, NEW k \in 0 .. m - 1
  PROVE  /\ c[m - (k + 1)] \in Int
         /\ HornerLoop(c, m, v)[k] \in Int /\ HornerLoop(c, m, v)[k + 1] \in Int
         /\ Turned(HornerLoop(c, m, v)[k + 1], c[m - (k + 1)], v, HornerLoop(c, m, v)[k])
<1> DEFINE h == HornerLoop(c, m, v)
           e == c[m - (k + 1)]
           t == e + v * h[k]
<1>1. m - (k + 1) \in 0 .. m - 1 /\ k \in 0 .. m /\ k + 1 \in 0 .. m
  OBVIOUS
<1>2. e \in Int /\ h[k] \in Int /\ h[k + 1] \in Int
  BY <1>1, HornerFacts DEF Ints
<1>3. h[k + 1] = t % Order
  BY HornerFacts
<1>4. t \in Int
  <2> HIDE DEF h, e
  <2>1. v * h[k] \in Int
    BY <1>2
  <2> QED BY <1>2, <2>1
<1>5. (t % Order) - t \in Multiples
  <2> HIDE DEF t
  <2> QED BY <1>4, ReducedBy
<1> QED BY <1>2, <1>3, <1>5 DEF Turned

\* A turn of ScalarSum and of ScalarProduct.
LEMMA SumTurn ==
  ASSUME NEW m \in Nat, NEW f, Ints(f, m), NEW k \in 0 .. m - 1
  PROVE  /\ f[k] \in Int /\ ScalarSum(f, k) \in Int /\ ScalarSum(f, k + 1) \in Int
         /\ ScalarSum(f, k + 1) - (ScalarSum(f, k) + f[k]) \in Multiples
<1> DEFINE g == ScalarSum(f, k)
           t == g + f[k]
<1>1. k \in 0 .. m /\ k + 1 \in 0 .. m
  OBVIOUS
<1>2. f[k] \in Int /\ g \in Int /\ ScalarSum(f, k + 1) \in Int /\ ScalarSum(f, k + 1) = t % Order
  BY <1>1, SumFacts DEF Ints
<1>3. t \in Int
  BY <1>2
<1>4. (t % Order) - t \in Multiples
  <2> HIDE DEF t
  <2> QED BY <1>3, ReducedBy
<1> QED BY <1>2, <1>4

LEMMA ProductTurn ==
  ASSUME NEW m \in Nat, NEW f, Ints(f, m), NEW k \in 0 .. m - 1
  PROVE  /\ f[k] \in Int /\ ScalarProduct(f, k) \in Int /\ ScalarProduct(f, k + 1) \in Int
         /\ ScalarProduct(f, k + 1) - ScalarProduct(f, k) * f[k] \in Multiples
<1> DEFINE g == ScalarProduct(f, k)
           t == g * f[k]
<1>1. k \in 0 .. m /\ k + 1 \in 0 .. m
  OBVIOUS
<1>2. f[k] \in Int /\ g \in Int /\ ScalarProduct(f, k + 1) \in Int /\ ScalarProduct(f, k + 1) = t % Order
  BY <1>1, ProductFacts DEF Ints
<1>3. t \in Int
  <2> HIDE DEF g
  <2> QED BY <1>2
<1>4. (t % Order) - t \in Multiples
  <2> HIDE DEF t
  <2> QED BY <1>3, ReducedBy
<1> QED BY <1>2, <1>4

-----------------------------------------------------------------------------
(* What two runs of the loop of Horner have to do with each other. *)

\* Induction up to a bound.
LEMMA UpTo ==
  ASSUME NEW m \in Nat, NEW S, 0 \in S, \A k \in 0 .. m - 1 : k \in S => k + 1 \in S
  PROVE  \A k \in 0 .. m : k \in S
<1> DEFINE T == {k \in Nat : k <= m => k \in S}
<1>1. 0 \in T
  OBVIOUS
<1>2. \A k \in T : k + 1 \in T
  OBVIOUS
<1>3. T \in SUBSET Nat
  OBVIOUS
<1>4. T = Nat
  <2> HIDE DEF T
  <2> QED BY <1>1, <1>2, <1>3, NatSetInduction
<1> QED BY <1>4

\* Combinations of multiples.
LEMMA MultiplesCombine ==
  ASSUME NEW p \in Multiples, NEW q \in Multiples, NEW v \in Int, NEW w \in Int
  PROVE  p * v + q * w \in Multiples /\ p + q * w \in Multiples /\ p - q * w \in Multiples
<1> DEFINE pv == p * v
           qw == q * w
<1>1. pv \in Multiples /\ qw \in Multiples
  BY MultiplesTimes
<1> HIDE DEF pv, qw
<1>2. pv + qw \in Multiples /\ p + qw \in Multiples /\ p - qw \in Multiples
  BY <1>1, MultiplesClosed
<1> QED BY <1>2 DEF pv, qw

(* Polynomials that share their upper coefficients share the first turns. *)

\* The last p coefficients of d, of length l, are those of c, of length m.
SharesTop(d, l, c, m, p) == p \in 0 .. m /\ p \in 0 .. l /\ \A k \in 1 .. p : d[l - k] = c[m - k]

\* Then the loops agree for p turns.
LEMMA HornerTop ==
  ASSUME NEW m \in Nat, NEW c, Ints(c, m), NEW l \in Nat, NEW d, Ints(d, l), NEW v \in Int,
         NEW p \in Nat, SharesTop(d, l, c, m, p)
  PROVE  \A k \in 0 .. p : HornerLoop(d, l, v)[k] = HornerLoop(c, m, v)[k]
<1> DEFINE f == HornerLoop(c, m, v)
           g == HornerLoop(d, l, v)
           S == {k \in 0 .. p : g[k] = f[k]}
<1>1. f[0] = 0 /\ \A k \in 0 .. m - 1 : f[k + 1] = (c[m - (k + 1)] + v * f[k]) % Order
  BY HornerFacts
<1>2. g[0] = 0 /\ \A k \in 0 .. l - 1 : g[k + 1] = (d[l - (k + 1)] + v * g[k]) % Order
  BY HornerFacts
<1> HIDE DEF f, g
<1>3. 0 \in S
  BY <1>1, <1>2
<1>4. ASSUME NEW k \in 0 .. p - 1, k \in S PROVE k + 1 \in S
  <2>1. k \in 0 .. m - 1 /\ k \in 0 .. l - 1 /\ k + 1 \in 1 .. p /\ k + 1 \in 0 .. p
    BY DEF SharesTop
  <2>2. d[l - (k + 1)] = c[m - (k + 1)] /\ g[k] = f[k]
    BY <1>4, <2>1 DEF SharesTop
  <2>3. g[k + 1] = f[k + 1]
    BY <1>1, <1>2, <2>1, <2>2
  <2> QED BY <2>1, <2>3
<1>5. \A k \in 0 .. p : k \in S
  <2> HIDE DEF S
  <2> QED BY <1>3, <1>4, UpTo
<1> QED BY <1>5 DEF f, g

(* Horner is linear in the coefficients. *)
Mixed(h, u, f, w, g)  == h - (u * f + w * g) \in Multiples

\* e is u times c plus w times d, up to multiples.
Combination(c, u, d, w, e, m) == \A j \in 0 .. m - 1 : Mixed(e[j], u, c[j], w, d[j])

LEMMA MixedTurn ==
  ASSUME NEW u \in Int, NEW w \in Int, NEW v \in Int,
         NEW c0 \in Int, NEW d0 \in Int, NEW e0 \in Int,
         NEW f0 \in Int, NEW g0 \in Int, NEW h0 \in Int,
         NEW f1 \in Int, NEW g1 \in Int, NEW h1 \in Int,
         Mixed(e0, u, c0, w, d0), Mixed(h0, u, f0, w, g0),
         Turned(f1, c0, v, f0), Turned(g1, d0, v, g0), Turned(h1, e0, v, h0)
  PROVE  Mixed(h1, u, f1, w, g1)
<1> DEFINE p1 == e0 - (u * c0 + w * d0)
           p2 == h0 - (u * f0 + w * g0)
           p3 == f1 - (c0 + v * f0)
           p4 == g1 - (d0 + v * g0)
           p5 == h1 - (e0 + v * h0)
<1>1. h1 - (u * f1 + w * g1) = ((p5 + p1) + p2 * v) - (p3 * u + p4 * w)
  OBVIOUS
<1>2. p1 \in Multiples /\ p2 \in Multiples /\ p3 \in Multiples /\ p4 \in Multiples /\ p5 \in Multiples
  BY DEF Mixed, Turned
<1> HIDE DEF p1, p2, p3, p4, p5
<1>3. p5 + p1 \in Multiples /\ p3 * u + p4 * w \in Multiples
  BY <1>2, MultiplesClosed, MultiplesCombine
<1>4. (p5 + p1) + p2 * v \in Multiples
  BY <1>2, <1>3, MultiplesCombine
<1> QED BY <1>1, <1>3, <1>4, MultiplesClosed DEF Mixed

\* Then so are the values.
LEMMA HornerCombined ==
  ASSUME NEW m \in Nat, NEW c, Ints(c, m), NEW d, Ints(d, m), NEW e, Ints(e, m),
         NEW u \in Int, NEW w \in Int, NEW v \in Int, Combination(c, u, d, w, e, m)
  PROVE  Mixed(Horner(e, m, v), u, Horner(c, m, v), w, Horner(d, m, v))
<1> DEFINE f == HornerLoop(c, m, v)
           g == HornerLoop(d, m, v)
           h == HornerLoop(e, m, v)
           S == {k \in 0 .. m : Mixed(h[k], u, f[k], w, g[k])}
<1>1. ASSUME NEW k \in 0 .. m - 1
      PROVE  /\ c[m - (k + 1)] \in Int /\ f[k] \in Int /\ f[k + 1] \in Int
             /\ d[m - (k + 1)] \in Int /\ g[k] \in Int /\ g[k + 1] \in Int
             /\ e[m - (k + 1)] \in Int /\ h[k] \in Int /\ h[k + 1] \in Int
             /\ Turned(f[k + 1], c[m - (k + 1)], v, f[k])
             /\ Turned(g[k + 1], d[m - (k + 1)], v, g[k])
             /\ Turned(h[k + 1], e[m - (k + 1)], v, h[k])
  BY Turns
<1>2. f[0] = 0 /\ g[0] = 0 /\ h[0] = 0
  BY HornerFacts
<1> HIDE DEF f, g, h
<1>3. 0 \in S
  <2>1. 0 - (u * 0 + w * 0) = 0 /\ 0 \in Multiples
    BY OrderFacts DEF Multiples
  <2> QED BY <1>2, <2>1 DEF Mixed
<1>4. ASSUME NEW k \in 0 .. m - 1, k \in S PROVE k + 1 \in S
  <2> DEFINE j == m - (k + 1)
  <2>1. j \in 0 .. m - 1 /\ k + 1 \in 0 .. m
    OBVIOUS
  <2>2. Mixed(e[j], u, c[j], w, d[j]) /\ Mixed(h[k], u, f[k], w, g[k])
    BY <1>4, <2>1 DEF Combination
  <2>3. /\ c[j] \in Int /\ f[k] \in Int /\ f[k + 1] \in Int
        /\ d[j] \in Int /\ g[k] \in Int /\ g[k + 1] \in Int
        /\ e[j] \in Int /\ h[k] \in Int /\ h[k + 1] \in Int
        /\ Turned(f[k + 1], c[j], v, f[k])
        /\ Turned(g[k + 1], d[j], v, g[k])
        /\ Turned(h[k + 1], e[j], v, h[k])
    BY <1>1
  <2> HIDE DEF j
  <2>4. Mixed(h[k + 1], u, f[k + 1], w, g[k + 1])
    BY <2>2, <2>3, MixedTurn
  <2> QED BY <2>1, <2>4
<1>5. \A k \in 0 .. m : k \in S
  <2> HIDE DEF S
  <2> QED BY <1>3, <1>4, UpTo
<1>6. Mixed(h[m], u, f[m], w, g[m])
  BY <1>5
<1> QED BY <1>6 DEF Horner, f, g, h

(* Division by v - r. *)

\* The coefficients of the quotient by (v - r): the values of the loop at r.
Deflated(c, m, r) == [j \in 0 .. m - 1 |-> HornerLoop(c, m + 1, r)[m - j]]

\* (v - r) u = h - b up to multiples: u is the quotient of h - b.
Divided(u, v, r, h, b) == (v - r) * u - (h - b) \in Multiples

LEMMA DeflatedTurn ==
  ASSUME NEW v \in Int, NEW r \in Int, NEW c0 \in Int,
         NEW u0 \in Int, NEW u1 \in Int, NEW h1 \in Int, NEW h2 \in Int, NEW b1 \in Int, NEW b2 \in Int,
         Divided(u0, v, r, h1, b1), Turned(u1, b1, v, u0), Turned(h2, c0, v, h1), Turned(b2, c0, r, b1)
  PROVE  Divided(u1, v, r, h2, b2)
<1> DEFINE p1 == (v - r) * u0 - (h1 - b1)
           p2 == u1 - (b1 + v * u0)
           p3 == h2 - (c0 + v * h1)
           p4 == b2 - (c0 + r * b1)
           vr == v - r
<1>1. (v - r) * u1 - (h2 - b2) = (p2 * vr + p1 * v) - (p3 - p4)
  OBVIOUS
<1>2. p1 \in Multiples /\ p2 \in Multiples /\ p3 \in Multiples /\ p4 \in Multiples /\ vr \in Int
  BY DEF Divided, Turned
<1> HIDE DEF p1, p2, p3, p4, vr
<1>3. p2 * vr + p1 * v \in Multiples /\ p3 - p4 \in Multiples
  BY <1>2, MultiplesClosed, MultiplesCombine
<1> QED BY <1>1, <1>3, MultiplesClosed DEF Divided

LEMMA DeflatedType ==
  ASSUME NEW m \in Nat, NEW c, Ints(c, m + 1), NEW r \in Int
  PROVE  /\ Deflated(c, m, r) \in [0 .. m - 1 -> Scalar] /\ Ints(Deflated(c, m, r), m)
         /\ \A k \in 0 .. m - 1 : Deflated(c, m, r)[m - (k + 1)] = HornerLoop(c, m + 1, r)[k + 1]
<1> DEFINE b == HornerLoop(c, m + 1, r)
<1>1. \A k \in 0 .. m + 1 : b[k] \in Scalar
  BY HornerFacts
<1> HIDE DEF b
<1>2. \A j \in 0 .. m - 1 : m - j \in 0 .. m + 1
  OBVIOUS
<1>3. Deflated(c, m, r) = [j \in 0 .. m - 1 |-> b[m - j]]
  BY DEF Deflated, b
<1>4. Deflated(c, m, r) \in [0 .. m - 1 -> Scalar]
  BY <1>1, <1>2, <1>3
<1>5. \A k \in 0 .. m - 1 : m - (k + 1) \in 0 .. m - 1 /\ m - (m - (k + 1)) = k + 1
  OBVIOUS
<1>6. \A k \in 0 .. m - 1 : Deflated(c, m, r)[m - (k + 1)] = b[k + 1]
  BY <1>3, <1>5
<1>7. Ints(Deflated(c, m, r), m)
  BY <1>4, ScalarsAreInts DEF Ints
<1> QED BY <1>4, <1>6, <1>7 DEF b

\* The loop over the quotient's coefficients, turn by turn.
LEMMA DeflatedTurns ==
  ASSUME NEW m \in Nat, NEW c, Ints(c, m + 1), NEW r \in Int, NEW v \in Int
  PROVE  \A k \in 0 .. m :
           Divided(HornerLoop(Deflated(c, m, r), m, v)[k], v, r,
                   HornerLoop(c, m + 1, v)[k + 1], HornerLoop(c, m + 1, r)[k + 1])
<1> DEFINE f == Deflated(c, m, r)
           u == HornerLoop(f, m, v)
           h == HornerLoop(c, m + 1, v)
           b == HornerLoop(c, m + 1, r)
           S == {k \in 0 .. m : Divided(u[k], v, r, h[k + 1], b[k + 1])}
<1>1. f \in [0 .. m - 1 -> Scalar] /\ Ints(f, m) /\ \A k \in 0 .. m - 1 : f[m - (k + 1)] = b[k + 1]
  BY DeflatedType
<1> HIDE DEF f
<1>2. ASSUME NEW k \in 0 .. m - 1
      PROVE  /\ u[k] \in Int /\ u[k + 1] \in Int
             /\ Turned(u[k + 1], f[m - (k + 1)], v, u[k])
  BY <1>1, Turns
<1>3. ASSUME NEW k \in 0 .. (m + 1) - 1
      PROVE  /\ c[(m + 1) - (k + 1)] \in Int
             /\ h[k] \in Int /\ h[k + 1] \in Int /\ b[k] \in Int /\ b[k + 1] \in Int
             /\ Turned(h[k + 1], c[(m + 1) - (k + 1)], v, h[k])
             /\ Turned(b[k + 1], c[(m + 1) - (k + 1)], r, b[k])
  <2>1. m + 1 \in Nat
    OBVIOUS
  <2> QED BY <1>3, <2>1, Turns
<1>4. u[0] = 0 /\ h[0] = 0 /\ b[0] = 0
  <2>1. u[0] = 0
    BY <1>1, HornerFacts
  <2>2. m + 1 \in Nat
    OBVIOUS
  <2>3. h[0] = 0 /\ b[0] = 0
    BY <2>2, HornerFacts
  <2> QED BY <2>1, <2>3
<1> HIDE DEF u, h, b
<1>5. 0 \in S
  <2> DEFINE c0 == c[(m + 1) - (0 + 1)]
             p == h[1] - (c0 + v * 0)
             q == b[1] - (c0 + r * 0)
             h1 == h[1]
             b1 == b[1]
  <2>1. 0 \in 0 .. (m + 1) - 1 /\ 0 + 1 = 1
    OBVIOUS
  <2>2. c0 \in Int /\ h1 \in Int /\ b1 \in Int /\ p \in Multiples /\ q \in Multiples
    BY <1>3, <1>4, <2>1 DEF Turned
  <2>3. q - p \in Multiples
    <3> HIDE DEF p, q
    <3> QED BY <2>2, MultiplesClosed
  <2>4. q - p = (v - r) * 0 - (h1 - b1)
    <3> HIDE DEF c0, h1, b1
    <3> QED BY <2>2 DEF p, q, h1, b1
  <2> QED BY <1>4, <2>3, <2>4, <2>1 DEF Divided
<1>6. ASSUME NEW k \in 0 .. m - 1, k \in S PROVE k + 1 \in S
  <2> DEFINE l == k + 1
             c0 == c[(m + 1) - (l + 1)]
  <2>1. l \in 0 .. (m + 1) - 1 /\ l \in 0 .. m
    OBVIOUS
  <2>2. Divided(u[k], v, r, h[l], b[l])
    BY <1>6
  <2>3. u[k] \in Int /\ u[l] \in Int /\ Turned(u[l], b[l], v, u[k])
    BY <1>1, <1>2
  <2> HIDE DEF l
  <2>4. /\ c0 \in Int /\ h[l] \in Int /\ h[l + 1] \in Int /\ b[l] \in Int /\ b[l + 1] \in Int
        /\ Turned(h[l + 1], c0, v, h[l])
        /\ Turned(b[l + 1], c0, r, b[l])
    BY <1>3, <2>1
  <2> HIDE DEF c0
  <2>5. Divided(u[l], v, r, h[l + 1], b[l + 1])
    BY <2>2, <2>3, <2>4, DeflatedTurn
  <2>6. l \in S
    BY <2>1, <2>5
  <2> QED BY <2>6 DEF l
<1>7. \A k \in 0 .. m : k \in S
  <2> HIDE DEF S
  <2> QED BY <1>5, <1>6, UpTo
<1> QED BY <1>7 DEF u, h, b, f

\* The factor theorem.
LEMMA FactorTheorem ==
  ASSUME NEW m \in Nat, NEW c, Ints(c, m + 1), NEW r \in Int, NEW v \in Int
  PROVE  Divided(Horner(Deflated(c, m, r), m, v), v, r, Horner(c, m + 1, v), Horner(c, m + 1, r))
<1>1. m \in 0 .. m
  OBVIOUS
<1> QED BY <1>1, DeflatedTurns DEF Horner

-----------------------------------------------------------------------------
(* The master polynomial of interpolate: prod_i (v - x_i), turn by turn. *)

\* s, after p turns for m points: monic, and zero below its last p + 1 places.
IsMaster(t, m, p) ==
  t \in [0 .. m -> Scalar] /\ t[m] = 1 /\ \A j \in 0 .. m : j < m - p => t[j] = 0

\* The value and the derivative at v of the polynomial in those places.
ValueAt(t, m, p, v) == HornerLoop(t, m + 1, v)[p + 1]
SlopeAt(t, m, p, v) == HornerLoop(Deflated(t, m, v), m, v)[p]

\* g is h shifted by a turn for the root r.
Shifted(g, h, r, l) == g - (h - r * l) \in Multiples

LEMMA ShiftedTurn ==
  ASSUME NEW v \in Int, NEW r \in Int, NEW d1 \in Int, NEW c1 \in Int, NEW c0 \in Int,
         NEW g0 \in Int, NEW h0 \in Int, NEW l0 \in Int, NEW g1 \in Int, NEW h1 \in Int,
         Shifted(d1, c1, r, c0), Shifted(g0, h0, r, l0),
         Turned(g1, d1, v, g0), Turned(h1, c1, v, h0), Turned(h0, c0, v, l0)
  PROVE  Shifted(g1, h1, r, h0)
<1> DEFINE p1 == d1 - (c1 - r * c0)
           p2 == g0 - (h0 - r * l0)
           p3 == g1 - (d1 + v * g0)
           p4 == h1 - (c1 + v * h0)
           p5 == h0 - (c0 + v * l0)
<1>1. g1 - (h1 - r * h0) = ((p3 + p1) + p2 * v) - (p4 - p5 * r)
  OBVIOUS
<1>2. p1 \in Multiples /\ p2 \in Multiples /\ p3 \in Multiples /\ p4 \in Multiples /\ p5 \in Multiples
  BY DEF Shifted, Turned
<1> HIDE DEF p1, p2, p3, p4, p5
<1>3. p3 + p1 \in Multiples /\ p4 - p5 * r \in Multiples
  BY <1>2, MultiplesClosed, MultiplesCombine
<1>4. (p3 + p1) + p2 * v \in Multiples
  BY <1>2, <1>3, MultiplesCombine
<1> QED BY <1>1, <1>3, <1>4, MultiplesClosed DEF Shifted

LEMMA MasterInts ==
  ASSUME NEW m \in Nat, NEW t \in [0 .. m -> Scalar]
  PROVE  Ints(t, m + 1) /\ \A j \in 0 .. m : t[j] \in Int
BY ScalarsAreInts DEF Ints

\* MasterTurn as a shift of the coefficients.
LEMMA MasterTurnShifts ==
  ASSUME NEW m \in Nat, NEW p \in 1 .. m - 1, NEW t, IsMaster(t, m, p), NEW r \in Scalar
  PROVE  /\ IsMaster(MasterTurn(t, m, p, r), m, p + 1)
         /\ \A k \in 1 .. p + 1 : Shifted(MasterTurn(t, m, p, r)[m - k], t[m - k], r, t[m - k + 1])
<1> DEFINE f == MasterTurn(t, m, p, r)
<1>1. t \in [0 .. m -> Scalar] /\ t[m] = 1 /\ \A j \in 0 .. m : j < m - p => t[j] = 0
  BY DEF IsMaster
<1>2. \A j \in 0 .. m : t[j] \in Int
  BY <1>1, MasterInts
<1>3. r \in Int
  BY ScalarsAreInts
<1>4. ASSUME NEW j \in m - 1 - p .. m - 1
      PROVE  j \in 0 .. m /\ j + 1 \in 0 .. m /\ t[j] - r * t[j + 1] \in Int
             /\ f[j] = (t[j] - r * t[j + 1]) % Order /\ f[j] \in Scalar /\ f[j] \in Int
             /\ Shifted(f[j], t[j], r, t[j + 1])
  <2>1. j \in 0 .. m /\ j + 1 \in 0 .. m
    OBVIOUS
  <2>2. t[j] \in Int /\ t[j + 1] \in Int
    BY <1>2, <2>1
  <2>3. r * t[j + 1] \in Int
    BY <1>3, <2>2
  <2>4. t[j] - r * t[j + 1] \in Int
    BY <2>2, <2>3
  <2>5. f[j] = (t[j] - r * t[j + 1]) % Order
    BY <2>1 DEF MasterTurn
  <2> DEFINE w == t[j] - r * t[j + 1]
  <2>6. w % Order \in Scalar /\ w % Order \in Int /\ (w % Order) - w \in Multiples
    <3> HIDE DEF w
    <3>1. w \in Int
      BY <2>4 DEF w
    <3> QED BY <3>1, ReducedBy
  <2> QED BY <2>1, <2>4, <2>5, <2>6 DEF Shifted
<1>5. \A j \in 0 .. m : j \notin m - 1 - p .. m - 1 => f[j] = t[j]
  BY DEF MasterTurn
<1>6. f \in [0 .. m -> Scalar]
  <2>1. f = [j \in 0 .. m |-> f[j]]
    BY DEF MasterTurn
  <2> HIDE DEF f
  <2>2. \A j \in 0 .. m : f[j] \in Scalar
    BY <1>1, <1>4, <1>5
  <2> QED BY <2>1, <2>2
<1> HIDE DEF f
<1>7. m \in 0 .. m /\ m \notin m - 1 - p .. m - 1
  OBVIOUS
<1>8. f[m] = 1
  BY <1>1, <1>5, <1>7
<1>9. ASSUME NEW j \in 0 .. m, j < m - (p + 1) PROVE f[j] = 0
  <2>1. j \notin m - 1 - p .. m - 1 /\ j < m - p
    BY <1>9
  <2> QED BY <1>1, <1>5, <2>1
<1>10. ASSUME NEW k \in 1 .. p + 1 PROVE Shifted(f[m - k], t[m - k], r, t[m - k + 1])
  <2> DEFINE j == m - k
  <2>1. j \in m - 1 - p .. m - 1
    OBVIOUS
  <2> HIDE DEF j
  <2>2. Shifted(f[j], t[j], r, t[j + 1])
    BY <1>4, <2>1
  <2> QED BY <2>2 DEF j
<1> QED BY <1>6, <1>8, <1>9, <1>10 DEF IsMaster, f

\* A turn shifts the values of the loop that evaluates the polynomial.
LEMMA MasterTurnLoop ==
  ASSUME NEW m \in Nat, NEW p \in 1 .. m - 1, NEW t, IsMaster(t, m, p), NEW r \in Scalar, NEW v \in Int
  PROVE  \A k \in 0 .. p + 1 :
           Shifted(HornerLoop(MasterTurn(t, m, p, r), m + 1, v)[k + 1],
                   HornerLoop(t, m + 1, v)[k + 1], r, HornerLoop(t, m + 1, v)[k])
<1> DEFINE f == MasterTurn(t, m, p, r)
           g == HornerLoop(f, m + 1, v)
           h == HornerLoop(t, m + 1, v)
           S == {k \in 0 .. p + 1 : Shifted(g[k + 1], h[k + 1], r, h[k])}
<1>1. /\ t \in [0 .. m -> Scalar] /\ f \in [0 .. m -> Scalar] /\ f[m] = t[m]
      /\ \A k \in 1 .. p + 1 : Shifted(f[m - k], t[m - k], r, t[m - k + 1])
  <2>1. /\ IsMaster(f, m, p + 1)
        /\ \A k \in 1 .. p + 1 : Shifted(f[m - k], t[m - k], r, t[m - k + 1])
    BY MasterTurnShifts
  <2> HIDE DEF f
  <2> QED BY <2>1 DEF IsMaster
<1> HIDE DEF f
<1>2. Ints(t, m + 1) /\ Ints(f, m + 1) /\ m + 1 \in Nat
  BY <1>1, MasterInts
<1>3. ASSUME NEW k \in 0 .. (m + 1) - 1
      PROVE  /\ f[(m + 1) - (k + 1)] \in Int /\ g[k] \in Int /\ g[k + 1] \in Int
             /\ Turned(g[k + 1], f[(m + 1) - (k + 1)], v, g[k])
             /\ t[(m + 1) - (k + 1)] \in Int /\ h[k] \in Int /\ h[k + 1] \in Int
             /\ Turned(h[k + 1], t[(m + 1) - (k + 1)], v, h[k])
  BY <1>2, <1>3, Turns
<1>4. /\ g[0] = 0 /\ g[0 + 1] = (f[(m + 1) - (0 + 1)] + v * g[0]) % Order
      /\ h[0] = 0 /\ h[0 + 1] = (t[(m + 1) - (0 + 1)] + v * h[0]) % Order
  <2>1. 0 \in 0 .. (m + 1) - 1
    OBVIOUS
  <2>2. g[0] = 0 /\ g[0 + 1] = (f[(m + 1) - (0 + 1)] + v * g[0]) % Order
    BY <1>2, <2>1, HornerFacts
  <2>3. h[0] = 0 /\ h[0 + 1] = (t[(m + 1) - (0 + 1)] + v * h[0]) % Order
    BY <1>2, <2>1, HornerFacts
  <2> QED BY <2>2, <2>3
<1>5. r \in Int
  BY ScalarsAreInts
<1> HIDE DEF g, h
<1>6. 0 \in S
  <2>1. (m + 1) - (0 + 1) = m /\ 0 + 1 = 1
    OBVIOUS
  <2>2. g[1] = h[1] /\ h[0] = 0
    BY <1>1, <1>4, <2>1
  <2>3. h[1] \in Int
    BY <1>3, <2>1
  <2>4. h[1] - (h[1] - r * 0) = 0 /\ 0 \in Multiples
    BY <1>5, <2>3, OrderFacts DEF Multiples
  <2>5. Shifted(g[1], h[1], r, h[0])
    BY <2>2, <2>4 DEF Shifted
  <2> QED BY <2>1, <2>5
<1>7. ASSUME NEW k \in 0 .. (p + 1) - 1, k \in S PROVE k + 1 \in S
  <2> DEFINE l == k + 1
             j == m - l
  <2>1. l \in 1 .. p + 1 /\ l \in 0 .. (m + 1) - 1 /\ k \in 0 .. (m + 1) - 1 /\ l \in 0 .. p + 1
    OBVIOUS
  <2>2. (m + 1) - (k + 1) = j + 1 /\ (m + 1) - (l + 1) = j /\ m - l + 1 = j + 1
    OBVIOUS
  <2>3. Shifted(f[j], t[j], r, t[j + 1])
    BY <1>1, <2>1, <2>2
  <2>4. Shifted(g[l], h[l], r, h[k])
    BY <1>7
  <2>5. t[j + 1] \in Int /\ h[k] \in Int /\ h[l] \in Int /\ g[l] \in Int /\ Turned(h[l], t[j + 1], v, h[k])
    BY <1>3, <2>1, <2>2
  <2> HIDE DEF l, j
  <2>6. /\ f[j] \in Int /\ g[l + 1] \in Int /\ Turned(g[l + 1], f[j], v, g[l])
        /\ t[j] \in Int /\ h[l + 1] \in Int /\ Turned(h[l + 1], t[j], v, h[l])
    BY <1>3, <2>1, <2>2
  <2>7. Shifted(g[l + 1], h[l + 1], r, h[l])
    BY <1>5, <2>3, <2>4, <2>5, <2>6, ShiftedTurn
  <2>8. l \in S
    BY <2>1, <2>7
  <2> QED BY <2>8 DEF l
<1>8. \A k \in 0 .. p + 1 : k \in S
  <2>1. p + 1 \in Nat
    OBVIOUS
  <2> HIDE DEF S
  <2> QED BY <1>6, <1>7, <2>1, UpTo
<1> QED BY <1>8 DEF f, g, h

\* And those of the loop that evaluates its quotient.
LEMMA MasterTurnSlope ==
  ASSUME NEW m \in Nat, NEW p \in 1 .. m - 1, NEW t, IsMaster(t, m, p), NEW r \in Scalar, NEW v \in Int
  PROVE  \A k \in 0 .. p :
           Shifted(HornerLoop(Deflated(MasterTurn(t, m, p, r), m, v), m, v)[k + 1],
                   HornerLoop(Deflated(t, m, v), m, v)[k + 1], r, HornerLoop(Deflated(t, m, v), m, v)[k])
<1> DEFINE f == MasterTurn(t, m, p, r)
           c == Deflated(t, m, v)
           d == Deflated(f, m, v)
           g == HornerLoop(d, m, v)
           h == HornerLoop(c, m, v)
           e == HornerLoop(f, m + 1, v)
           b == HornerLoop(t, m + 1, v)
           S == {k \in 0 .. p : Shifted(g[k + 1], h[k + 1], r, h[k])}
<1>1. t \in [0 .. m -> Scalar] /\ f \in [0 .. m -> Scalar]
  BY MasterTurnShifts DEF IsMaster
<1>2. \A k \in 0 .. p + 1 : Shifted(e[k + 1], b[k + 1], r, b[k])
  BY MasterTurnLoop
<1> HIDE DEF f
<1>3. Ints(t, m + 1) /\ Ints(f, m + 1) /\ m + 1 \in Nat
  BY <1>1, MasterInts
<1>4. /\ Ints(c, m) /\ \A k \in 0 .. m - 1 : c[m - (k + 1)] = b[k + 1]
      /\ Ints(d, m) /\ \A k \in 0 .. m - 1 : d[m - (k + 1)] = e[k + 1]
  BY <1>3, DeflatedType
<1>5. b[0] = 0
  BY <1>3, HornerFacts
<1>6. \A k \in 0 .. m + 1 : b[k] \in Int /\ e[k] \in Int
  BY <1>3, HornerFacts
<1> HIDE DEF c, d, e, b
<1>7. ASSUME NEW k \in 0 .. m - 1
      PROVE  /\ g[k] \in Int /\ g[k + 1] \in Int /\ Turned(g[k + 1], e[k + 1], v, g[k])
             /\ h[k] \in Int /\ h[k + 1] \in Int /\ Turned(h[k + 1], b[k + 1], v, h[k])
  <2>1. /\ g[k] \in Int /\ g[k + 1] \in Int /\ Turned(g[k + 1], d[m - (k + 1)], v, g[k])
        /\ h[k] \in Int /\ h[k + 1] \in Int /\ Turned(h[k + 1], c[m - (k + 1)], v, h[k])
    BY <1>4, Turns
  <2> QED BY <1>4, <2>1
<1>8. g[0] = 0 /\ h[0] = 0
  BY <1>4, HornerFacts
<1>9. r \in Int
  BY ScalarsAreInts
<1> HIDE DEF g, h
<1>10. 0 \in S
  <2> DEFINE b1 == b[1]  e1 == e[1]  g1 == g[1]  h1 == h[1]
             p1 == g1 - (e1 + v * 0)
             p2 == h1 - (b1 + v * 0)
             p3 == e1 - (b1 - r * 0)
  <2>1. 0 \in 0 .. m - 1 /\ 0 + 1 = 1 /\ 0 \in 0 .. p + 1 /\ 1 \in 0 .. m + 1
    OBVIOUS
  <2>2. Turned(g1, e1, v, 0) /\ Turned(h1, b1, v, 0) /\ Shifted(e1, b1, r, 0)
    BY <1>2, <1>5, <1>7, <1>8, <2>1
  <2>3. b1 \in Int /\ e1 \in Int /\ g1 \in Int /\ h1 \in Int
    BY <1>6, <1>7, <2>1
  <2> HIDE DEF b1, e1, g1, h1
  <2>4. p1 \in Multiples /\ p2 \in Multiples /\ p3 \in Multiples
    BY <2>2 DEF Turned, Shifted
  <2>5. g1 - (h1 - r * 0) = (p1 + p3) - p2
    BY <2>3, <1>9
  <2> HIDE DEF p1, p2, p3
  <2>6. p1 + p3 \in Multiples
    BY <2>4, MultiplesClosed
  <2>7. (p1 + p3) - p2 \in Multiples
    BY <2>4, <2>6, MultiplesClosed
  <2>8. Shifted(g1, h1, r, 0)
    BY <2>5, <2>7 DEF Shifted
  <2> QED BY <1>8, <2>1, <2>8 DEF g1, h1
<1>11. ASSUME NEW k \in 0 .. p - 1, k \in S PROVE k + 1 \in S
  <2> DEFINE l == k + 1
  <2>1. l \in 0 .. p + 1 /\ l \in 0 .. m - 1 /\ k \in 0 .. m - 1 /\ l \in 0 .. p /\ l \in 0 .. m + 1 /\ l + 1 \in 0 .. m + 1
    OBVIOUS
  <2>2. Shifted(e[l + 1], b[l + 1], r, b[l])
    BY <1>2, <2>1
  <2>3. Shifted(g[l], h[l], r, h[k])
    BY <1>11
  <2>4. h[k] \in Int /\ h[l] \in Int /\ g[l] \in Int /\ Turned(h[l], b[l], v, h[k])
    BY <1>7, <2>1
  <2> HIDE DEF l
  <2>5. b[l] \in Int /\ b[l + 1] \in Int /\ e[l + 1] \in Int
    BY <1>6, <2>1
  <2>6. /\ g[l + 1] \in Int /\ Turned(g[l + 1], e[l + 1], v, g[l])
        /\ h[l + 1] \in Int /\ Turned(h[l + 1], b[l + 1], v, h[l])
    BY <1>7, <2>1
  <2>7. Shifted(g[l + 1], h[l + 1], r, h[l])
    BY <1>9, <2>2, <2>3, <2>4, <2>5, <2>6, ShiftedTurn
  <2>8. l \in S
    BY <2>1, <2>7
  <2> QED BY <2>8 DEF l
<1>12. \A k \in 0 .. p : k \in S
  <2> HIDE DEF S
  <2> QED BY <1>10, <1>11, UpTo
<1> QED BY <1>12 DEF f, c, d, g, h

-----------------------------------------------------------------------------
(* The roots of the master polynomial. *)

LEMMA AtInts ==
  ASSUME NEW m \in Nat, NEW t \in [0 .. m -> Scalar], NEW v \in Int, NEW p \in 0 .. m
  PROVE  ValueAt(t, m, p, v) \in Int /\ SlopeAt(t, m, p, v) \in Int
<1>1. Ints(t, m + 1) /\ m + 1 \in Nat
  BY MasterInts
<1>2. Ints(Deflated(t, m, v), m)
  BY <1>1, DeflatedType
<1>3. p \in 0 .. m /\ p + 1 \in 0 .. m + 1
  OBVIOUS
<1>4. HornerLoop(t, m + 1, v)[p + 1] \in Int
  BY <1>1, <1>3, HornerFacts
<1>5. HornerLoop(Deflated(t, m, v), m, v)[p] \in Int
  BY <1>2, <1>3, HornerFacts
<1> QED BY <1>4, <1>5 DEF ValueAt, SlopeAt

\* A new root multiplies the value by v - r; the derivative follows the product
\* rule.
ProductRule(w1, d1, w0, d0, u) == w1 - u * w0 \in Multiples /\ d1 - (w0 + u * d0) \in Multiples

\* A turn of the master loop multiplies by (v - r).
LEMMA MasterTurnAt ==
  ASSUME NEW m \in Nat, NEW p \in 1 .. m - 1, NEW t, IsMaster(t, m, p), NEW r \in Scalar, NEW v \in Int
  PROVE  ProductRule(ValueAt(MasterTurn(t, m, p, r), m, p + 1, v),
                     SlopeAt(MasterTurn(t, m, p, r), m, p + 1, v),
                     ValueAt(t, m, p, v), SlopeAt(t, m, p, v), v - r)
<1> DEFINE f == MasterTurn(t, m, p, r)
           l == p + 1
           b == HornerLoop(t, m + 1, v)
           c == Deflated(t, m, v)
           h == HornerLoop(c, m, v)
           w1 == ValueAt(f, m, l, v)
           d1 == SlopeAt(f, m, l, v)
           w0 == ValueAt(t, m, p, v)
           d0 == SlopeAt(t, m, p, v)
           b2 == b[l + 1]
           h1 == h[l]
<1>1. p \in 0 .. p + 1 /\ l \in 0 .. p + 1 /\ p \in 0 .. p /\ l \in 0 .. (m + 1) - 1 /\ p \in 0 .. m - 1
      /\ l \in 0 .. m /\ p \in 0 .. m /\ p \in 1 .. m - 1 /\ l \in 0 .. m + 1
  OBVIOUS
<1>2. t \in [0 .. m -> Scalar] /\ \A j \in 0 .. m : j < m - p => t[j] = 0
  BY DEF IsMaster
<1>3. f \in [0 .. m -> Scalar]
  <2>1. IsMaster(f, m, p + 1)
    BY MasterTurnShifts
  <2> QED BY <2>1 DEF IsMaster
<1>4. w1 \in Int /\ d1 \in Int /\ w0 \in Int /\ d0 \in Int
  <2> HIDE DEF f
  <2>1. w1 \in Int /\ d1 \in Int
    BY <1>1, <1>3, AtInts
  <2>2. w0 \in Int /\ d0 \in Int
    BY <1>1, <1>2, AtInts
  <2> QED BY <2>1, <2>2
<1>5. Shifted(w1, b2, r, w0)
  BY <1>1, MasterTurnLoop DEF ValueAt
<1>6. Shifted(d1, h1, r, d0)
  BY <1>1, MasterTurnSlope DEF SlopeAt
<1>7. Ints(t, m + 1) /\ m + 1 \in Nat
  BY <1>2, MasterInts
<1>8. b2 \in Int /\ Turned(b2, 0, v, w0)
  <2>1. (m + 1) - (l + 1) \in 0 .. m /\ (m + 1) - (l + 1) < m - p
    BY <1>1
  <2>2. t[(m + 1) - (l + 1)] = 0
    BY <1>2, <2>1
  <2>3. b[l + 1] \in Int /\ Turned(b[l + 1], t[(m + 1) - (l + 1)], v, b[l])
    BY <1>1, <1>7, Turns
  <2> QED BY <2>2, <2>3 DEF ValueAt
<1>9. h1 \in Int /\ Turned(h1, w0, v, d0)
  <2>1. Ints(c, m) /\ c[m - (p + 1)] = b[p + 1]
    BY <1>1, <1>7, DeflatedType
  <2>2. h[p + 1] \in Int /\ Turned(h[p + 1], c[m - (p + 1)], v, h[p])
    <3> HIDE DEF c
    <3> QED BY <1>1, <2>1, Turns
  <2> QED BY <2>1, <2>2 DEF ValueAt, SlopeAt
<1>10. r \in Int
  BY ScalarsAreInts
<1> DEFINE p1 == w1 - (b2 - r * w0)
           p2 == d1 - (h1 - r * d0)
           p3 == b2 - (0 + v * w0)
           p4 == h1 - (w0 + v * d0)
           u == v - r
<1> HIDE DEF w1, d1, w0, d0, b2, h1
<1>11. p1 \in Multiples /\ p2 \in Multiples /\ p3 \in Multiples /\ p4 \in Multiples
  BY <1>5, <1>6, <1>8, <1>9 DEF Shifted, Turned
<1>12. w1 - u * w0 = p1 + p3
  BY <1>4, <1>8, <1>10
<1>13. d1 - (w0 + u * d0) = p2 + p4
  BY <1>4, <1>9, <1>10
<1> HIDE DEF p1, p2, p3, p4, u
<1>14. p1 + p3 \in Multiples /\ p2 + p4 \in Multiples
  BY <1>11, MultiplesClosed
<1>15. ProductRule(w1, d1, w0, d0, u)
  BY <1>12, <1>13, <1>14 DEF ProductRule
<1> QED BY <1>15 DEF w1, d1, w0, d0, u

\* The first master polynomial is v - r.
LEMMA MasterStartAt ==
  ASSUME NEW m \in Nat \ {0}, NEW r \in Scalar
  PROVE  /\ IsMaster(MasterStart(m, r), m, 1)
         /\ \A v \in Int : ProductRule(ValueAt(MasterStart(m, r), m, 1, v),
                                       SlopeAt(MasterStart(m, r), m, 1, v), 1, 0, v - r)
<1> DEFINE f == MasterStart(m, r)
           q == (-r) % Order
<1>1. r \in Int /\ -r \in Int /\ q \in Scalar /\ q \in Int /\ q - (-r) \in Multiples
  BY ScalarsAreInts, ReducedBy
<1>2. f \in [0 .. m -> Scalar] /\ f[m] = 1 /\ f[m - 1] = q /\ \A j \in 0 .. m : j < m - 1 => f[j] = 0
  <2> HIDE DEF q
  <2>1. f = [j \in 0 .. m |-> IF j = m THEN 1 ELSE IF j = m - 1 THEN q ELSE 0]
    BY DEF MasterStart, q
  <2>2. m \in 0 .. m /\ m - 1 \in 0 .. m /\ m - 1 # m
    OBVIOUS
  <2> HIDE DEF f
  <2>3. f \in [0 .. m -> Scalar]
    BY <1>1, <2>1, OrderFacts
  <2> QED BY <2>1, <2>2, <2>3
<1>3. IsMaster(f, m, 1)
  BY <1>2 DEF IsMaster
<1> HIDE DEF f, q
<1>4. Ints(f, m + 1) /\ m + 1 \in Nat
  BY <1>2, MasterInts
<1>5. ASSUME NEW v \in Int
      PROVE  ProductRule(ValueAt(f, m, 1, v), SlopeAt(f, m, 1, v), 1, 0, v - r)
  <2> DEFINE b == HornerLoop(f, m + 1, v)
             c == Deflated(f, m, v)
             h == HornerLoop(c, m, v)
             b1 == b[1]
             b2 == b[2]
             h1 == h[1]
  <2>1. 0 \in 0 .. (m + 1) - 1 /\ 1 \in 0 .. (m + 1) - 1 /\ 0 \in 0 .. m - 1
        /\ 0 + 1 = 1 /\ 1 + 1 = 2 /\ (m + 1) - (0 + 1) = m /\ (m + 1) - (1 + 1) = m - 1
    OBVIOUS
  <2>2. b[0] = 0 /\ b1 \in Int /\ Turned(b1, 1, v, 0)
    <3>1. b[0] = 0
      BY <1>4, HornerFacts
    <3>2. b[0 + 1] \in Int /\ Turned(b[0 + 1], f[(m + 1) - (0 + 1)], v, b[0])
      BY <1>4, <2>1, Turns
    <3> QED BY <1>2, <2>1, <3>1, <3>2
  <2>3. b2 \in Int /\ Turned(b2, q, v, b1)
    <3>1. b[1 + 1] \in Int /\ Turned(b[1 + 1], f[(m + 1) - (1 + 1)], v, b[1])
      BY <1>4, <2>1, Turns
    <3> QED BY <1>2, <2>1, <3>1
  <2>4. h1 \in Int /\ Turned(h1, b1, v, 0)
    <3>1. Ints(c, m) /\ c[m - (0 + 1)] = b[0 + 1]
      <4>1. Ints(c, m) /\ \A k \in 0 .. m - 1 : c[m - (k + 1)] = b[k + 1]
        <5>1. m \in Nat
          OBVIOUS
        <5>2. Ints(c, m)
          BY <1>4, <5>1, DeflatedType
        <5>3. \A k \in 0 .. m - 1 : c[m - (k + 1)] = b[k + 1]
          BY <1>4, <5>1, DeflatedType
        <5> QED BY <5>2, <5>3
      <4> HIDE DEF c, b
      <4> QED BY <2>1, <4>1
    <3> HIDE DEF c, b
    <3>2. h[0] = 0
      BY <3>1, HornerFacts
    <3>3. h[0 + 1] \in Int /\ Turned(h[0 + 1], c[m - (0 + 1)], v, h[0])
      BY <3>1, <2>1, Turns
    <3> QED BY <2>1, <3>1, <3>2, <3>3
  <2>5. ValueAt(f, m, 1, v) = b2 /\ SlopeAt(f, m, 1, v) = h1
    BY DEF ValueAt, SlopeAt
  <2> DEFINE p1 == b1 - (1 + v * 0)
             p2 == b2 - (q + v * b1)
             p3 == h1 - (b1 + v * 0)
             p4 == q - (-r)
             u == v - r
  <2> HIDE DEF b1, b2, h1
  <2>6. p1 \in Multiples /\ p2 \in Multiples /\ p3 \in Multiples /\ p4 \in Multiples
    BY <1>1, <2>2, <2>3, <2>4 DEF Turned
  <2>7. b2 - u * 1 = (p2 + p4) + p1 * v
    BY <1>1, <2>2, <2>3
  <2>8. h1 - (1 + u * 0) = p3 + p1
    BY <1>1, <2>2, <2>4
  <2> HIDE DEF p1, p2, p3, p4, u
  <2>9. p2 + p4 \in Multiples /\ p3 + p1 \in Multiples
    BY <2>6, MultiplesClosed
  <2>10. (p2 + p4) + p1 * v \in Multiples
    BY <2>6, <2>9, MultiplesCombine
  <2>11. ProductRule(b2, h1, 1, 0, u)
    BY <2>7, <2>8, <2>9, <2>10 DEF ProductRule
  <2> QED BY <2>5, <2>11 DEF u
<1> QED BY <1>3, <1>5 DEF f

\* What the value and the derivative at v say of the roots z[0] .. z[p - 1].
RootsKnown(z, p, v, w, d) ==
  /\ (\E k \in 0 .. p - 1 : z[k] = v) => w \in Multiples
  /\ (\A k \in 0 .. p - 1 : z[k] # v) => w \notin Multiples
  /\ \A k \in 0 .. p - 1 :
       z[k] = v /\ (\A l \in 0 .. p - 1 : z[l] = v => l = k) => d \notin Multiples
  /\ \A k, l \in 0 .. p - 1 : k # l /\ z[k] = v /\ z[l] = v => d \in Multiples

\* A number within a multiple of another is a multiple if that one is.
LEMMA MultipleNear ==
  ASSUME NEW v \in Int, NEW w \in Int, v - w \in Multiples
  PROVE  v \in Multiples <=> w \in Multiples
<1> DEFINE p == v - w
<1>1. v = w + p /\ w = v - p /\ p \in Multiples
  OBVIOUS
<1> HIDE DEF p
<1> QED BY <1>1, MultiplesClosed

\* One more factor keeps that.
LEMMA RootsTurn ==
  ASSUME NEW p \in Nat, NEW z, \A k \in 0 .. p : z[k] \in Scalar, NEW v \in Scalar,
         NEW w0 \in Int, NEW d0 \in Int, NEW w1 \in Int, NEW d1 \in Int,
         RootsKnown(z, p, v, w0, d0), ProductRule(w1, d1, w0, d0, v - z[p])
  PROVE  RootsKnown(z, p + 1, v, w1, d1)
<1> DEFINE r == z[p]
           u == v - r
           uw == u * w0
           ud == u * d0
<1>1. r \in Scalar /\ r \in Int /\ v \in Int /\ u \in Int
  BY ScalarsAreInts
<1>2. uw \in Int /\ ud \in Int
  BY <1>1
<1>3. w1 - uw \in Multiples /\ d1 - (w0 + ud) \in Multiples
  BY DEF ProductRule
<1>4. w1 \in Multiples <=> uw \in Multiples
  BY <1>2, <1>3, MultipleNear
<1>5. d1 \in Multiples <=> w0 + ud \in Multiples
  <2>1. w0 + ud \in Int
    BY <1>2
  <2> QED BY <1>3, <2>1, MultipleNear
<1>6. (p + 1) - 1 = p /\ \A k \in 0 .. p : k \in 0 .. p - 1 \/ k = p
  OBVIOUS
<1>7. CASE v = r
  <2>1. u = 0
    BY <1>1, <1>7
  <2>2. uw = 0 /\ ud = 0 /\ w0 + ud = w0 /\ 0 \in Multiples
    <3>1. 0 * w0 = 0 /\ 0 * d0 = 0 /\ w0 + 0 = w0
      OBVIOUS
    <3>2. 0 \in Multiples
      BY OrderFacts DEF Multiples
    <3> HIDE DEF u
    <3> QED BY <2>1, <3>1, <3>2
  <2>3. w1 \in Multiples /\ (d1 \in Multiples <=> w0 \in Multiples)
    BY <1>4, <1>5, <2>2
  <2>4. p \in 0 .. p /\ z[p] = v
    BY <1>7
  <2>5. ASSUME NEW k \in 0 .. p, z[k] = v, \A l \in 0 .. p : z[l] = v => l = k
        PROVE  d1 \notin Multiples
    <3>1. k = p /\ \A l \in 0 .. p - 1 : l \in 0 .. p /\ l # p
      BY <2>4, <2>5
    <3>2. \A l \in 0 .. p - 1 : z[l] # v
      BY <2>5, <3>1
    <3> QED BY <2>3, <3>2 DEF RootsKnown
  <2>6. ASSUME NEW k \in 0 .. p, NEW l \in 0 .. p, k # l, z[k] = v, z[l] = v
        PROVE  d1 \in Multiples
    <3>1. \E j \in 0 .. p - 1 : z[j] = v
      BY <1>6, <2>6
    <3> QED BY <2>3, <3>1 DEF RootsKnown
  <2> QED BY <1>6, <2>3, <2>4, <2>5, <2>6 DEF RootsKnown
<1>8. CASE v # r
  <2>1. u \notin Multiples
    BY <1>1, <1>8, ScalarsSame
  <2>2. uw \in Multiples <=> w0 \in Multiples
    <3> HIDE DEF u
    <3> QED BY <1>1, <2>1, MultiplePrime, MultiplesTimes
  <2>3. ud \in Multiples <=> d0 \in Multiples
    <3> HIDE DEF u
    <3> QED BY <1>1, <2>1, MultiplePrime, MultiplesTimes
  <2>4. ASSUME w0 \in Multiples PROVE d1 \in Multiples <=> d0 \in Multiples
    <3>1. w0 + ud \in Int /\ (w0 + ud) - ud = w0
      BY <1>2
    <3>2. w0 + ud \in Multiples <=> ud \in Multiples
      <4> HIDE DEF ud
      <4> QED BY <1>2, <2>4, <3>1, MultipleNear
    <3> QED BY <1>5, <2>3, <3>2
  <2>5. \A k \in 0 .. p : z[k] = v => k \in 0 .. p - 1
    BY <1>6, <1>8
  <2>6. \A k \in 0 .. p - 1 : k \in 0 .. p
    OBVIOUS
  <2>7. (\E k \in 0 .. p : z[k] = v) => w1 \in Multiples
    BY <1>4, <2>2, <2>5 DEF RootsKnown
  <2>8. (\A k \in 0 .. p : z[k] # v) => w1 \notin Multiples
    BY <1>4, <2>2, <2>6 DEF RootsKnown
  <2>9. ASSUME NEW k \in 0 .. p, z[k] = v, \A l \in 0 .. p : z[l] = v => l = k
        PROVE  d1 \notin Multiples
    <3>1. k \in 0 .. p - 1 /\ \A l \in 0 .. p - 1 : z[l] = v => l = k
      BY <2>5, <2>6, <2>9
    <3>2. w0 \in Multiples /\ d0 \notin Multiples
      BY <2>9, <3>1 DEF RootsKnown
    <3> QED BY <2>4, <3>2
  <2>10. ASSUME NEW k \in 0 .. p, NEW l \in 0 .. p, k # l, z[k] = v, z[l] = v
         PROVE  d1 \in Multiples
    <3>1. k \in 0 .. p - 1 /\ l \in 0 .. p - 1
      BY <2>5, <2>10
    <3>2. w0 \in Multiples /\ d0 \in Multiples
      BY <2>10, <3>1 DEF RootsKnown
    <3> QED BY <2>4, <3>2
  <2> QED BY <1>6, <2>7, <2>8, <2>9, <2>10 DEF RootsKnown
<1> QED BY <1>7, <1>8

LEMMA RootsOfNone ==
  ASSUME NEW z, NEW v
  PROVE  RootsKnown(z, 0, v, 1, 0)
<1>1. 0 .. 0 - 1 = {}
  OBVIOUS
<1>2. 1 \notin Multiples
  BY OrderFacts DEF Multiples
<1> QED BY <1>1, <1>2 DEF RootsKnown

-----------------------------------------------------------------------------
(* phi is the derivative at a point, b the coefficients of the quotient. *)

PhiParts(v, q, e0, t0, g0, g1, b0, b1, u0, u1) ==
  /\ v \in Int /\ q \in Int /\ e0 \in Int /\ t0 \in Int
  /\ g0 \in Int /\ g1 \in Int /\ b0 \in Int /\ b1 \in Int /\ u0 \in Int /\ u1 \in Int
  /\ Turned(e0, 0, q, t0) /\ Turned(g1, e0, v, g0) /\ Turned(b1, t0, v, b0) /\ Turned(u1, b1, v, u0)
  /\ Turned(g0, u0, q, b0)

\* A turn of the loop of phi is one of the loop of the quotient.
LEMMA PhiTurn ==
  ASSUME NEW v, NEW q, NEW e0, NEW t0, NEW g0, NEW g1, NEW b0, NEW b1, NEW u0, NEW u1,
         PhiParts(v, q, e0, t0, g0, g1, b0, b1, u0, u1)
  PROVE  Turned(g1, u1, q - 1, b1)
<1>0. /\ v \in Int /\ q \in Int /\ e0 \in Int /\ t0 \in Int
      /\ g0 \in Int /\ g1 \in Int /\ b0 \in Int /\ b1 \in Int /\ u0 \in Int /\ u1 \in Int
  BY DEF PhiParts
<1> DEFINE p1 == e0 - (0 + q * t0)
           p2 == g1 - (e0 + v * g0)
           p3 == b1 - (t0 + v * b0)
           p4 == u1 - (b1 + v * u0)
           p5 == g0 - (u0 + q * b0)
<1>1. g1 - (u1 + (q - 1) * b1) = ((p2 + p1) + p5 * v) - (p4 + p3 * q)
  BY <1>0
<1>2. p1 \in Multiples /\ p2 \in Multiples /\ p3 \in Multiples /\ p4 \in Multiples /\ p5 \in Multiples
  BY DEF PhiParts, Turned
<1> HIDE DEF p1, p2, p3, p4, p5
<1>3. p2 + p1 \in Multiples /\ p4 + p3 * q \in Multiples
  BY <1>0, <1>2, MultiplesClosed, MultiplesCombine
<1>4. (p2 + p1) + p5 * v \in Multiples
  BY <1>0, <1>2, <1>3, MultiplesCombine
<1> QED BY <1>1, <1>3, <1>4, MultiplesClosed DEF Turned

LEMMA PhiIsSlope ==
  ASSUME NEW m \in Nat, NEW t \in [0 .. m -> Scalar], NEW v \in Int
  PROVE  Phi(t, m, v) \in Scalar /\ Phi(t, m, v) - SlopeAt(t, m, m, v) \in Multiples
<1> DEFINE f == [j \in 0 .. m - 1 |-> ((j + 1) * t[j + 1]) % Order]
           g == HornerLoop(f, m, v)
           b == HornerLoop(t, m + 1, v)
           c == Deflated(t, m, v)
           u == HornerLoop(c, m, v)
           S == {k \in 0 .. m : Turned(g[k], u[k], m - k, b[k])}
<1>1. \A j \in 0 .. m : t[j] \in Int
  BY MasterInts
<1>2. Ints(t, m + 1) /\ m + 1 \in Nat
  BY MasterInts
<1>3. ASSUME NEW j \in 0 .. m - 1
      PROVE  t[j + 1] \in Int /\ f[j] \in Int /\ Turned(f[j], 0, j + 1, t[j + 1])
  <2> DEFINE l == j + 1
             w == l * t[l]
  <2>1. l \in 0 .. m /\ l \in Int
    OBVIOUS
  <2>2. t[l] \in Int /\ f[j] = w % Order
    BY <1>1, <2>1
  <2> HIDE DEF l
  <2>3. w \in Int /\ 0 + w = w
    BY <2>1, <2>2
  <2>4. w % Order \in Int /\ (w % Order) - w \in Multiples
    <3> HIDE DEF w
    <3> QED BY <2>3, ReducedBy
  <2> HIDE DEF f
  <2> QED BY <2>2, <2>3, <2>4 DEF l, Turned
<1>4. Ints(f, m)
  <2> HIDE DEF f
  <2> QED BY <1>3 DEF Ints
<1> HIDE DEF f
<1>5. Ints(c, m)
  BY <1>2, DeflatedType
<1>6. \A k \in 0 .. m - 1 : c[m - (k + 1)] = b[k + 1]
  BY <1>2, DeflatedType
<1> HIDE DEF c
<1>7. g[0] = 0 /\ b[0] = 0 /\ u[0] = 0
  <2>1. g[0] = 0
    BY <1>4, HornerFacts
  <2>2. b[0] = 0
    BY <1>2, HornerFacts
  <2>3. u[0] = 0
    BY <1>5, HornerFacts
  <2> QED BY <2>1, <2>2, <2>3
<1>8. ASSUME NEW k \in 0 .. m - 1
      PROVE  /\ g[k] \in Int /\ g[k + 1] \in Int /\ Turned(g[k + 1], f[m - (k + 1)], v, g[k])
             /\ b[k] \in Int /\ b[k + 1] \in Int /\ Turned(b[k + 1], t[m - k], v, b[k])
             /\ u[k] \in Int /\ u[k + 1] \in Int /\ Turned(u[k + 1], b[k + 1], v, u[k])
  <2>1. g[k] \in Int /\ g[k + 1] \in Int /\ Turned(g[k + 1], f[m - (k + 1)], v, g[k])
    BY <1>4, Turns
  <2>2. k \in 0 .. (m + 1) - 1 /\ (m + 1) - (k + 1) = m - k
    OBVIOUS
  <2>3. b[k] \in Int /\ b[k + 1] \in Int /\ Turned(b[k + 1], t[(m + 1) - (k + 1)], v, b[k])
    BY <1>2, <2>2, Turns
  <2>4. u[k] \in Int /\ u[k + 1] \in Int /\ Turned(u[k + 1], c[m - (k + 1)], v, u[k])
    BY <1>5, Turns
  <2> HIDE DEF g, b, u
  <2> QED BY <1>6, <2>1, <2>2, <2>3, <2>4
<1>9. Phi(t, m, v) = g[m] /\ SlopeAt(t, m, m, v) = u[m]
  BY DEF Phi, SlopeAt, Horner, g, u, f, c
<1>10. g[m] \in Scalar /\ g[m] \in Int /\ u[m] \in Int /\ b[m] \in Int
  <2>1. m \in 0 .. m /\ m \in 0 .. m + 1
    OBVIOUS
  <2>2. g[m] \in Scalar /\ g[m] \in Int
    BY <1>4, <2>1, HornerFacts
  <2>3. u[m] \in Int
    BY <1>5, <2>1, HornerFacts
  <2>4. b[m] \in Int
    BY <1>2, <2>1, HornerFacts
  <2> QED BY <2>2, <2>3, <2>4
<1> HIDE DEF g, b, u
<1>11. 0 \in S
  <2>1. 0 - (0 + (m - 0) * 0) = 0 /\ 0 \in 0 .. m
    OBVIOUS
  <2>2. 0 \in Multiples
    BY OrderFacts DEF Multiples
  <2> QED BY <1>7, <2>1, <2>2 DEF Turned
<1>12. ASSUME NEW k \in 0 .. m - 1, k \in S PROVE k + 1 \in S
  <2> DEFINE l == k + 1
             j == m - l
             q == m - k
  <2>1. j \in 0 .. m - 1 /\ j + 1 = q /\ m - l = q - 1 /\ l \in 0 .. m /\ q \in Int
    OBVIOUS
  <2>2. Turned(g[k], u[k], q, b[k])
    BY <1>12
  <2>3. /\ g[k] \in Int /\ g[l] \in Int /\ Turned(g[l], f[j], v, g[k])
        /\ b[k] \in Int /\ b[l] \in Int /\ Turned(b[l], t[q], v, b[k])
        /\ u[k] \in Int /\ u[l] \in Int /\ Turned(u[l], b[l], v, u[k])
    BY <1>8
  <2> HIDE DEF l, j, q
  <2>4. t[q] \in Int /\ f[j] \in Int /\ Turned(f[j], 0, q, t[q])
    BY <1>3, <2>1
  <2>5. Turned(g[l], u[l], q - 1, b[l])
    <3> HIDE DEF S
    <3>1. v \in Int /\ q \in Int
      BY <2>1
    <3>2. f[j] \in Int /\ t[q] \in Int /\ g[k] \in Int /\ g[l] \in Int
      BY <2>3, <2>4
    <3>3. b[k] \in Int /\ b[l] \in Int /\ u[k] \in Int /\ u[l] \in Int
      BY <2>3
    <3>4. Turned(f[j], 0, q, t[q]) /\ Turned(g[l], f[j], v, g[k])
      BY <2>3, <2>4
    <3>5. Turned(b[l], t[q], v, b[k]) /\ Turned(u[l], b[l], v, u[k])
      BY <2>3
    <3>6. PhiParts(v, q, f[j], t[q], g[k], g[l], b[k], b[l], u[k], u[l])
      BY <3>1, <3>2, <3>3, <3>4, <3>5, <2>2 DEF PhiParts
    <3> QED BY <3>6, PhiTurn
  <2>6. l \in S
    BY <2>1, <2>5
  <2> QED BY <2>6 DEF l
<1>13. m \in S
  <2>1. \A k \in 0 .. m : k \in S
    <3> HIDE DEF S
    <3> QED BY <1>11, <1>12, UpTo
  <2> QED BY <2>1
<1>14. Turned(g[m], u[m], m - m, b[m])
  BY <1>13
<1>15. u[m] + (m - m) * b[m] = u[m]
  BY <1>10
<1>16. g[m] - u[m] \in Multiples
  BY <1>14, <1>15 DEF Turned
<1> QED BY <1>9, <1>10, <1>16

\* The second loop's b takes the values of the quotient's coefficients.
LEMMA QuotientIsDeflated ==
  ASSUME NEW m \in Nat \ {0}, NEW t \in [0 .. m -> Scalar], t[m] = 1, NEW v \in Scalar
  PROVE  Quotient(t, m, v) = Deflated(t, m, v)
<1> DEFINE G == [k \in Nat |-> [w \in Scalar |-> (t[m - k] + v * w) % Order]]
           r == Iterate(1, G)
           b == HornerLoop(t, m + 1, v)
           S == {k \in 0 .. m - 1 : r[k] = b[k + 1]}
<1>1. \A k \in Nat : \A w \in Scalar : G[k][w] = (t[m - k] + v * w) % Order
  OBVIOUS
<1>2. Quotient(t, m, v) = [j \in 0 .. m - 1 |-> r[m - 1 - j]]
  BY DEF Quotient
<1> HIDE DEF G
<1>3. r[0] = 1 /\ \A k \in Nat : r[k + 1] = G[k + 1][r[k]]
  <2>1. Follows(r, 1, G)
    BY IterateDef
  <2> HIDE DEF r
  <2> QED BY <2>1 DEF Follows
<1> HIDE DEF r
<1>4. Ints(t, m + 1) /\ m + 1 \in Nat /\ v \in Int
  BY MasterInts, ScalarsAreInts
<1>5. b[0] = 0
  BY <1>4, HornerFacts
<1>6. \A k \in 0 .. m + 1 : b[k] \in Scalar
  BY <1>4, HornerFacts
<1>7. \A k \in 0 .. (m + 1) - 1 : b[k + 1] = (t[(m + 1) - (k + 1)] + v * b[k]) % Order
  <2> DEFINE p == m + 1
  <2> HIDE DEF p
  <2>1. \A k \in 0 .. p - 1 :
          HornerLoop(t, p, v)[k + 1] = (t[p - (k + 1)] + v * HornerLoop(t, p, v)[k]) % Order
    <3>1. p \in Nat /\ Ints(t, p) /\ v \in Int
      BY <1>4 DEF p
    <3>2. p \in Nat
      BY <3>1
    <3>3. Ints(t, p)
      BY <3>1
    <3>4. v \in Int
      BY <3>1
    <3> QED BY ONLY <3>2, <3>3, <3>4, HornerFacts
  <2> QED BY <2>1 DEF p
<1>8. Deflated(t, m, v) = [j \in 0 .. m - 1 |-> b[m - j]]
  BY DEF Deflated
<1> HIDE DEF b
<1>9. 0 \in S
  <2>1. 0 \in 0 .. (m + 1) - 1 /\ (m + 1) - (0 + 1) = m /\ 0 + 1 = 1
    OBVIOUS
  <2>2. 1 + v * 0 = 1 /\ 1 % Order = 1
    BY <1>4, OrderFacts
  <2>3. b[1] = 1
    BY <1>5, <1>7, <2>1, <2>2
  <2> QED BY <1>3, <2>1, <2>3
<1>10. ASSUME NEW k \in 0 .. (m - 1) - 1, k \in S PROVE k + 1 \in S
  <2> DEFINE l == k + 1
  <2>1. l \in 0 .. m - 1 /\ l \in 0 .. (m + 1) - 1 /\ l \in Nat /\ k \in Nat /\ l \in 0 .. m + 1 /\ (m + 1) - (l + 1) = m - l
    OBVIOUS
  <2>2. r[k] = b[l]
    BY <1>10
  <2>3. r[l] = G[l][r[k]]
    BY <1>3, <2>1
  <2> HIDE DEF l
  <2>4. b[l + 1] = (t[m - l] + v * b[l]) % Order /\ b[l] \in Scalar
    BY <1>6, <1>7, <2>1
  <2>5. r[l] = b[l + 1]
    BY <1>1, <2>1, <2>2, <2>3, <2>4
  <2>6. l \in S
    BY <2>1, <2>5
  <2> QED BY <2>6 DEF l
<1>11. \A k \in 0 .. m - 1 : r[k] = b[k + 1]
  <2>1. m - 1 \in Nat
    OBVIOUS
  <2>2. \A k \in 0 .. m - 1 : k \in S
    <3> HIDE DEF S
    <3> QED BY <1>9, <1>10, <2>1, UpTo
  <2> QED BY <2>2
<1>12. \A j \in 0 .. m - 1 : m - 1 - j \in 0 .. m - 1 /\ (m - 1 - j) + 1 = m - j
  OBVIOUS
<1>13. \A j \in 0 .. m - 1 : r[m - 1 - j] = b[m - j]
  BY <1>11, <1>12
<1> QED BY <1>2, <1>8, <1>13

(* The first loop. *)

\* The factors of the master polynomial at v.
Differences(z, m, v) == [k \in 0 .. m - 1 |-> v - z[k]]

LEMMA DifferencesFacts ==
  ASSUME NEW m \in Nat, NEW z \in [0 .. m - 1 -> Scalar], NEW v \in Int
  PROVE  Ints(Differences(z, m, v), m) /\ \A k \in 0 .. m - 1 : Differences(z, m, v)[k] = v - z[k]
BY ScalarsAreInts DEF Ints, Differences

\* The master polynomial of p points.
MasterKnown(t, z, m, p) ==
  /\ IsMaster(t, m, p)
  /\ \A v \in Scalar : /\ RootsKnown(z, p, v, ValueAt(t, m, p, v), SlopeAt(t, m, p, v))
                       /\ ValueAt(t, m, p, v) = ScalarProduct(Differences(z, m, v), p)

LEMMA ReducedIs ==
  ASSUME NEW v \in Scalar, NEW w \in Int, v - w \in Multiples
  PROVE  v = w % Order
<1>1. v \in Int /\ v % Order = v
  BY OrderFacts
<1>2. Same(Order, v, w)
  BY <1>1, MultipleSame
<1> QED BY <1>1, <1>2 DEF Same

LEMMA AtScalar ==
  ASSUME NEW m \in Nat, NEW t \in [0 .. m -> Scalar], NEW v \in Int, NEW p \in 0 .. m
  PROVE  ValueAt(t, m, p, v) \in Scalar
<1>1. Ints(t, m + 1) /\ m + 1 \in Nat
  BY MasterInts
<1>2. p + 1 \in 0 .. m + 1
  OBVIOUS
<1> QED BY <1>1, <1>2, HornerFacts DEF ValueAt

LEMMA MasterStartKnown ==
  ASSUME NEW m \in Nat \ {0}, NEW z \in [0 .. m - 1 -> Scalar]
  PROVE  MasterKnown(MasterStart(m, z[0]), z, m, 1)
<1> DEFINE t == MasterStart(m, z[0])
<1>1. z[0] \in Scalar /\ 0 + 1 = 1 /\ 1 \in 0 .. m /\ 0 \in 0 .. m - 1
  OBVIOUS
<1>2. IsMaster(t, m, 1)
  BY <1>1, MasterStartAt
<1>3. \A v \in Int : ProductRule(ValueAt(t, m, 1, v), SlopeAt(t, m, 1, v), 1, 0, v - z[0])
  BY <1>1, MasterStartAt
<1>4. t \in [0 .. m -> Scalar]
  BY <1>2 DEF IsMaster
<1> HIDE DEF t
<1>5. ASSUME NEW v \in Scalar
      PROVE  /\ RootsKnown(z, 1, v, ValueAt(t, m, 1, v), SlopeAt(t, m, 1, v))
             /\ ValueAt(t, m, 1, v) = ScalarProduct(Differences(z, m, v), 1)
  <2> DEFINE w == ValueAt(t, m, 1, v)
             d == SlopeAt(t, m, 1, v)
  <2>1. v \in Int /\ w \in Int /\ d \in Int /\ w \in Scalar
    BY <1>1, <1>4, ScalarsAreInts, AtInts, AtScalar
  <2>2. ProductRule(w, d, 1, 0, v - z[0])
    BY <1>3, <2>1
  <2> HIDE DEF w, d
  <2>3. RootsKnown(z, 0, v, 1, 0)
    BY RootsOfNone
  <2>4. \A k \in 0 .. 0 : z[k] \in Scalar
    BY <1>1
  <2>5. RootsKnown(z, 0 + 1, v, w, d)
    BY <2>1, <2>2, <2>3, <2>4, RootsTurn
  <2> DEFINE e == Differences(z, m, v)
             u == v - z[0]
  <2>6. Ints(e, m) /\ e[0] = u
    BY <1>1, <2>1, DifferencesFacts
  <2>7. u \in Int
    <3>1. z[0] \in Int
      BY <1>1, ScalarsAreInts
    <3> QED BY <2>1, <3>1
  <2> HIDE DEF e, u
  <2>8. ScalarProduct(e, 0) = 1 /\ ScalarProduct(e, 0 + 1) = (ScalarProduct(e, 0) * e[0]) % Order
    BY <1>1, <2>6, ProductFacts
  <2>9. 1 * u = u /\ u * 1 = u
    BY <2>7
  <2>10. w - u \in Multiples
    BY <2>2, <2>9 DEF ProductRule, u
  <2>11. w = u % Order
    BY <2>1, <2>7, <2>10, ReducedIs
  <2>12. w = ScalarProduct(e, 1)
    BY <1>1, <2>6, <2>8, <2>9, <2>11
  <2> QED BY <1>1, <2>5, <2>12 DEF w, d, e
<1> QED BY <1>2, <1>5 DEF MasterKnown, t

\* A turn keeps it.
LEMMA MasterTurnKnown ==
  ASSUME NEW m \in Nat \ {0}, NEW z \in [0 .. m - 1 -> Scalar], NEW p \in 1 .. m - 1, NEW t,
         MasterKnown(t, z, m, p)
  PROVE  MasterKnown(MasterTurn(t, m, p, z[p]), z, m, p + 1)
<1> DEFINE f == MasterTurn(t, m, p, z[p])
           r == z[p]
           l == p + 1
<1>1. r \in Scalar /\ p \in Nat /\ p \in 0 .. m /\ l \in 0 .. m /\ p \in 0 .. m - 1 /\ r \in Int /\ p \in 0 .. m
  BY ScalarsAreInts
<1>2. IsMaster(t, m, p) /\ t \in [0 .. m -> Scalar]
  BY DEF MasterKnown, IsMaster
<1>3. IsMaster(f, m, l)
  BY <1>1, <1>2, MasterTurnShifts
<1>4. f \in [0 .. m -> Scalar]
  BY <1>3 DEF IsMaster
<1>5. \A v \in Int : ProductRule(ValueAt(f, m, l, v), SlopeAt(f, m, l, v),
                                 ValueAt(t, m, p, v), SlopeAt(t, m, p, v), v - r)
  BY <1>1, <1>2, MasterTurnAt
<1> HIDE DEF f, l
<1>6. ASSUME NEW v \in Scalar
      PROVE  /\ RootsKnown(z, l, v, ValueAt(f, m, l, v), SlopeAt(f, m, l, v))
             /\ ValueAt(f, m, l, v) = ScalarProduct(Differences(z, m, v), l)
  <2> DEFINE w == ValueAt(f, m, l, v)
             d == SlopeAt(f, m, l, v)
             w0 == ValueAt(t, m, p, v)
             d0 == SlopeAt(t, m, p, v)
  <2>1. v \in Int /\ w \in Int /\ d \in Int /\ w \in Scalar /\ w0 \in Int /\ d0 \in Int
    <3>1. v \in Int
      BY ScalarsAreInts
    <3>2. w \in Int /\ d \in Int /\ w \in Scalar
      BY <1>1, <1>4, <3>1, AtInts, AtScalar
    <3>3. w0 \in Int /\ d0 \in Int
      BY <1>1, <1>2, <3>1, AtInts
    <3> QED BY <3>1, <3>2, <3>3
  <2>2. ProductRule(w, d, w0, d0, v - r)
    BY <1>5, <2>1
  <2>3. RootsKnown(z, p, v, w0, d0) /\ w0 = ScalarProduct(Differences(z, m, v), p)
    BY DEF MasterKnown
  <2> HIDE DEF w, d, w0, d0
  <2>4. \A k \in 0 .. p : z[k] \in Scalar
    OBVIOUS
  <2>5. RootsKnown(z, p + 1, v, w, d)
    BY <1>1, <2>1, <2>2, <2>3, <2>4, RootsTurn
  <2> DEFINE e == Differences(z, m, v)
             u == v - r
             wu == w0 * u
  <2>6. Ints(e, m) /\ e[p] = u
    BY <1>1, <2>1, DifferencesFacts
  <2>7. u \in Int
    BY <1>1, <2>1
  <2>8. w0 = ScalarProduct(e, p)
    BY <2>3
  <2> HIDE DEF e, u
  <2>9. ScalarProduct(e, p + 1) = wu % Order
    BY <1>1, <2>6, <2>8, ProductFacts
  <2>10. wu \in Int /\ u * w0 = wu
    BY <2>1, <2>7
  <2>11. w - wu \in Multiples
    BY <2>2, <2>10 DEF ProductRule, u
  <2> HIDE DEF wu
  <2>12. w = wu % Order
    BY <2>1, <2>10, <2>11, ReducedIs
  <2>13. w = ScalarProduct(e, l)
    BY <2>9, <2>12 DEF l
  <2> QED BY <2>5, <2>13 DEF w, d, e, l
<1> QED BY <1>3, <1>6 DEF MasterKnown, f, l

\* Hence the whole loop establishes it.
LEMMA MasterLoopFacts ==
  ASSUME NEW m \in Nat \ {0}, NEW z \in [0 .. m - 1 -> Scalar]
  PROVE  /\ MasterLoop(z, m)[0] = MasterStart(m, z[0])
         /\ \A p \in 1 .. m - 1 : MasterLoop(z, m)[p] = MasterTurn(MasterLoop(z, m)[p - 1], m, p, z[p])
         /\ \A p \in 0 .. m - 1 : MasterKnown(MasterLoop(z, m)[p], z, m, p + 1)
<1> DEFINE G == [k \in Nat |-> [t \in [0 .. m -> Scalar] |-> MasterTurn(t, m, k, z[k])]]
           c == MasterStart(m, z[0])
           r == MasterLoop(z, m)
           S == {p \in 0 .. m - 1 : MasterKnown(r[p], z, m, p + 1)}
<1>1. \A k \in Nat : \A t \in [0 .. m -> Scalar] : G[k][t] = MasterTurn(t, m, k, z[k])
  OBVIOUS
<1>2. r = Iterate(c, G)
  BY DEF MasterLoop
<1> HIDE DEF G, r
<1>3. r[0] = c /\ \A k \in Nat : r[k + 1] = G[k + 1][r[k]]
  <2>1. Follows(r, c, G)
    BY <1>2, IterateDef
  <2> HIDE DEF c
  <2> QED BY <2>1 DEF Follows
<1>4. ASSUME NEW p \in S, p + 1 \in 1 .. m - 1
      PROVE  r[p + 1] = MasterTurn(r[p], m, p + 1, z[p + 1])
  <2>1. r[p] \in [0 .. m -> Scalar] /\ p \in Nat /\ p + 1 \in Nat
    BY DEF MasterKnown, IsMaster
  <2> QED BY <1>1, <1>3, <2>1
<1>5. 0 \in S
  <2>1. 0 \in 0 .. m - 1 /\ 0 + 1 = 1
    OBVIOUS
  <2>2. MasterKnown(c, z, m, 1)
    BY MasterStartKnown
  <2> HIDE DEF c
  <2> QED BY <1>3, <2>1, <2>2
<1>6. ASSUME NEW p \in 0 .. (m - 1) - 1, p \in S PROVE p + 1 \in S
  <2> DEFINE l == p + 1
  <2>1. l \in 1 .. m - 1 /\ l \in 0 .. m - 1
    OBVIOUS
  <2>2. r[l] = MasterTurn(r[p], m, l, z[l]) /\ MasterKnown(r[p], z, m, l)
    BY <1>4, <1>6, <2>1
  <2> HIDE DEF l
  <2>3. MasterKnown(r[l], z, m, l + 1)
    BY <2>1, <2>2, MasterTurnKnown
  <2>4. l \in S
    BY <2>1, <2>3
  <2> QED BY <2>4 DEF l
<1>7. \A p \in 0 .. m - 1 : p \in S
  <2>1. m - 1 \in Nat
    OBVIOUS
  <2> HIDE DEF S
  <2> QED BY <1>5, <1>6, <2>1, UpTo
<1>8. ASSUME NEW p \in 1 .. m - 1 PROVE r[p] = MasterTurn(r[p - 1], m, p, z[p])
  <2>1. p - 1 \in 0 .. m - 1 /\ (p - 1) + 1 = p
    OBVIOUS
  <2>2. p - 1 \in S
    BY <1>7, <2>1
  <2> QED BY <1>4, <2>1, <2>2
<1>9. \A p \in 0 .. m - 1 : MasterKnown(r[p], z, m, p + 1)
  BY <1>7
<1> QED BY <1>3, <1>8, <1>9 DEF r

-----------------------------------------------------------------------------
(* The second loop of interpolate. *)

\* Point k is no other point of the call.
OnceIn(z, m, k) == \A l \in 0 .. m - 1 : z[l] = z[k] => l = k

\* What a term adds to the value at a point.
TermAdds(h1, h0, z, m, p, k, b) ==
  /\ k = p /\ OnceIn(z, m, p) => h1 = (h0 + b) % Order
  /\ ~(k = p /\ OnceIn(z, m, p)) => h1 = h0

\* The quotient's value at a point of the call.
LEMMA QuotientAt ==
  ASSUME NEW m \in Nat \ {0}, NEW z \in [0 .. m - 1 -> Scalar], NEW t, MasterKnown(t, z, m, m),
         NEW p \in 0 .. m - 1, NEW k \in 0 .. m - 1
  PROVE  /\ Horner(Quotient(t, m, z[p]), m, z[k]) \in Int
         /\ z[k] # z[p] \/ ~OnceIn(z, m, p) => Horner(Quotient(t, m, z[p]), m, z[k]) \in Multiples
         /\ k = p => Phi(t, m, z[p]) - Horner(Quotient(t, m, z[p]), m, z[k]) \in Multiples
         /\ k = p /\ OnceIn(z, m, p) => Horner(Quotient(t, m, z[p]), m, z[k]) \notin Multiples
<1> DEFINE r == z[p]
           v == z[k]
           q == Deflated(t, m, r)
           h == Horner(q, m, v)
           b1 == Horner(t, m + 1, v)
           b0 == Horner(t, m + 1, r)
           u == v - r
<1>1. r \in Scalar /\ v \in Scalar /\ r \in Int /\ v \in Int /\ u \in Int
  <2>1. r \in Scalar /\ v \in Scalar
    OBVIOUS
  <2>2. r \in Int /\ v \in Int
    BY <2>1, ScalarsAreInts
  <2> QED BY <2>1, <2>2
<1>2. t \in [0 .. m -> Scalar] /\ t[m] = 1 /\ Ints(t, m + 1) /\ m \in Nat /\ m + 1 \in Nat
  BY MasterInts DEF MasterKnown, IsMaster
<1>3. Quotient(t, m, r) = q
  BY <1>1, <1>2, QuotientIsDeflated
<1>4. Ints(q, m)
  BY <1>1, <1>2, DeflatedType
<1>5. h \in Int /\ b1 \in Int /\ b0 \in Int
  <2>1. m \in 0 .. m /\ m + 1 \in 0 .. m + 1
    OBVIOUS
  <2>2. h \in Int
    <3> HIDE DEF q, v
    <3> QED BY <1>1, <1>2, <1>4, <2>1, HornerFacts DEF Horner
  <2>3. b1 \in Int /\ b0 \in Int
    BY <1>1, <1>2, <2>1, HornerFacts DEF Horner
  <2> QED BY <2>2, <2>3
<1>6. /\ RootsKnown(z, m, v, b1, SlopeAt(t, m, m, v))
      /\ RootsKnown(z, m, r, b0, SlopeAt(t, m, m, r))
  BY <1>1 DEF MasterKnown, ValueAt, Horner
<1>7. b1 \in Multiples /\ b0 \in Multiples
  <2>1. \E l \in 0 .. m - 1 : z[l] = v
    OBVIOUS
  <2>2. \E l \in 0 .. m - 1 : z[l] = r
    OBVIOUS
  <2> HIDE DEF v, r, b1, b0
  <2> QED BY <1>6, <2>1, <2>2 DEF RootsKnown
<1>8. Divided(h, v, r, b1, b0)
  <2> HIDE DEF v, r
  <2> QED BY <1>1, <1>2, FactorTheorem
<1>9. Phi(t, m, r) \in Scalar /\ Phi(t, m, r) - SlopeAt(t, m, m, r) \in Multiples
  <2> HIDE DEF r
  <2> QED BY <1>1, <1>2, PhiIsSlope
<1>10. k = p => h = SlopeAt(t, m, m, r)
  BY DEF SlopeAt, Horner
<1>11. OnceIn(z, m, p) => SlopeAt(t, m, m, r) \notin Multiples
  BY <1>6 DEF OnceIn, RootsKnown
<1>12. ~OnceIn(z, m, p) => SlopeAt(t, m, m, r) \in Multiples
  BY <1>6 DEF OnceIn, RootsKnown
<1>13. v = r => h = SlopeAt(t, m, m, r)
  BY DEF SlopeAt, Horner
<1>14. v # r => h \in Multiples
  <2> HIDE DEF h, b1, b0, v, r, u
  <2>1. b1 - b0 \in Multiples
    BY <1>7, MultiplesClosed
  <2> DEFINE e == u * h
             g == b1 - b0
  <2>2. e \in Int /\ g \in Int
    BY <1>1, <1>5
  <2>3. e - g \in Multiples
    BY <1>8 DEF Divided, u
  <2>4. u * h \in Multiples
    <3> HIDE DEF e, g
    <3>1. e \in Multiples
      BY <2>1, <2>2, <2>3, MultipleNear DEF g
    <3> QED BY <3>1 DEF e
  <2>5. v # r => u \notin Multiples
    BY <1>1, ScalarsSame DEF u
  <2> QED BY <1>1, <1>5, <2>4, <2>5, MultiplePrime
<1> HIDE DEF h, r, v, b1, b0, u, q
<1>15. h = Horner(Quotient(t, m, z[p]), m, z[k])
  BY <1>3 DEF h, r, v
<1> QED BY <1>5, <1>9, <1>10, <1>11, <1>12, <1>13, <1>14, <1>15 DEF r, v

\* A term adds y_p at x_p, if that occurs once, and nothing at the other points.
LEMMA TermTurnAt ==
  ASSUME NEW m \in Nat \ {0}, NEW z \in [0 .. m - 1 -> Scalar], NEW t, MasterKnown(t, z, m, m),
         NEW f \in [0 .. m - 1 -> Scalar], NEW p \in 0 .. m - 1, NEW b \in Scalar
  PROVE  /\ TermTurn(f, t, m, z[p], b) \in [0 .. m - 1 -> Scalar]
         /\ \A k \in 0 .. m - 1 :
              TermAdds(Horner(TermTurn(f, t, m, z[p], b), m, z[k]), Horner(f, m, z[k]), z, m, p, k, b)
<1> DEFINE r == z[p]
           q == Quotient(t, m, r)
           ph == Phi(t, m, r)
           w == ScalarInverse(ph) * b
           g == TermTurn(f, t, m, r, b)
<1>1. r \in Scalar /\ r \in Int /\ b \in Int
  BY ScalarsAreInts
<1>2. t \in [0 .. m -> Scalar] /\ t[m] = 1 /\ Ints(t, m + 1) /\ m \in Nat /\ m + 1 \in Nat
  BY MasterInts DEF MasterKnown, IsMaster
<1>3. q = Deflated(t, m, r)
  BY <1>1, <1>2, QuotientIsDeflated
<1>4. Ints(q, m)
  BY <1>1, <1>2, <1>3, DeflatedType
<1>5. ph \in Scalar /\ ph \in Int
  BY <1>1, <1>2, PhiIsSlope, ScalarsAreInts
<1> DEFINE iv == ScalarInverse(ph)
<1>6. /\ iv \in Int
      /\ ph # 0 => ph * iv - 1 \in Multiples
  <2> HIDE DEF ph
  <2> QED BY <1>5, InverseFacts
<1>7. g = [j \in 0 .. m - 1 |-> (f[j] + q[j] * iv * b) % Order]
  BY DEF TermTurn
<1> HIDE DEF q, ph, iv, g
<1>8. w \in Int
  <2>1. w = iv * b
    BY DEF iv
  <2> HIDE DEF w
  <2> QED BY <1>1, <1>6, <2>1
<1>9. w = iv * b
  BY DEF iv
<1> HIDE DEF w
<1>10. ASSUME NEW j \in 0 .. m - 1
       PROVE  f[j] \in Int /\ g[j] \in Scalar /\ g[j] \in Int /\ Mixed(g[j], 1, f[j], w, q[j])
  <2> DEFINE qj == q[j]
             fj == f[j]
             e == fj + qj * iv * b
             e1 == 1 * fj + w * qj
  <2>1. fj \in Int /\ qj \in Int
    BY <1>4, ScalarsAreInts DEF Ints
  <2> HIDE DEF qj, fj
  <2>2. e \in Int /\ e1 = e
    BY <1>1, <1>6, <1>9, <2>1
  <2>3. g[j] = e % Order
    BY <1>7 DEF fj, qj
  <2> HIDE DEF e
  <2>4. g[j] \in Scalar /\ g[j] \in Int /\ g[j] - e \in Multiples
    BY <2>2, <2>3, ReducedBy
  <2> HIDE DEF e1
  <2>5. g[j] - e1 \in Multiples
    BY <2>2, <2>4
  <2> QED BY <2>1, <2>4, <2>5 DEF Mixed, e1, fj, qj
<1>11. g \in [0 .. m - 1 -> Scalar]
  <2>1. g = [j \in 0 .. m - 1 |-> g[j]]
    BY <1>7
  <2> QED BY <1>10, <2>1
<1>12. Ints(f, m) /\ Ints(g, m) /\ Combination(f, 1, q, w, g, m)
  BY <1>10 DEF Ints, Combination
<1>13. ASSUME NEW k \in 0 .. m - 1
       PROVE  TermAdds(Horner(g, m, z[k]), Horner(f, m, z[k]), z, m, p, k, b)
  <2> DEFINE v == z[k]
             h1 == Horner(g, m, v)
             h0 == Horner(f, m, v)
             h == Horner(q, m, v)
             wh == w * h
  <2>1. v \in Int
    BY ScalarsAreInts
  <2>2. h1 \in Scalar /\ h0 \in Scalar /\ h1 \in Int /\ h0 \in Int
    <3>1. m \in 0 .. m
      OBVIOUS
    <3> HIDE DEF v
    <3> QED BY <1>2, <1>12, <2>1, <3>1, HornerFacts DEF Horner
  <2>3. Mixed(h1, 1, h0, w, h)
    <3> HIDE DEF v
    <3>1. 1 \in Int
      OBVIOUS
    <3> QED BY <1>2, <1>4, <1>8, <1>12, <2>1, <3>1, HornerCombined
  <2>4. /\ h \in Int
        /\ z[k] # z[p] \/ ~OnceIn(z, m, p) => h \in Multiples
        /\ k = p => ph - h \in Multiples
        /\ k = p /\ OnceIn(z, m, p) => h \notin Multiples
    BY QuotientAt DEF q, ph
  <2> HIDE DEF h1, h0, h, v
  <2>5. wh \in Int /\ 1 * h0 + wh = h0 + wh /\ h0 + wh \in Int
    BY <1>8, <2>2, <2>4
  <2>6. h1 - (h0 + wh) \in Multiples
    BY <2>3, <2>5 DEF Mixed
  <2>7. ASSUME h \in Multiples PROVE h1 = h0
    <3>1. wh \in Multiples
      BY <1>8, <2>7, MultiplesTimes
    <3> HIDE DEF wh
    <3> DEFINE d == h1 - (h0 + wh)
    <3>2. h1 - h0 = d + wh
      BY <2>2, <2>5
    <3>3. d + wh \in Multiples
      <4> HIDE DEF d
      <4>1. d \in Multiples
        BY <2>6 DEF d
      <4> QED BY <3>1, <4>1, MultiplesClosed
    <3> HIDE DEF d
    <3> QED BY <2>2, <3>2, <3>3, ScalarsSame
  <2>8. ASSUME k = p, OnceIn(z, m, p) PROVE h1 = (h0 + b) % Order
    <3>1. ph - h \in Multiples /\ h \notin Multiples
      BY <2>4, <2>8
    <3>2. ph \notin Multiples
      BY <1>5, <2>4, <3>1, MultipleNear
    <3>3. ph # 0
      BY <3>2, OrderFacts DEF Multiples
    <3> DEFINE c1 == ph * iv - 1
               c2 == ph - h
               c3 == h1 - (h0 + wh)
    <3>4. c1 \in Multiples /\ c2 \in Multiples /\ c3 \in Multiples
      BY <1>6, <2>6, <3>1, <3>3
    <3>5. h1 - (h0 + b) = (c3 + c1 * b) - c2 * w
      BY <1>1, <1>5, <1>6, <1>9, <2>2, <2>4 DEF wh
    <3> HIDE DEF c1, c2, c3
    <3>6. c3 + c1 * b \in Multiples
      BY <1>1, <3>4, MultiplesCombine
    <3>7. h1 - (h0 + b) \in Multiples
      BY <1>8, <3>4, <3>5, <3>6, MultiplesCombine
    <3>8. h0 + b \in Int
      BY <1>1, <2>2
    <3> DEFINE d == h0 + b
    <3> HIDE DEF d
    <3>9. h1 = d % Order
      BY <2>2, <3>7, <3>8, ReducedIs DEF d
    <3> QED BY <3>9 DEF d
  <2>9. ~(k = p /\ OnceIn(z, m, p)) => h \in Multiples
    BY <2>4 DEF OnceIn
  <2>10. TermAdds(h1, h0, z, m, p, k, b)
    BY <2>7, <2>8, <2>9 DEF TermAdds
  <2> QED BY <2>10 DEF h1, h0, v
<1> HIDE DEF r
<1>14. g = TermTurn(f, t, m, z[p], b)
  BY DEF g, r
<1> QED BY <1>11, <1>13, <1>14

\* The values after p terms.
TermsPass(f, z, b, m, p) ==
  /\ f \in [0 .. m - 1 -> Scalar]
  /\ \A k \in 0 .. m - 1 : Horner(f, m, z[k]) = IF k < p /\ OnceIn(z, m, k) THEN b[k] ELSE 0

LEMMA TermsPassTurn ==
  ASSUME NEW m \in Nat \ {0}, NEW z \in [0 .. m - 1 -> Scalar], NEW t, MasterKnown(t, z, m, m),
         NEW b \in [0 .. m - 1 -> Scalar], NEW p \in 0 .. m - 1, NEW f, TermsPass(f, z, b, m, p)
  PROVE  TermsPass(TermTurn(f, t, m, z[p], b[p]), z, b, m, p + 1)
<1> DEFINE g == TermTurn(f, t, m, z[p], b[p])
<1>1. f \in [0 .. m - 1 -> Scalar] /\ b[p] \in Scalar
  BY DEF TermsPass
<1>2. g \in [0 .. m - 1 -> Scalar]
  BY <1>1, TermTurnAt
<1>3. \A k \in 0 .. m - 1 : TermAdds(Horner(g, m, z[k]), Horner(f, m, z[k]), z, m, p, k, b[p])
  BY <1>1, TermTurnAt
<1> HIDE DEF g
<1>4. ASSUME NEW k \in 0 .. m - 1
      PROVE  Horner(g, m, z[k]) = IF k < p + 1 /\ OnceIn(z, m, k) THEN b[k] ELSE 0
  <2> DEFINE h1 == Horner(g, m, z[k])
             h0 == Horner(f, m, z[k])
  <2>1. TermAdds(h1, h0, z, m, p, k, b[p])
    BY <1>3
  <2>2. h0 = IF k < p /\ OnceIn(z, m, k) THEN b[k] ELSE 0
    BY DEF TermsPass
  <2> HIDE DEF h1, h0
  <2>3. CASE k = p /\ OnceIn(z, m, p)
    <3>1. h1 = (h0 + b[p]) % Order /\ h0 = 0
      BY <2>1, <2>2, <2>3 DEF TermAdds
    <3>2. 0 + b[p] = b[p] /\ b[p] % Order = b[p]
      BY <1>1, OrderFacts
    <3>3. k < p + 1
      BY <2>3
    <3> QED BY <2>3, <3>1, <3>2, <3>3 DEF h1
  <2>4. CASE ~(k = p /\ OnceIn(z, m, p))
    <3>1. h1 = h0
      BY <2>1, <2>4 DEF TermAdds
    <3>2. (k < p + 1 /\ OnceIn(z, m, k)) <=> (k < p /\ OnceIn(z, m, k))
      <4>1. k < p + 1 <=> k < p \/ k = p
        OBVIOUS
      <4> QED BY <2>4, <4>1
    <3> QED BY <2>2, <3>1, <3>2 DEF h1
  <2> QED BY <2>3, <2>4
<1>5. TermsPass(g, z, b, m, p + 1)
  BY <1>2, <1>4 DEF TermsPass
<1> QED BY <1>5 DEF g

LEMMA ZeroPolynomial ==
  ASSUME NEW m \in Nat, NEW v \in Int, NEW c, \A j \in 0 .. m - 1 : c[j] = 0
  PROVE  Horner(c, m, v) = 0
<1> DEFINE h == HornerLoop(c, m, v)
           S == {k \in 0 .. m : h[k] = 0}
<1>1. Ints(c, m)
  BY DEF Ints
<1>2. h[0] = 0 /\ \A k \in 0 .. m - 1 : h[k + 1] = (c[m - (k + 1)] + v * h[k]) % Order
  BY <1>1, HornerFacts
<1> HIDE DEF h
<1>3. ASSUME NEW k \in 0 .. m - 1, k \in S PROVE k + 1 \in S
  <2>1. c[m - (k + 1)] = 0 /\ h[k] = 0 /\ k + 1 \in 0 .. m
    <3>1. m - (k + 1) \in 0 .. m - 1
      OBVIOUS
    <3> QED BY <1>3, <3>1
  <2>2. 0 + v * 0 = 0 /\ 0 % Order = 0
    BY OrderFacts
  <2> QED BY <1>2, <2>1, <2>2
<1>4. \A k \in 0 .. m : k \in S
  <2>1. 0 \in S
    BY <1>2
  <2> HIDE DEF S
  <2> QED BY <1>3, <2>1, UpTo
<1> QED BY <1>4 DEF Horner, h

\* The whole loop.
LEMMA TermLoopFacts ==
  ASSUME NEW m \in Nat \ {0}, NEW z \in [0 .. m - 1 -> Scalar], NEW b \in [0 .. m - 1 -> Scalar]
  PROVE  /\ TermLoop(z, b, m)[0] = [j \in 0 .. m - 1 |-> 0]
         /\ \A p \in 0 .. m - 1 :
              TermLoop(z, b, m)[p + 1] = TermTurn(TermLoop(z, b, m)[p], MasterLoop(z, m)[m - 1], m, z[p], b[p])
         /\ \A p \in 0 .. m : TermsPass(TermLoop(z, b, m)[p], z, b, m, p)
<1> DEFINE t == MasterLoop(z, m)[m - 1]
           G == [k \in Nat |-> [c \in [0 .. m - 1 -> Scalar] |-> TermTurn(c, t, m, z[k - 1], b[k - 1])]]
           c0 == [j \in 0 .. m - 1 |-> 0]
           r == TermLoop(z, b, m)
           S == {p \in 0 .. m : TermsPass(r[p], z, b, m, p)}
<1>1. MasterKnown(t, z, m, m)
  <2>1. m - 1 \in 0 .. m - 1 /\ (m - 1) + 1 = m
    OBVIOUS
  <2>2. MasterKnown(MasterLoop(z, m)[m - 1], z, m, (m - 1) + 1)
    BY <2>1, MasterLoopFacts
  <2> QED BY <2>1, <2>2
<1>2. r = Iterate(c0, G)
  BY DEF TermLoop
<1>3. \A k \in Nat : \A c \in [0 .. m - 1 -> Scalar] : G[k][c] = TermTurn(c, t, m, z[k - 1], b[k - 1])
  OBVIOUS
<1>4. \A j \in 0 .. m - 1 : c0[j] = 0
  OBVIOUS
<1>5. c0 \in [0 .. m - 1 -> Scalar]
  BY OrderFacts
<1> HIDE DEF G, r, t
<1>6. Follows(r, c0, G)
  BY <1>2, IterateDef
<1>7. r[0] = c0 /\ \A k \in Nat : r[k + 1] = G[k + 1][r[k]]
  <2> HIDE DEF c0
  <2> QED BY <1>6 DEF Follows
<1>8. TermsPass(c0, z, b, m, 0)
  <2>1. ASSUME NEW k \in 0 .. m - 1 PROVE Horner(c0, m, z[k]) = 0
    <3>1. z[k] \in Int
      BY ScalarsAreInts
    <3> HIDE DEF c0
    <3> QED BY <1>4, <3>1, ZeroPolynomial
  <2>2. \A k \in 0 .. m - 1 : ~(k < 0)
    OBVIOUS
  <2> HIDE DEF c0
  <2> QED BY <1>5, <2>1, <2>2 DEF TermsPass
<1>9. ASSUME NEW p \in 0 .. m - 1, TermsPass(r[p], z, b, m, p)
      PROVE  r[p + 1] = TermTurn(r[p], t, m, z[p], b[p])
  <2>1. r[p] \in [0 .. m - 1 -> Scalar] /\ p \in Nat /\ p + 1 \in Nat /\ (p + 1) - 1 = p
    BY <1>9 DEF TermsPass
  <2>2. G[p + 1][r[p]] = TermTurn(r[p], t, m, z[(p + 1) - 1], b[(p + 1) - 1])
    BY <1>3, <2>1
  <2> QED BY <1>7, <2>1, <2>2
<1>10. ASSUME NEW p \in 0 .. m - 1, p \in S PROVE p + 1 \in S
  <2>1. TermsPass(r[p], z, b, m, p)
    BY <1>10
  <2>2. r[p + 1] = TermTurn(r[p], t, m, z[p], b[p])
    BY <1>9, <2>1
  <2>3. TermsPass(r[p + 1], z, b, m, p + 1)
    BY <1>1, <2>1, <2>2, TermsPassTurn
  <2> QED BY <2>3
<1>11. \A p \in 0 .. m : TermsPass(r[p], z, b, m, p)
  <2>1. 0 \in S
    BY <1>7, <1>8
  <2>2. \A p \in 0 .. m : p \in S
    <3> HIDE DEF S
    <3> QED BY <1>10, <2>1, UpTo
  <2> QED BY <2>2
<1>12. \A p \in 0 .. m - 1 : r[p + 1] = TermTurn(r[p], t, m, z[p], b[p])
  BY <1>9, <1>11
<1> QED BY <1>7, <1>11, <1>12 DEF r, t

\* What a call returns.
LEMMA InterpolatePasses ==
  ASSUME NEW m \in Nat \ {0}, NEW z \in [0 .. m - 1 -> Scalar], NEW b \in [0 .. m - 1 -> Scalar]
  PROVE  /\ Interpolate(z, b, m) \in [0 .. m - 1 -> Scalar]
         /\ \A k \in 0 .. m - 1 : OnceIn(z, m, k) => Horner(Interpolate(z, b, m), m, z[k]) = b[k]
<1>1. m \in 0 .. m
  OBVIOUS
<1>2. TermsPass(Interpolate(z, b, m), z, b, m, m)
  BY <1>1, TermLoopFacts DEF Interpolate
<1>3. \A k \in 0 .. m - 1 : k < m
  OBVIOUS
<1> QED BY <1>2, <1>3 DEF TermsPass

-----------------------------------------------------------------------------
(* Polynomials as functions of the scalars: degree at most d, and the      *)
(* coefficient l of the power d.                                            *)

\* The function f of the scalars is the polynomial with the coefficients c.
Agrees(f, c, d) == \A v \in Scalar : f[v] \in Int /\ f[v] - Horner(c, d + 1, v) \in Multiples

\* f is a polynomial of degree at most d whose coefficient of the power d is l.
IsPoly(f, d, l) == \E c \in [0 .. d -> Int] : c[d] = l /\ Agrees(f, c, d)

\* Where f is zero.
Roots(f) == {v \in Scalar : f[v] \in Multiples}

LEMMA CoefficientInts ==
  ASSUME NEW d \in Nat, NEW c \in [0 .. d -> Int]
  PROVE  /\ Ints(c, d + 1) /\ d + 1 \in Nat /\ \A j \in 0 .. d : c[j] \in Int
         /\ \A v \in Int : Horner(c, d + 1, v) \in Int
<1>1. Ints(c, d + 1) /\ d + 1 \in Nat /\ d + 1 \in 0 .. d + 1
  BY DEF Ints
<1>2. \A v \in Int : Horner(c, d + 1, v) \in Int
  BY <1>1, HornerFacts DEF Horner
<1> QED BY <1>1, <1>2

\* The first turn of the loop.
LEMMA HornerFirst ==
  ASSUME NEW d \in Nat, NEW c, Ints(c, d + 1), NEW v \in Int
  PROVE  HornerLoop(c, d + 1, v)[1] = c[d] % Order
<1>1. d + 1 \in Nat /\ 0 \in 0 .. (d + 1) - 1 /\ (d + 1) - (0 + 1) = d /\ 0 + 1 = 1 /\ d \in 0 .. (d + 1) - 1
  OBVIOUS
<1>2. HornerLoop(c, d + 1, v)[0] = 0
  BY <1>1, HornerFacts
<1>3. HornerLoop(c, d + 1, v)[0 + 1] = (c[(d + 1) - (0 + 1)] + v * HornerLoop(c, d + 1, v)[0]) % Order
  BY <1>1, HornerFacts
<1>4. c[d] \in Int
  BY <1>1 DEF Ints
<1>5. c[d] + v * 0 = c[d]
  BY <1>4
<1> QED BY <1>1, <1>2, <1>3, <1>5

LEMMA IsConstant ==
  ASSUME NEW l \in Int, NEW f, \A v \in Scalar : f[v] = l
  PROVE  IsPoly(f, 0, l)
<1> DEFINE c == [j \in 0 .. 0 |-> l]
<1>1. c \in [0 .. 0 -> Int] /\ c[0] = l
  OBVIOUS
<1> HIDE DEF c
<1>2. Ints(c, 0 + 1)
  BY <1>1 DEF Ints
<1>3. ASSUME NEW v \in Scalar PROVE f[v] \in Int /\ f[v] - Horner(c, 0 + 1, v) \in Multiples
  <2>1. v \in Int
    BY ScalarsAreInts
  <2>2. HornerLoop(c, 0 + 1, v)[1] = l % Order
    BY <1>1, <1>2, <2>1, HornerFirst
  <2>3. Horner(c, 0 + 1, v) = l % Order
    BY <2>2 DEF Horner
  <2>4. l - (l % Order) \in Multiples
    BY ReducedBy
  <2> QED BY <2>3, <2>4
<1>4. Agrees(f, c, 0)
  BY <1>3 DEF Agrees
<1> QED BY <1>1, <1>4 DEF IsPoly

\* Sums.
LEMMA IsCombination ==
  ASSUME NEW d \in Nat, NEW l \in Int, NEW k \in Int, NEW u \in Int, NEW w \in Int, NEW f, NEW g, NEW h,
         IsPoly(f, d, l), IsPoly(g, d, k), \A v \in Scalar : h[v] \in Int /\ Mixed(h[v], u, f[v], w, g[v])
  PROVE  IsPoly(h, d, u * l + w * k)
<1>1. PICK c \in [0 .. d -> Int] : c[d] = l /\ Agrees(f, c, d)
  BY DEF IsPoly
<1>2. PICK b \in [0 .. d -> Int] : b[d] = k /\ Agrees(g, b, d)
  BY DEF IsPoly
<1> DEFINE e == [j \in 0 .. d |-> u * c[j] + w * b[j]]
<1>3. ASSUME NEW j \in 0 .. d PROVE e[j] \in Int /\ Mixed(e[j], u, c[j], w, b[j])
  <2>1. c[j] \in Int /\ b[j] \in Int
    BY CoefficientInts
  <2> DEFINE z == u * c[j] + w * b[j]
  <2>2. z \in Int
    BY <2>1
  <2>3. e[j] = z
    OBVIOUS
  <2>4. z - z \in Multiples
    <3> HIDE DEF z
    <3>1. z - z = 0
      BY <2>2
    <3> QED BY <3>1, OrderFacts DEF Multiples
  <2> QED BY <2>2, <2>3, <2>4 DEF Mixed
<1>4. e[d] = u * l + w * k
  BY <1>1, <1>2
<1>5. e \in [0 .. d -> Int]
  BY <1>3
<1> HIDE DEF e
<1> DEFINE m == d + 1
<1>6. m \in Nat /\ Ints(c, m) /\ Ints(b, m) /\ Ints(e, m)
  BY <1>5, CoefficientInts
<1>7. Combination(c, u, b, w, e, m)
  <2>1. m - 1 = d
    OBVIOUS
  <2> QED BY <1>3, <2>1 DEF Combination
<1>8. ASSUME NEW v \in Scalar PROVE h[v] - Horner(e, m, v) \in Multiples
  <2> DEFINE hf == Horner(c, m, v)
             hg == Horner(b, m, v)
             hh == Horner(e, m, v)
             fv == f[v]
             gv == g[v]
             hv == h[v]
  <2>1. v \in Int
    BY ScalarsAreInts
  <2>2. Mixed(hh, u, hf, w, hg)
    <3> HIDE DEF m
    <3> QED BY <1>6, <1>7, <2>1, HornerCombined
  <2>3. hf \in Int /\ hg \in Int /\ hh \in Int
    BY <1>5, <2>1, CoefficientInts
  <2>4. fv \in Int /\ fv - hf \in Multiples /\ gv \in Int /\ gv - hg \in Multiples
    BY <1>1, <1>2 DEF Agrees
  <2>5. hv \in Int /\ Mixed(hv, u, fv, w, gv)
    OBVIOUS
  <2> HIDE DEF hf, hg, hh, fv, gv, hv
  <2> DEFINE p1 == hv - (u * fv + w * gv)
             p2 == hh - (u * hf + w * hg)
             p3 == fv - hf
             p4 == gv - hg
  <2>6. hv - hh = (p1 + (p3 * u + p4 * w)) - p2
    BY <2>3, <2>4, <2>5
  <2>7. p1 \in Multiples /\ p2 \in Multiples /\ p3 \in Multiples /\ p4 \in Multiples
    BY <2>2, <2>4, <2>5 DEF Mixed
  <2> HIDE DEF p1, p2, p3, p4
  <2>8. p3 * u + p4 * w \in Multiples
    BY <2>7, MultiplesCombine
  <2>9. p1 + (p3 * u + p4 * w) \in Multiples
    <3> DEFINE p5 == p3 * u + p4 * w
    <3> HIDE DEF p5
    <3>1. p1 + p5 \in Multiples
      BY <2>7, <2>8, MultiplesClosed DEF p5
    <3> QED BY <3>1 DEF p5
  <2>10. hv - hh \in Multiples
    BY <2>6, <2>7, <2>9, MultiplesClosed
  <2> QED BY <2>10 DEF hv, hh
<1>9. Agrees(h, e, d)
  BY <1>8 DEF Agrees
<1> QED BY <1>4, <1>5, <1>9 DEF IsPoly

-----------------------------------------------------------------------------
(* Degrees. *)

\* A leading coefficient that is a multiple changes nothing.
LEMMA ZeroTop ==
  ASSUME NEW m \in Nat, NEW c, Ints(c, m + 1), c[m] \in Multiples, NEW b, \A j \in 0 .. m - 1 : b[j] = c[j],
         NEW v \in Int
  PROVE  Horner(c, m + 1, v) = Horner(b, m, v)
<1> DEFINE g == HornerLoop(c, m + 1, v)
           h == HornerLoop(b, m, v)
           S == {k \in 0 .. m : g[k + 1] = h[k]}
<1>1. m + 1 \in Nat /\ (m + 1) - 1 = m /\ 0 \in 0 .. (m + 1) - 1
  OBVIOUS
<1>2. Ints(b, m)
  <2>1. \A j \in 0 .. m - 1 : j \in 0 .. (m + 1) - 1
    OBVIOUS
  <2> QED BY <2>1 DEF Ints
<1>3. g[1] = 0
  <2>1. g[1] = c[m] % Order
    BY HornerFirst
  <2> QED BY <2>1 DEF Multiples
<1>4. \A k \in 0 .. (m + 1) - 1 : g[k + 1] = (c[(m + 1) - (k + 1)] + v * g[k]) % Order
  BY <1>1, HornerFacts
<1>5. h[0] = 0 /\ \A k \in 0 .. m - 1 : h[k + 1] = (b[m - (k + 1)] + v * h[k]) % Order
  BY <1>2, HornerFacts
<1> HIDE DEF g, h
<1>6. ASSUME NEW k \in 0 .. m - 1, k \in S PROVE k + 1 \in S
  <2> DEFINE l == k + 1
  <2>1. l \in 0 .. m /\ l \in 0 .. (m + 1) - 1 /\ (m + 1) - (l + 1) = m - l /\ m - l \in 0 .. m - 1
    OBVIOUS
  <2>2. g[l] = h[k]
    BY <1>6
  <2>3. h[l] = (b[m - l] + v * h[k]) % Order
    BY <1>5
  <2> HIDE DEF l
  <2>4. g[l + 1] = (c[m - l] + v * g[l]) % Order
    BY <1>4, <2>1
  <2>5. c[m - l] = b[m - l]
    BY <2>1
  <2>6. l \in S
    BY <2>1, <2>2, <2>3, <2>4, <2>5
  <2> QED BY <2>6 DEF l
<1>7. m \in S
  <2>1. 0 \in S
    BY <1>3, <1>5
  <2>2. \A k \in 0 .. m : k \in S
    <3> HIDE DEF S
    <3> QED BY <1>6, <2>1, UpTo
  <2> QED BY <2>2
<1> QED BY <1>7 DEF Horner, g, h

LEMMA ZeroIsMultiple == 0 \in Multiples
BY OrderFacts DEF Multiples

\* A polynomial is one of any higher degree, with nothing leading.
LEMMA Raised ==
  ASSUME NEW d \in Nat, NEW l, NEW f, IsPoly(f, d, l)
  PROVE  IsPoly(f, d + 1, 0)
<1>1. PICK c \in [0 .. d -> Int] : c[d] = l /\ Agrees(f, c, d)
  BY DEF IsPoly
<1> DEFINE m == d + 1
           b == [j \in 0 .. m |-> IF j = m THEN 0 ELSE c[j]]
<1>2. m \in Nat /\ m \in 0 .. m /\ \A j \in 0 .. m - 1 : j # m /\ j \in 0 .. m /\ j \in 0 .. d
  OBVIOUS
<1>3. b \in [0 .. m -> Int] /\ b[m] = 0 /\ \A j \in 0 .. m - 1 : c[j] = b[j]
  BY <1>2
<1> HIDE DEF b, m
<1>4. ASSUME NEW v \in Scalar PROVE f[v] \in Int /\ f[v] - Horner(b, m + 1, v) \in Multiples
  <2>1. v \in Int
    BY ScalarsAreInts
  <2>2. Ints(b, m + 1)
    BY <1>2, <1>3, CoefficientInts
  <2>3. Horner(b, m + 1, v) = Horner(c, m, v)
    BY <1>2, <1>3, <2>1, <2>2, ZeroTop, ZeroIsMultiple
  <2> QED BY <1>1, <2>3 DEF Agrees, m
<1>5. Agrees(f, b, m)
  BY <1>4 DEF Agrees
<1>6. IsPoly(f, m, 0)
  BY <1>3, <1>5 DEF IsPoly
<1> QED BY <1>6 DEF m

\* If nothing leads, the degree is less.
LEMMA Dropped ==
  ASSUME NEW d \in Nat, NEW l \in Multiples, NEW f, IsPoly(f, d + 1, l)
  PROVE  \E k \in Int : IsPoly(f, d, k)
<1> DEFINE m == d + 1
<1>1. PICK c \in [0 .. m -> Int] : c[m] = l /\ Agrees(f, c, m)
  BY DEF IsPoly
<1> DEFINE b == [j \in 0 .. d |-> c[j]]
<1>2. m \in Nat /\ m - 1 = d /\ \A j \in 0 .. m - 1 : j \in 0 .. m /\ j \in 0 .. d
  OBVIOUS
<1>3. b \in [0 .. d -> Int] /\ \A j \in 0 .. m - 1 : b[j] = c[j]
  BY <1>2
<1> HIDE DEF b, m
<1>4. ASSUME NEW v \in Scalar PROVE f[v] \in Int /\ f[v] - Horner(b, m, v) \in Multiples
  <2>1. v \in Int
    BY ScalarsAreInts
  <2>2. Ints(c, m + 1)
    BY <1>2, CoefficientInts
  <2>3. Horner(c, m + 1, v) = Horner(b, m, v)
    BY <1>1, <1>2, <1>3, <2>1, <2>2, ZeroTop
  <2> QED BY <1>1, <2>3 DEF Agrees
<1>5. Agrees(f, b, d)
  BY <1>4 DEF Agrees, m
<1>6. b[d] \in Int
  BY <1>3
<1> QED BY <1>3, <1>5, <1>6 DEF IsPoly

\* The argument times a polynomial.
LEMMA TimesArgument ==
  ASSUME NEW d \in Nat, NEW l \in Int, NEW f, IsPoly(f, d, l), NEW g,
         \A v \in Scalar : g[v] \in Int /\ g[v] - v * f[v] \in Multiples
  PROVE  IsPoly(g, d + 1, l)
<1>1. PICK c \in [0 .. d -> Int] : c[d] = l /\ Agrees(f, c, d)
  BY DEF IsPoly
<1> DEFINE m == d + 1
           b == [j \in 0 .. m |-> IF j = 0 THEN 0 ELSE c[j - 1]]
<1>2. m \in Nat /\ m \in 0 .. m /\ m - 1 = d /\ \A j \in 0 .. m : j # 0 => j - 1 \in 0 .. d
  OBVIOUS
<1>3. b \in [0 .. m -> Int] /\ b[m] = l /\ b[0] = 0 /\ \A j \in 1 .. m : b[j] = c[j - 1]
  BY <1>1, <1>2
<1>4. Ints(c, m) /\ Ints(b, m + 1) /\ m + 1 \in Nat
  <2>1. Ints(c, m)
    BY CoefficientInts
  <2>2. Ints(b, m + 1) /\ m + 1 \in Nat
    <3> HIDE DEF b, m
    <3> QED BY <1>2, <1>3, CoefficientInts
  <2> QED BY <2>1, <2>2
<1>5. SharesTop(b, m + 1, c, m, m)
  <2>1. ASSUME NEW k \in 1 .. m PROVE b[(m + 1) - k] = c[m - k]
    <3>1. (m + 1) - k \in 1 .. m /\ ((m + 1) - k) - 1 = m - k
      OBVIOUS
    <3> HIDE DEF b, m
    <3> QED BY <1>3, <3>1
  <2>2. m \in 0 .. m /\ m \in 0 .. m + 1
    OBVIOUS
  <2> HIDE DEF b, m
  <2> QED BY <2>1, <2>2 DEF SharesTop
<1> HIDE DEF b, m
<1>6. ASSUME NEW v \in Scalar PROVE g[v] - Horner(b, m + 1, v) \in Multiples
  <2> DEFINE h == Horner(c, m, v)
             e == Horner(b, m + 1, v)
             fv == f[v]
             gv == g[v]
  <2>1. v \in Int
    BY ScalarsAreInts
  <2> DEFINE q == m + 1
  <2>2. \A k \in 0 .. m : HornerLoop(b, q, v)[k] = HornerLoop(c, m, v)[k]
    <3>1. Ints(b, q) /\ q \in Nat /\ SharesTop(b, q, c, m, m)
      BY <1>4, <1>5
    <3> HIDE DEF q
    <3> QED BY <1>2, <1>4, <2>1, <3>1, HornerTop
  <2>3. HornerLoop(b, q, v)[m] = h
    BY <1>2, <2>2 DEF Horner
  <2>4. m \in 0 .. q - 1 /\ q - (m + 1) = 0
    BY <1>2
  <2>5. Turned(HornerLoop(b, q, v)[m + 1], b[q - (m + 1)], v, HornerLoop(b, q, v)[m])
    <3>1. Ints(b, q) /\ q \in Nat
      BY <1>4
    <3> HIDE DEF q
    <3> QED BY <2>1, <2>4, <3>1, Turns
  <2>6. Turned(e, 0, v, h)
    BY <1>3, <2>3, <2>4, <2>5 DEF Horner
  <2>7. fv \in Int /\ fv - h \in Multiples
    BY <1>1 DEF Agrees, m
  <2>8. gv \in Int /\ gv - v * fv \in Multiples
    OBVIOUS
  <2>9. h \in Int /\ e \in Int
    <3>1. m \in 0 .. m /\ q \in 0 .. q
      BY <1>2
    <3>2. h \in Int
      BY <1>2, <1>4, <2>1, <3>1, HornerFacts DEF Horner
    <3>3. e \in Int
      BY <1>4, <2>1, <3>1, HornerFacts DEF Horner
    <3> QED BY <3>2, <3>3
  <2> HIDE DEF h, e, fv, gv
  <2> DEFINE p1 == gv - v * fv
             p2 == e - (0 + v * h)
             p3 == fv - h
  <2>10. gv - e = (p1 + p3 * v) - p2
    BY <2>1, <2>7, <2>8, <2>9
  <2>11. p1 \in Multiples /\ p2 \in Multiples /\ p3 \in Multiples
    BY <2>6, <2>7, <2>8 DEF Turned
  <2> HIDE DEF p1, p2, p3
  <2>12. p1 + p3 * v \in Multiples
    BY <2>1, <2>11, MultiplesCombine
  <2>13. gv - e \in Multiples
    BY <2>10, <2>11, <2>12, MultiplesClosed
  <2> QED BY <2>13 DEF gv, e
<1>7. Agrees(g, b, m)
  BY <1>6 DEF Agrees
<1>8. IsPoly(g, m, l)
  BY <1>3, <1>7 DEF IsPoly
<1> QED BY <1>8 DEF m

\* A linear factor.
LEMMA TimesLinear ==
  ASSUME NEW d \in Nat, NEW l \in Int, NEW f, IsPoly(f, d, l), NEW u \in Int, NEW w \in Int, NEW g,
         \A v \in Scalar : g[v] \in Int /\ g[v] - (u * v + w) * f[v] \in Multiples
  PROVE  IsPoly(g, d + 1, u * l)
<1> DEFINE h == [v \in Scalar |-> v * f[v]]
           m == d + 1
<1>1. \A v \in Scalar : f[v] \in Int /\ v \in Int
  BY ScalarsAreInts DEF IsPoly, Agrees
<1>2. ASSUME NEW v \in Scalar PROVE h[v] \in Int /\ h[v] - v * f[v] \in Multiples
  <2> DEFINE z == v * f[v]
  <2>1. z \in Int /\ h[v] = z
    BY <1>1
  <2> HIDE DEF z
  <2>2. z - z = 0
    BY <2>1
  <2> QED BY <2>1, <2>2, ZeroIsMultiple DEF z
<1>3. \A v \in Scalar : h[v] = v * f[v]
  OBVIOUS
<1> HIDE DEF h
<1>4. IsPoly(h, m, l)
  BY <1>2, TimesArgument
<1>5. IsPoly(f, m, 0) /\ m \in Nat
  BY Raised
<1>6. ASSUME NEW v \in Scalar PROVE g[v] \in Int /\ Mixed(g[v], u, h[v], w, f[v])
  <2> DEFINE fv == f[v]
             gv == g[v]
  <2>1. fv \in Int /\ v \in Int /\ gv \in Int /\ gv - (u * v + w) * fv \in Multiples /\ h[v] = v * fv
    BY <1>1, <1>3
  <2> HIDE DEF fv, gv
  <2>2. (u * v + w) * fv = u * (v * fv) + w * fv
    BY <2>1
  <2>3. gv - (u * (v * fv) + w * fv) \in Multiples
    BY <2>1, <2>2
  <2> QED BY <2>1, <2>3 DEF Mixed, fv, gv
<1> HIDE DEF m
<1>7. IsPoly(g, m, u * l + w * 0)
  BY <1>4, <1>5, <1>6, IsCombination
<1>8. u * l + w * 0 = u * l
  OBVIOUS
<1> QED BY <1>7, <1>8 DEF m

LEMMA RaisedTo ==
  ASSUME NEW d \in Nat, NEW l, NEW f, IsPoly(f, d, l), NEW e \in Nat
  PROVE  IsPoly(f, d + e + 1, 0)
<1> DEFINE S == {k \in 0 .. e : IsPoly(f, d + k + 1, 0)}
<1>1. 0 \in S
  <2>1. d + 0 + 1 = d + 1
    OBVIOUS
  <2> QED BY <2>1, Raised
<1>2. ASSUME NEW k \in 0 .. e - 1, k \in S PROVE k + 1 \in S
  <2> DEFINE j == d + k + 1
  <2>1. j \in Nat /\ d + (k + 1) + 1 = j + 1 /\ k + 1 \in 0 .. e
    OBVIOUS
  <2>2. IsPoly(f, j, 0)
    BY <1>2
  <2> HIDE DEF j
  <2>3. IsPoly(f, j + 1, 0)
    BY <2>1, <2>2, Raised
  <2> QED BY <2>1, <2>3
<1>3. \A k \in 0 .. e : k \in S
  <2> HIDE DEF S
  <2> QED BY <1>1, <1>2, UpTo
<1> QED BY <1>3

-----------------------------------------------------------------------------
(* A polynomial has no more roots than its degree. *)

\* The roots of the polynomial with the coefficients c.
RootsOf(c, m) == {v \in Scalar : Horner(c, m, v) \in Multiples}

LEMMA ScalarsFinite ==
  ASSUME NEW S, S \subseteq Scalar
  PROVE  IsFiniteSet(S) /\ Cardinality(S) \in Nat
<1>1. IsFiniteSet(Scalar)
  BY OrderFacts, FS_Interval DEF Scalar
<1>2. IsFiniteSet(S)
  BY <1>1, FS_Subset
<1> QED BY <1>2, FS_CardinalityType

LEMMA NoRoots ==
  ASSUME NEW c \in [0 .. 0 -> Int], c[0] \notin Multiples
  PROVE  RootsOf(c, 1) = {}
<1> SUFFICES ASSUME NEW v \in Scalar, Horner(c, 1, v) \in Multiples PROVE FALSE
  BY DEF RootsOf
<1>1. v \in Int /\ 0 + 1 = 1 /\ c[0] \in Int
  BY ScalarsAreInts
<1>2. Ints(c, 0 + 1)
  BY <1>1 DEF Ints
<1>3. Horner(c, 1, v) = c[0] % Order
  BY <1>1, <1>2, HornerFirst DEF Horner
<1>4. c[0] % Order \in Int /\ (c[0] % Order) - c[0] \in Multiples
  BY <1>1, ReducedBy
<1> QED BY <1>1, <1>3, <1>4, MultipleNear

\* Dividing by a root removes only that root.
LEMMA OneRootLess ==
  ASSUME NEW d \in Nat, NEW c \in [0 .. d + 1 -> Int], c[d + 1] \notin Multiples,
         NEW r \in RootsOf(c, (d + 1) + 1)
  PROVE  \E b \in [0 .. d -> Int] : /\ b[d] \notin Multiples
                                    /\ RootsOf(c, (d + 1) + 1) \subseteq RootsOf(b, d + 1) \cup {r}
<1> DEFINE m == d + 1
           b == Deflated(c, m, r)
<1>1. m \in Nat /\ m - 1 = d /\ m + 1 \in Nat /\ 0 \in 0 .. m - 1 /\ 0 + 1 = 1 /\ m - (0 + 1) = d
  OBVIOUS
<1>2. r \in Scalar /\ r \in Int /\ Horner(c, m + 1, r) \in Multiples
  BY ScalarsAreInts DEF RootsOf
<1>3. Ints(c, m + 1) /\ c[m] \in Int
  BY <1>1, CoefficientInts
<1> HIDE DEF m
<1>4. b \in [0 .. m - 1 -> Scalar] /\ Ints(b, m) /\ b[m - (0 + 1)] = HornerLoop(c, m + 1, r)[0 + 1]
  <2>1. b \in [0 .. m - 1 -> Scalar] /\ Ints(b, m)
    BY <1>1, <1>2, <1>3, DeflatedType
  <2>2. \A k \in 0 .. m - 1 : b[m - (k + 1)] = HornerLoop(c, m + 1, r)[k + 1]
    <3>1. m \in Nat /\ r \in Int
      BY <1>1, <1>2
    <3>2. Ints(c, m + 1)
      BY <1>3
    <3>3. \A k \in 0 .. m - 1 : Deflated(c, m, r)[m - (k + 1)] = HornerLoop(c, m + 1, r)[k + 1]
      <4> HIDE DEF b
      <4>1. m \in Nat
        BY <3>1
      <4>2. r \in Int
        BY <3>1
      <4> QED BY ONLY <3>2, <4>1, <4>2, DeflatedType
    <3> QED BY <3>3, Zenon
  <2> QED BY <1>1, <2>1, <2>2
<1>5. HornerLoop(c, m + 1, r)[1] = c[m] % Order
  BY <1>1, <1>2, <1>3, HornerFirst
<1> HIDE DEF b
<1>6. b \in [0 .. d -> Int] /\ b[d] \notin Multiples
  <2>1. b \in [0 .. d -> Int]
    BY <1>1, <1>4, ScalarsAreInts
  <2>2. b[d] = c[m] % Order
    BY <1>1, <1>4, <1>5
  <2>3. c[m] % Order \in Int /\ (c[m] % Order) - c[m] \in Multiples
    BY <1>3, ReducedBy
  <2>4. c[m] \notin Multiples
    BY DEF m
  <2> QED BY <1>3, <2>1, <2>2, <2>3, <2>4, MultipleNear
<1>7. ASSUME NEW v \in RootsOf(c, m + 1), v # r PROVE v \in RootsOf(b, m)
  <2> DEFINE h == Horner(b, m, v)
             h1 == Horner(c, m + 1, v)
             h0 == Horner(c, m + 1, r)
             u == v - r
             e == u * h
             g == h1 - h0
  <2>1. v \in Scalar /\ v \in Int /\ h1 \in Multiples /\ h0 \in Multiples
    BY <1>2, ScalarsAreInts DEF RootsOf
  <2>2. Divided(h, v, r, h1, h0)
    BY <1>1, <1>2, <1>3, <2>1, FactorTheorem DEF b
  <2>3. h \in Int
    <3>1. m \in 0 .. m
      BY <1>1
    <3> QED BY <1>1, <1>4, <2>1, <3>1, HornerFacts DEF Horner
  <2> HIDE DEF h, h1, h0
  <2>4. u \in Int /\ e \in Int /\ g \in Int /\ g \in Multiples
    <3>1. g \in Multiples
      BY <2>1, MultiplesClosed
    <3>2. u \in Int
      BY <1>2, <2>1
    <3>3. e \in Int
      <4> HIDE DEF u
      <4> QED BY <2>3, <3>2
    <3> QED BY <3>1, <3>2, <3>3, MultiplesAreInts
  <2>5. e - g \in Multiples
    BY <2>2 DEF Divided
  <2>6. e \in Multiples
    <3> HIDE DEF e, g
    <3> QED BY <2>4, <2>5, MultipleNear
  <2>7. u \notin Multiples
    BY <1>2, <1>7, <2>1, ScalarsSame
  <2>8. h \in Multiples
    <3> HIDE DEF u
    <3> QED BY <2>3, <2>4, <2>6, <2>7, MultiplePrime
  <2> QED BY <2>1, <2>8 DEF RootsOf, h
<1>8. RootsOf(c, m + 1) \subseteq RootsOf(b, m) \cup {r}
  BY <1>7
<1> QED BY <1>6, <1>8 DEF m

\* No more roots than the degree.
LEMMA RootBound ==
  ASSUME NEW d \in Nat, NEW l, l \notin Multiples, NEW f, IsPoly(f, d, l)
  PROVE  Cardinality(Roots(f)) <= d
<1> DEFINE S == {k \in 0 .. d : \A c \in [0 .. k -> Int] :
                     c[k] \notin Multiples => Cardinality(RootsOf(c, k + 1)) <= k}
<1>1. 0 \in S
  <2>1. ASSUME NEW c \in [0 .. 0 -> Int], c[0] \notin Multiples PROVE Cardinality(RootsOf(c, 0 + 1)) <= 0
    <3>1. RootsOf(c, 1) = {} /\ 0 + 1 = 1
      BY <2>1, NoRoots
    <3> QED BY <3>1, FS_EmptySet
  <2> QED BY <2>1
<1>2. ASSUME NEW k \in 0 .. d - 1, k \in S PROVE k + 1 \in S
  <2> DEFINE m == k + 1
  <2>1. k \in Nat /\ m \in Nat /\ m \in 0 .. d
    OBVIOUS
  <2>2. ASSUME NEW c \in [0 .. m -> Int], c[m] \notin Multiples PROVE Cardinality(RootsOf(c, m + 1)) <= m
    <3> DEFINE R == RootsOf(c, m + 1)
    <3>1. CASE R = {}
      <4>1. Cardinality(R) = 0
        BY <3>1, FS_EmptySet
      <4> QED BY <2>1, <4>1
    <3>2. ASSUME NEW r \in R PROVE Cardinality(R) <= m
      <4>1. PICK b \in [0 .. k -> Int] : b[k] \notin Multiples /\ R \subseteq RootsOf(b, k + 1) \cup {r}
        BY <2>1, <2>2, <3>2, OneRootLess
      <4> DEFINE Q == RootsOf(b, k + 1)
                 T == Q \cup {r}
      <4>2. Cardinality(Q) <= k
        BY <1>2, <4>1
      <4>3. IsFiniteSet(Q) /\ Cardinality(Q) \in Nat
        <5>1. Q \subseteq Scalar
          BY DEF RootsOf
        <5> HIDE DEF Q
        <5> QED BY <5>1, ScalarsFinite
      <4>4. R \subseteq T
        BY <4>1
      <4> HIDE DEF Q, R
      <4>5. IsFiniteSet(T) /\ (Cardinality(T) = Cardinality(Q) \/ Cardinality(T) = Cardinality(Q) + 1)
        BY <4>3, FS_AddElement
      <4>6. Cardinality(R) <= Cardinality(T)
        <5> HIDE DEF T
        <5> QED BY <4>4, <4>5, FS_Subset
      <4>7. IsFiniteSet(R)
        <5> HIDE DEF T
        <5> QED BY <4>4, <4>5, FS_Subset
      <4>8. Cardinality(R) \in Nat /\ Cardinality(T) \in Nat
        <5> HIDE DEF T
        <5> QED BY <4>5, <4>7, FS_CardinalityType
      <4> HIDE DEF T
      <4> QED BY <2>1, <4>2, <4>3, <4>5, <4>6, <4>8
    <3> QED BY <3>1, <3>2
  <2>3. m \in S
    BY <2>1, <2>2
  <2> QED BY <2>3
<1>3. d \in S
  <2>1. \A k \in 0 .. d : k \in S
    <3> HIDE DEF S
    <3> QED BY <1>1, <1>2, UpTo
  <2> QED BY <2>1
<1>4. PICK c \in [0 .. d -> Int] : c[d] = l /\ Agrees(f, c, d)
  BY DEF IsPoly
<1>5. Cardinality(RootsOf(c, d + 1)) <= d
  BY <1>3, <1>4
<1>6. ASSUME NEW v \in Scalar PROVE f[v] \in Multiples <=> Horner(c, d + 1, v) \in Multiples
  <2>1. v \in Int
    BY ScalarsAreInts
  <2>2. Horner(c, d + 1, v) \in Int
    BY <2>1, CoefficientInts
  <2>3. f[v] \in Int /\ f[v] - Horner(c, d + 1, v) \in Multiples
    BY <1>4 DEF Agrees
  <2> QED BY <2>2, <2>3, MultipleNear
<1>7. Roots(f) = RootsOf(c, d + 1)
  BY <1>6 DEF Roots, RootsOf
<1> QED BY <1>5, <1>7

\* A polynomial that is zero at 0, ..., d is zero.
LEMMA Vanishing ==
  ASSUME NEW d \in Nat, d < Order, NEW l \in Int, NEW f, IsPoly(f, d, l), \A v \in 0 .. d : f[v] \in Multiples
  PROVE  \A v \in Scalar : f[v] \in Multiples
<1> DEFINE S == {k \in 0 .. d : \A j \in Int :
                     IsPoly(f, k, j) /\ (\A v \in 0 .. k : f[v] \in Multiples)
                       => \A v \in Scalar : f[v] \in Multiples}
<1>1. ASSUME NEW k \in 0 .. d, NEW j \in Int, IsPoly(f, k, j), \A v \in 0 .. k : f[v] \in Multiples
      PROVE  j \in Multiples
  <2> SUFFICES ASSUME j \notin Multiples PROVE FALSE
    OBVIOUS
  <2>1. Cardinality(Roots(f)) <= k
    BY <1>1, RootBound
  <2>2. 0 .. k \subseteq Roots(f)
    BY <1>1, OrderFacts DEF Roots, Scalar
  <2>3. IsFiniteSet(Roots(f)) /\ Cardinality(Roots(f)) \in Nat
    <3>1. Roots(f) \subseteq Scalar
      BY DEF Roots
    <3> QED BY <3>1, ScalarsFinite
  <2>4. Cardinality(0 .. k) = k + 1
    <3>1. k \in Int /\ 0 \in Int /\ 0 <= k /\ k - 0 + 1 = k + 1
      OBVIOUS
    <3>2. Cardinality(0 .. k) = IF 0 > k THEN 0 ELSE k - 0 + 1
      BY <3>1, FS_Interval
    <3> QED BY <3>1, <3>2
  <2>5. Cardinality(0 .. k) <= Cardinality(Roots(f))
    BY <2>2, <2>3, FS_Subset
  <2> QED BY <2>1, <2>3, <2>4, <2>5
<1>2. 0 \in S
  <2>1. ASSUME NEW j \in Int, IsPoly(f, 0, j), \A v \in 0 .. 0 : f[v] \in Multiples, NEW v \in Scalar
        PROVE  f[v] \in Multiples
    <3>1. j \in Multiples
      BY <1>1, <2>1
    <3>2. PICK c \in [0 .. 0 -> Int] : c[0] = j /\ Agrees(f, c, 0)
      BY <2>1 DEF IsPoly
    <3>3. v \in Int /\ 0 + 1 = 1 /\ Ints(c, 0 + 1)
      <4>1. v \in Int
        BY ScalarsAreInts
      <4> QED BY <4>1 DEF Ints
    <3>4. Horner(c, 0 + 1, v) = j % Order
      BY <3>2, <3>3, HornerFirst DEF Horner
    <3>5. Horner(c, 0 + 1, v) \in Multiples
      BY <3>1, <3>4, ZeroIsMultiple DEF Multiples
    <3> QED BY <3>2, <3>5, MultipleNear, MultiplesAreInts DEF Agrees
  <2> QED BY <2>1
<1>3. ASSUME NEW k \in 0 .. d - 1, k \in S PROVE k + 1 \in S
  <2> DEFINE m == k + 1
  <2>1. k \in Nat /\ m \in 0 .. d /\ \A v \in 0 .. k : v \in 0 .. m
    OBVIOUS
  <2>2. ASSUME NEW j \in Int, IsPoly(f, m, j), \A v \in 0 .. m : f[v] \in Multiples
        PROVE  \A v \in Scalar : f[v] \in Multiples
    <3>1. j \in Multiples
      BY <1>1, <2>1, <2>2
    <3>2. PICK e \in Int : IsPoly(f, k, e)
      BY <2>1, <2>2, <3>1, Dropped
    <3>3. \A v \in 0 .. k : f[v] \in Multiples
      BY <2>1, <2>2
    <3> QED BY <1>3, <3>2, <3>3
  <2>3. m \in S
    BY <2>1, <2>2
  <2> QED BY <2>3
<1>4. d \in S
  <2>1. \A k \in 0 .. d : k \in S
    <3> HIDE DEF S
    <3> QED BY <1>2, <1>3, UpTo
  <2> QED BY <2>1
<1> QED BY <1>4

-----------------------------------------------------------------------------
(* Sums and products of polynomials. *)

LEMMA DifferOnce ==
  ASSUME NEW v \in Int
  PROVE  v - v \in Multiples
<1>1. v - v = 0
  OBVIOUS
<1> QED BY <1>1, ZeroIsMultiple

\* The powers, and Horner itself.
LEMMA PowIsPoly ==
  ASSUME NEW m \in Nat, NEW f, \A v \in Scalar : f[v] = Pow(v, m)
  PROVE  IsPoly(f, m, 1)
<1> DEFINE P(k) == [v \in Scalar |-> Pow(v, k)]
           S == {k \in 0 .. m : IsPoly(P(k), k, 1)}
<1>1. 0 \in S
  <2>1. \A v \in Scalar : P(0)[v] = 1
    BY PowFacts, ScalarsAreInts
  <2> DEFINE g == P(0)
  <2> HIDE DEF g
  <2>2. IsPoly(g, 0, 1)
    BY <2>1, IsConstant DEF g
  <2> QED BY <2>2 DEF g
<1>2. ASSUME NEW k \in 0 .. m - 1, k \in S PROVE k + 1 \in S
  <2> DEFINE l == k + 1
             g == P(k)
             h == P(l)
  <2>1. k \in Nat /\ l \in 0 .. m /\ 1 * 1 = 1
    OBVIOUS
  <2>2. IsPoly(g, k, 1)
    BY <1>2
  <2>3. ASSUME NEW v \in Scalar PROVE h[v] \in Int /\ h[v] - (1 * v + 0) * g[v] \in Multiples
    <3>1. v \in Int
      BY ScalarsAreInts
    <3> DEFINE p == Pow(v, k)
               q == p * v
    <3>2. p \in Int /\ Pow(v, k + 1) = q % Order
      BY <2>1, <3>1, PowFacts
    <3>3. h[v] = Pow(v, k + 1) /\ g[v] = p
      OBVIOUS
    <3> HIDE DEF p, h, g
    <3>4. q \in Int /\ (1 * v + 0) * p = q
      BY <3>1, <3>2
    <3> HIDE DEF q
    <3>5. q % Order \in Int /\ (q % Order) - q \in Multiples
      BY <3>4, ReducedBy
    <3> QED BY <3>2, <3>3, <3>4, <3>5
  <2> HIDE DEF g, h
  <2>4. IsPoly(h, k + 1, 1 * 1)
    <3>1. 1 \in Int /\ 0 \in Int
      OBVIOUS
    <3> QED BY <2>1, <2>2, <2>3, <3>1, TimesLinear
  <2>5. IsPoly(h, k + 1, 1)
    BY <2>1, <2>4
  <2>6. IsPoly(P(k + 1), k + 1, 1)
    BY <2>5 DEF h
  <2> HIDE DEF P
  <2> QED BY <2>1, <2>6
<1>3. m \in S
  <2>1. \A k \in 0 .. m : k \in S
    <3> HIDE DEF S
    <3> QED BY <1>1, <1>2, UpTo
  <2>2. m \in 0 .. m
    OBVIOUS
  <2> QED BY <2>1, <2>2, Zenon
<1>4. IsPoly(P(m), m, 1)
  BY <1>3
<1>5. \A v \in Scalar : P(m)[v] = f[v]
  OBVIOUS
<1> HIDE DEF P
<1> QED BY <1>4, <1>5 DEF IsPoly, Agrees

LEMMA HornerIsPoly ==
  ASSUME NEW d \in Nat, NEW c \in [0 .. d -> Int], NEW f, \A v \in Scalar : f[v] = Horner(c, d + 1, v)
  PROVE  IsPoly(f, d, c[d])
<1>1. ASSUME NEW v \in Scalar PROVE f[v] \in Int /\ f[v] - Horner(c, d + 1, v) \in Multiples
  <2>1. v \in Int
    BY ScalarsAreInts
  <2>2. Horner(c, d + 1, v) \in Int
    BY <2>1, CoefficientInts
  <2> QED BY <2>2, DifferOnce
<1>2. Agrees(f, c, d)
  BY <1>1 DEF Agrees
<1> QED BY <1>2 DEF IsPoly

\* The powers of c, one by one.
LEMMA TermsSum ==
  ASSUME NEW m \in Nat, NEW e, Ints(e, m), NEW v \in Int, NEW w, Ints(w, m),
         \A j \in 0 .. m - 1 : w[j] + Pow(v, j) * e[j] \in Multiples
  PROVE  ScalarSum(w, m) + Horner(e, m, v) \in Multiples
<1> DEFINE h == HornerLoop(e, m, v)
           T(k) == ScalarSum(w, k)
           S == {k \in 0 .. m : Pow(v, m - k) * h[k] + T(m) - T(m - k) \in Multiples}
<1>1. m \in 0 .. m /\ 0 \in 0 .. m
  OBVIOUS
<1>2. \A k \in 0 .. m : T(k) \in Int
  BY SumFacts
<1>3. \A k \in 0 .. m : h[k] \in Int
  BY HornerFacts
<1>4. h[0] = 0
  BY HornerFacts
<1>5. 0 \in S
  <2>1. m - 0 = m /\ Pow(v, m) \in Int /\ T(m) \in Int
    BY <1>1, <1>2, PowFacts
  <2> DEFINE p == Pow(v, m)
             u == T(m)
  <2> HIDE DEF p, u
  <2>2. p * 0 + u - u = 0
    BY <2>1 DEF p, u
  <2> QED BY <1>1, <1>4, <2>1, <2>2, ZeroIsMultiple DEF p, u
<1>6. ASSUME NEW k \in 0 .. m - 1, k \in S PROVE k + 1 \in S
  <2> DEFINE l == k + 1
             q == m - l
             p1 == Pow(v, q)
             p2 == Pow(v, q + 1)
             h1 == h[l]
             h0 == h[k]
             t1 == T(q + 1)
             t0 == T(q)
             tm == T(m)
             wq == w[q]
             eq == e[q]
  <2>1. q \in 0 .. m - 1 /\ q \in Nat /\ q + 1 = m - k /\ l \in 0 .. m /\ q \in 0 .. m /\ q + 1 \in 0 .. m /\ k \in 0 .. m
    OBVIOUS
  <2>2. p2 * h0 + tm - t1 \in Multiples
    BY <1>6, <2>1
  <2>3. h1 \in Int /\ h0 \in Int /\ t1 \in Int /\ t0 \in Int /\ tm \in Int
    BY <1>1, <1>2, <1>3, <2>1
  <2>4. Turned(h1, eq, v, h0) /\ eq \in Int
    BY Turns
  <2>5. wq \in Int /\ t1 - (t0 + wq) \in Multiples
    BY <2>1, SumTurn
  <2>6. p1 \in Int /\ p2 \in Int /\ p2 = (p1 * v) % Order
    <3> HIDE DEF q
    <3>1. q \in Nat /\ q + 1 \in Nat
      BY <2>1
    <3>2. Pow(v, q) \in Int /\ Pow(v, q + 1) = (Pow(v, q) * v) % Order
      BY <3>1, PowFacts
    <3>3. Pow(v, q + 1) \in Int
      BY <3>1, PowFacts
    <3> QED BY <3>2, <3>3
  <2>7. wq + p1 * eq \in Multiples
    BY <2>1
  <2>8. p2 - p1 * v \in Multiples
    <3> DEFINE z == p1 * v
    <3>1. z \in Int /\ p2 = z % Order
      BY <2>6
    <3> HIDE DEF z, p1, p2
    <3>2. p2 - z \in Multiples
      BY <3>1, ReducedBy
    <3> QED BY <3>2 DEF z
  <2> HIDE DEF p1, p2, h1, h0, t1, t0, tm, wq, eq, l, q
  <2> DEFINE d1 == p2 * h0 + tm - t1
             d2 == h1 - (eq + v * h0)
             d3 == t1 - (t0 + wq)
             d4 == wq + p1 * eq
             d5 == p2 - p1 * v
  <2>9. p1 * h1 + tm - t0 = ((d1 + d3) + d4) + (d2 * p1 - d5 * h0)
    BY <2>3, <2>4, <2>5, <2>6
  <2>10. d1 \in Multiples /\ d2 \in Multiples /\ d3 \in Multiples /\ d4 \in Multiples /\ d5 \in Multiples
    BY <2>2, <2>4, <2>5, <2>7, <2>8 DEF Turned
  <2> HIDE DEF d1, d2, d3, d4, d5
  <2>11. d1 + d3 \in Multiples
    BY <2>10, MultiplesClosed
  <2>12. (d1 + d3) + d4 \in Multiples
    <3> DEFINE z == d1 + d3
    <3> HIDE DEF z
    <3>1. z + d4 \in Multiples
      BY <2>10, <2>11, MultiplesClosed DEF z
    <3> QED BY <3>1 DEF z
  <2>13. d2 * p1 \in Multiples /\ d5 * h0 \in Multiples
    BY <2>3, <2>6, <2>10, MultiplesTimes
  <2> DEFINE z1 == (d1 + d3) + d4
             z2 == d2 * p1
             z3 == d5 * h0
  <2>14. z1 + (z2 - z3) \in Multiples
    <3> HIDE DEF z1, z2, z3
    <3>1. z2 - z3 \in Multiples
      BY <2>13, MultiplesClosed DEF z2, z3
    <3> DEFINE z4 == z2 - z3
    <3> HIDE DEF z4
    <3>2. z1 + z4 \in Multiples
      BY <2>12, <3>1, MultiplesClosed DEF z1, z4
    <3> QED BY <3>2 DEF z4
  <2>15. p1 * h1 + tm - t0 \in Multiples
    BY <2>9, <2>14
  <2> QED BY <2>1, <2>15 DEF p1, h1, tm, t0, q, l
<1>7. m \in S
  <2>1. \A k \in 0 .. m : k \in S
    <3> HIDE DEF S
    <3> QED BY <1>5, <1>6, UpTo
  <2> QED BY <2>1
<1>8. Pow(v, m - m) * h[m] + T(m) - T(m - m) \in Multiples
  BY <1>7
<1>9. m - m = 0 /\ Pow(v, 0) = 1 /\ T(0) = 0
  BY PowFacts, SumFacts
<1>10. T(m) \in Int /\ h[m] \in Int
  BY <1>1, <1>2, <1>3
<1> DEFINE tm == T(m)
           hm == h[m]
<1>11. 1 * hm + tm - 0 \in Multiples
  BY <1>8, <1>9
<1> HIDE DEF tm, hm
<1>12. tm + hm = 1 * hm + tm - 0
  BY <1>10 DEF tm, hm
<1> QED BY <1>11, <1>12 DEF tm, hm, Horner

\* Vectors whose entries depend on the argument.
ColumnPoly(F, k, d, l) == IsPoly([v \in Scalar |-> F[v][k]], d, l)
Columns(F, m) == \A v \in Scalar : Ints(F[v], m)

\* A sum of polynomials of which one only has a leading coefficient.
LEMMA OneLeads ==
  ASSUME NEW m \in Nat, NEW F, Columns(F, m), NEW d \in Nat, NEW p \in 0 .. m - 1, NEW l \in Int,
         \A k \in 0 .. m - 1 : ColumnPoly(F, k, d, IF k = p THEN l ELSE 0),
         NEW f, \A v \in Scalar : f[v] = ScalarSum(F[v], m)
  PROVE  IsPoly(f, d, l)
<1> DEFINE P(k) == [v \in Scalar |-> ScalarSum(F[v], k)]
           L(k) == IF p < k THEN l ELSE 0
           S == {k \in 0 .. m : IsPoly(P(k), d, L(k))}
<1>1. 0 \in S
  <2>1. \A v \in Scalar : P(0)[v] = 0
    BY SumFacts DEF Columns
  <2> DEFINE g == P(0)
  <2>2. \A v \in Scalar : g[v] = 0
    BY <2>1
  <2> HIDE DEF g
  <2>3. 0 \in Int
    OBVIOUS
  <2>4. IsPoly(g, 0, 0)
    BY <2>2, <2>3, IsConstant
  <2>5. IsPoly(g, d, 0)
    <3>1. CASE d = 0
      BY <2>4, <3>1
    <3>2. CASE d # 0
      <4> DEFINE e == d - 1
      <4>1. e \in Nat /\ 0 + e + 1 = d /\ 0 \in Nat
        BY <3>2
      <4>2. IsPoly(g, 0 + e + 1, 0)
        <5> HIDE DEF e
        <5> QED BY <2>4, <4>1, RaisedTo
      <4> QED BY <4>1, <4>2
    <3> QED BY <3>1, <3>2
  <2>6. L(0) = 0 /\ 0 \in 0 .. m
    OBVIOUS
  <2>7. IsPoly(P(0), d, L(0))
    BY <2>5, <2>6 DEF g
  <2> HIDE DEF P, L
  <2> QED BY <2>6, <2>7
<1>2. ASSUME NEW k \in 0 .. m - 1, k \in S PROVE k + 1 \in S
  <2> DEFINE j == k + 1
             g == P(k)
             h == P(j)
             e == [v \in Scalar |-> F[v][k]]
             lk == IF k = p THEN l ELSE 0
             l0 == L(k)
             l1 == L(j)
  <2>1. j \in 0 .. m /\ lk \in Int /\ l0 \in Int /\ l1 = 1 * l0 + 1 * lk
    <3>1. k < p \/ k = p \/ k > p
      OBVIOUS
    <3>2. p < k + 1 <=> p < k \/ k = p
      OBVIOUS
    <3> QED BY <3>1, <3>2
  <2>2. IsPoly(g, d, l0)
    BY <1>2
  <2>3. IsPoly(e, d, lk)
    BY DEF ColumnPoly
  <2>4. ASSUME NEW v \in Scalar PROVE h[v] \in Int /\ Mixed(h[v], 1, g[v], 1, e[v])
    <3> DEFINE s0 == ScalarSum(F[v], k)
               s1 == ScalarSum(F[v], k + 1)
               fk == F[v][k]
    <3>1. fk \in Int /\ s0 \in Int /\ s1 \in Int /\ s1 - (s0 + fk) \in Multiples
      BY SumTurn DEF Columns
    <3>2. h[v] = s1 /\ g[v] = s0 /\ e[v] = fk
      OBVIOUS
    <3> HIDE DEF s0, s1, fk, h, g, e
    <3>3. 1 * s0 + 1 * fk = s0 + fk
      BY <3>1
    <3> QED BY <3>1, <3>2, <3>3 DEF Mixed
  <2> HIDE DEF g, h, e, lk, l0, l1
  <2>5. IsPoly(h, d, 1 * l0 + 1 * lk)
    <3>1. 1 \in Int
      OBVIOUS
    <3> QED BY <2>1, <2>2, <2>3, <2>4, <3>1, IsCombination
  <2>6. IsPoly(h, d, l1)
    BY <2>1, <2>5
  <2>7. IsPoly(P(j), d, L(j))
    BY <2>6 DEF h, l1
  <2> HIDE DEF P, L
  <2> QED BY <2>1, <2>7
<1>3. m \in S
  <2>1. \A k \in 0 .. m : k \in S
    <3> HIDE DEF S
    <3> QED BY <1>1, <1>2, UpTo
  <2> QED BY <2>1
<1>4. IsPoly(P(m), d, L(m))
  BY <1>3
<1>5. L(m) = l
  OBVIOUS
<1>6. \A v \in Scalar : P(m)[v] = f[v]
  OBVIOUS
<1> HIDE DEF P, L
<1> QED BY <1>4, <1>5, <1>6 DEF IsPoly, Agrees

\* A product of linear factors.
Linear(F, u, w, m) ==
  \A v \in Scalar : \A j \in 0 .. m - 1 : F[v][j] - (u[j] * v + w[j]) \in Multiples

\* The product of linear columns has degree m, and a leading coefficient only if
\* all u_j are one.
LEMMA ProductIsPoly ==
  ASSUME NEW m \in Nat, NEW F, Columns(F, m), NEW u \in [0 .. m - 1 -> {0, 1}], NEW w, Ints(w, m),
         Linear(F, u, w, m), NEW f, \A v \in Scalar : f[v] = ScalarProduct(F[v], m)
  PROVE  IsPoly(f, m, IF \A j \in 0 .. m - 1 : u[j] = 1 THEN 1 ELSE 0)
<1> DEFINE P(k) == [v \in Scalar |-> ScalarProduct(F[v], k)]
           L(k) == IF \A j \in 0 .. k - 1 : u[j] = 1 THEN 1 ELSE 0
           S == {k \in 0 .. m : IsPoly(P(k), k, L(k))}
<1>1. 0 \in S
  <2>1. \A v \in Scalar : P(0)[v] = 1
    BY ProductFacts DEF Columns
  <2> DEFINE g == P(0)
  <2>2. \A v \in Scalar : g[v] = 1
    BY <2>1
  <2> HIDE DEF g
  <2>3. 1 \in Int
    OBVIOUS
  <2>4. IsPoly(g, 0, 1)
    BY <2>2, <2>3, IsConstant
  <2>5. L(0) = 1 /\ 0 \in 0 .. m
    OBVIOUS
  <2>6. IsPoly(P(0), 0, L(0))
    BY <2>4, <2>5 DEF g
  <2> HIDE DEF P, L
  <2> QED BY <2>5, <2>6
<1>2. ASSUME NEW k \in 0 .. m - 1, k \in S PROVE k + 1 \in S
  <2> DEFINE g == P(k)
             h == P(k + 1)
             l0 == L(k)
             l1 == L(k + 1)
             uk == u[k]
             wk == w[k]
  <2>1. k + 1 \in 0 .. m /\ uk \in {0, 1} /\ l0 \in {0, 1} /\ k \in Nat
    OBVIOUS
  <2>2. l1 = uk * l0
    <3>1. \A j \in 0 .. (k + 1) - 1 : j \in 0 .. k - 1 \/ j = k
      OBVIOUS
    <3>2. k \in 0 .. (k + 1) - 1 /\ \A j \in 0 .. k - 1 : j \in 0 .. (k + 1) - 1
      OBVIOUS
    <3>3. CASE uk = 1
      <4>1. l1 = l0
        BY <3>1, <3>2, <3>3
      <4>2. uk * l0 = l0
        BY <2>1, <3>3
      <4> QED BY <4>1, <4>2
    <3>4. CASE uk = 0
      <4>1. l1 = 0
        BY <3>2, <3>4
      <4>2. uk * l0 = 0
        BY <2>1, <3>4
      <4> QED BY <4>1, <4>2
    <3> QED BY <2>1, <3>3, <3>4
  <2>3. IsPoly(g, k, l0)
    BY <1>2
  <2>4. wk \in Int
    BY DEF Ints
  <2>5. ASSUME NEW v \in Scalar PROVE h[v] \in Int /\ h[v] - (uk * v + wk) * g[v] \in Multiples
    <3> DEFINE s0 == ScalarProduct(F[v], k)
               s1 == ScalarProduct(F[v], k + 1)
               fk == F[v][k]
    <3>1. fk \in Int /\ s0 \in Int /\ s1 \in Int /\ s1 - s0 * fk \in Multiples
      BY ProductTurn DEF Columns
    <3>2. h[v] = s1 /\ g[v] = s0 /\ v \in Int
      BY ScalarsAreInts
    <3>3. fk - (uk * v + wk) \in Multiples
      BY DEF Linear
    <3> HIDE DEF s0, s1, fk, h, g, uk, wk
    <3> DEFINE p1 == s1 - s0 * fk
               p2 == fk - (uk * v + wk)
    <3>4. s1 - (uk * v + wk) * s0 = p1 + p2 * s0
      BY <2>1, <2>4, <3>1, <3>2
    <3>5. p1 \in Multiples /\ p2 \in Multiples
      BY <3>1, <3>3
    <3> HIDE DEF p1, p2
    <3>6. p2 * s0 \in Multiples
      BY <3>1, <3>5, MultiplesTimes
    <3> DEFINE p3 == p2 * s0
    <3> HIDE DEF p3
    <3>7. p1 + p3 \in Multiples
      BY <3>5, <3>6, MultiplesClosed DEF p3
    <3> QED BY <3>1, <3>2, <3>4, <3>7 DEF p3
  <2>6. uk \in Int /\ l0 \in Int
    BY <2>1
  <2> HIDE DEF g, h, l0, l1, uk, wk
  <2>7. IsPoly(h, k + 1, uk * l0)
    BY <2>1, <2>3, <2>4, <2>5, <2>6, TimesLinear
  <2>8. IsPoly(P(k + 1), k + 1, L(k + 1))
    BY <2>2, <2>7 DEF h, l1
  <2> HIDE DEF P, L
  <2> QED BY <2>1, <2>8
<1>3. m \in S
  <2>1. \A k \in 0 .. m : k \in S
    <3> HIDE DEF S
    <3> QED BY <1>1, <1>2, UpTo
  <2>2. m \in 0 .. m
    OBVIOUS
  <2> QED BY <2>1, <2>2, Zenon
<1>4. IsPoly(P(m), m, L(m))
  BY <1>3
<1>5. \A v \in Scalar : P(m)[v] = f[v]
  OBVIOUS
<1> HIDE DEF P
<1> QED BY <1>4, <1>5 DEF IsPoly, Agrees

-----------------------------------------------------------------------------
(* interpolate as a state machine. *)

\* The strengthened invariant of Interpolation: the master polynomial and the
\* terms are what the loops have made of the points so far.
PolyIInv ==
  /\ n \in 0 .. MaxPoints /\ x \in [0 .. n - 1 -> Scalar] /\ y \in [0 .. n - 1 -> Scalar]
  /\ phase \in {"call", "master", "terms", "done", "panic"} /\ i \in 0 .. MaxPoints
  /\ phase \in {"master", "terms", "done"} => n # 0
  /\ phase = "master" => i \in 1 .. n /\ s = MasterLoop(x, n)[i - 1] /\ coeffs = [j \in 0 .. n - 1 |-> 0]
  /\ phase \in {"terms", "done"} => i \in 0 .. n /\ s = MasterLoop(x, n)[n - 1] /\ coeffs = TermLoop(x, y, n)[i]
  /\ phase = "done" => i = n

\* It holds in every state.
LEMMA PolyInv == PolySpec => []PolyIInv
<1>1. PolyInit => PolyIInv
  <2> SUFFICES ASSUME PolyInit PROVE PolyIInv
    OBVIOUS
  <2>1. n \in 0 .. MaxPoints /\ x \in [0 .. n - 1 -> Scalar] /\ y \in [0 .. n - 1 -> Scalar]
    BY BoundsAssumption DEF PolyInit, Vector
  <2>2. i = 0 /\ phase = "call" /\ 0 \in 0 .. MaxPoints
    BY BoundsAssumption DEF PolyInit
  <2> QED BY <2>1, <2>2 DEF PolyIInv
<1>2. PolyIInv /\ [PolyNext]_polyVars => PolyIInv'
  <2> SUFFICES ASSUME PolyIInv, [PolyNext]_polyVars PROVE PolyIInv'
    OBVIOUS
  <2>1. n \in 0 .. MaxPoints /\ MaxPoints \in Nat /\ x \in [0 .. n - 1 -> Scalar] /\ y \in [0 .. n - 1 -> Scalar]
    BY BoundsAssumption DEF PolyIInv
  <2>2. CASE Start
    <3>1. n' = n /\ x' = x /\ y' = y
      BY <2>2 DEF Start
    <3>2. CASE n = 0
      <4>1. phase' = "panic" /\ i' = i
        BY <2>2, <3>2 DEF Start
      <4> QED BY <3>1, <4>1 DEF PolyIInv
    <3>3. CASE n # 0
      <4>1. s' = MasterStart(n, x[0]) /\ coeffs' = [j \in 0 .. n - 1 |-> 0] /\ i' = 1 /\ phase' = "master"
        BY <2>2, <3>3 DEF Start
      <4>2. n \in Nat \ {0} /\ 1 \in 1 .. n /\ 1 - 1 = 0 /\ 1 \in 0 .. MaxPoints
        BY <2>1, <3>3
      <4>3. MasterLoop(x, n)[0] = MasterStart(n, x[0])
        BY <2>1, <4>2, MasterLoopFacts
      <4> QED BY <2>1, <3>1, <3>3, <4>1, <4>2, <4>3 DEF PolyIInv
    <3> QED BY <3>2, <3>3
  <2>3. CASE MasterStep
    <3>1. /\ n' = n /\ x' = x /\ y' = y /\ coeffs' = coeffs /\ phase' = phase /\ phase = "master" /\ i < n
          /\ s' = MasterTurn(s, n, i, x[i]) /\ i' = i + 1
      BY <2>3 DEF MasterStep
    <3>2. i \in 1 .. n /\ s = MasterLoop(x, n)[i - 1] /\ n \in Nat \ {0} /\ coeffs = [j \in 0 .. n - 1 |-> 0]
      BY <2>1, <3>1 DEF PolyIInv
    <3>3. i \in 1 .. n - 1 /\ i + 1 \in 1 .. n /\ (i + 1) - 1 = i /\ i + 1 \in 0 .. MaxPoints
      BY <2>1, <3>1, <3>2
    <3>4. MasterLoop(x, n)[i] = MasterTurn(s, n, i, x[i])
      BY <2>1, <3>2, <3>3, MasterLoopFacts
    <3> QED BY <2>1, <3>1, <3>2, <3>3, <3>4 DEF PolyIInv
  <2>4. CASE MasterDone
    <3>1. /\ n' = n /\ x' = x /\ y' = y /\ s' = s /\ coeffs' = coeffs /\ phase = "master" /\ i = n
          /\ i' = 0 /\ phase' = "terms"
      BY <2>4 DEF MasterDone
    <3>2. s = MasterLoop(x, n)[n - 1] /\ n \in Nat \ {0} /\ coeffs = [j \in 0 .. n - 1 |-> 0]
      BY <2>1, <3>1 DEF PolyIInv
    <3>3. TermLoop(x, y, n)[0] = [j \in 0 .. n - 1 |-> 0]
      BY <2>1, <3>2, TermLoopFacts
    <3>4. 0 \in 0 .. n /\ 0 \in 0 .. MaxPoints
      BY <2>1
    <3> QED BY <2>1, <3>1, <3>2, <3>3, <3>4 DEF PolyIInv
  <2>5. CASE TermStep
    <3>1. /\ n' = n /\ x' = x /\ y' = y /\ s' = s /\ phase' = phase /\ phase = "terms" /\ i < n
          /\ i' = i + 1 /\ coeffs' = TermTurn(coeffs, s, n, x[i], y[i])
      BY <2>5 DEF TermStep
    <3>2. i \in 0 .. n /\ s = MasterLoop(x, n)[n - 1] /\ coeffs = TermLoop(x, y, n)[i] /\ n \in Nat \ {0}
      BY <2>1, <3>1 DEF PolyIInv
    <3>3. i \in 0 .. n - 1 /\ i + 1 \in 0 .. n /\ i + 1 \in 0 .. MaxPoints
      BY <2>1, <3>1, <3>2
    <3>4. TermLoop(x, y, n)[i + 1] = TermTurn(coeffs, s, n, x[i], y[i])
      <4>1. TermLoop(x, y, n)[i + 1]
              = TermTurn(TermLoop(x, y, n)[i], MasterLoop(x, n)[n - 1], n, x[i], y[i])
        <5>1. n \in Nat \ {0} /\ x \in [0 .. n - 1 -> Scalar] /\ y \in [0 .. n - 1 -> Scalar]
          BY <3>2 DEF PolyIInv
        <5>2. \A p \in 0 .. n - 1 :
                TermLoop(x, y, n)[p + 1] = TermTurn(TermLoop(x, y, n)[p], MasterLoop(x, n)[n - 1], n, x[p], y[p])
          BY <5>1, TermLoopFacts
        <5> QED BY <3>3, <5>2
      <4> QED BY <3>2, <4>1
    <3> QED BY <2>1, <3>1, <3>2, <3>3, <3>4 DEF PolyIInv
  <2>6. CASE PolyReturn
    <3>1. /\ n' = n /\ x' = x /\ y' = y /\ s' = s /\ coeffs' = coeffs /\ i' = i
          /\ phase = "terms" /\ i = n /\ phase' = "done"
      BY <2>6 DEF PolyReturn
    <3> QED BY <3>1 DEF PolyIInv
  <2>7. CASE UNCHANGED polyVars
    BY <2>7 DEF PolyIInv, polyVars
  <2> QED BY <2>2, <2>3, <2>4, <2>5, <2>6, <2>7 DEF PolyNext
<1> QED BY <1>1, <1>2, PTL DEF PolySpec

\* The polynomial in the last places of s, by the loop over all of them.
LEMMA TopPlaces ==
  ASSUME NEW m \in Nat, NEW t \in [0 .. m -> Scalar], NEW p \in 0 .. m, NEW v \in Int
  PROVE  Horner([j \in 0 .. p |-> t[m - p + j]], p + 1, v) = ValueAt(t, m, p, v)
<1> DEFINE d == [j \in 0 .. p |-> t[m - p + j]]
<1>1. Ints(t, m + 1) /\ m + 1 \in Nat /\ \A j \in 0 .. m : t[j] \in Int
  BY MasterInts
<1>2. p + 1 \in Nat /\ p + 1 <= m + 1 /\ p + 1 <= p + 1 /\ p + 1 \in 0 .. p + 1
  OBVIOUS
<1>3. \A j \in 0 .. (p + 1) - 1 : j \in 0 .. p /\ m - p + j \in 0 .. m
  OBVIOUS
<1>4. Ints(d, p + 1)
  BY <1>1, <1>3 DEF Ints
<1>5. ASSUME NEW k \in 1 .. p + 1 PROVE d[(p + 1) - k] = t[(m + 1) - k]
  <2>1. (p + 1) - k \in 0 .. p /\ m - p + ((p + 1) - k) = (m + 1) - k
    OBVIOUS
  <2> QED BY <2>1
<1> HIDE DEF d
<1>6. \A k \in 0 .. p + 1 : HornerLoop(d, p + 1, v)[k] = HornerLoop(t, m + 1, v)[k]
  <2> DEFINE q == p + 1
             g == m + 1
  <2>1. q \in Nat /\ g \in Nat /\ Ints(d, q) /\ Ints(t, g) /\ SharesTop(d, q, t, g, q)
    BY <1>1, <1>2, <1>4, <1>5 DEF SharesTop
  <2> HIDE DEF q, g
  <2>2. \A k \in 0 .. q : HornerLoop(d, q, v)[k] = HornerLoop(t, g, v)[k]
    BY <2>1, HornerTop
  <2> QED BY <2>2 DEF q, g
<1>7. HornerLoop(d, p + 1, v)[p + 1] = HornerLoop(t, m + 1, v)[p + 1]
  BY <1>2, <1>6
<1>8. Horner(d, p + 1, v) = ValueAt(t, m, p, v)
  BY <1>7 DEF Horner, ValueAt
<1> QED BY <1>8 DEF d

LEMMA MasterRootsNow == PolyIInv => MasterHasTheRoots
<1> SUFFICES ASSUME PolyIInv, phase \in {"master", "terms"}, NEW v \in Scalar
             PROVE  LET m == IF phase = "master" THEN i ELSE n
                    IN  Horner([j \in 0 .. m |-> s[n - m + j]], m + 1, v) = RootProduct(m, v)
  BY DEF MasterHasTheRoots
<1> DEFINE p == IF phase = "master" THEN i ELSE n
<1>1. n \in Nat \ {0} /\ x \in [0 .. n - 1 -> Scalar] /\ v \in Int
  BY BoundsAssumption, ScalarsAreInts DEF PolyIInv
<1>2. p \in 1 .. n /\ s = MasterLoop(x, n)[p - 1]
  BY <1>1 DEF PolyIInv
<1> HIDE DEF p
<1>3. p - 1 \in 0 .. n - 1 /\ (p - 1) + 1 = p /\ p \in 0 .. n
  BY <1>1, <1>2
<1>4. MasterKnown(MasterLoop(x, n)[p - 1], x, n, (p - 1) + 1)
  BY <1>1, <1>3, MasterLoopFacts
<1>5. MasterKnown(s, x, n, p)
  BY <1>2, <1>3, <1>4
<1>6. s \in [0 .. n -> Scalar] /\ ValueAt(s, n, p, v) = ScalarProduct(Differences(x, n, v), p)
  BY <1>5 DEF MasterKnown, IsMaster
<1>7. Horner([j \in 0 .. p |-> s[n - p + j]], p + 1, v) = ValueAt(s, n, p, v)
  BY <1>1, <1>3, <1>6, TopPlaces
<1>8. RootProduct(p, v) = ScalarProduct(Differences(x, n, v), p)
  BY DEF RootProduct, Differences
<1>9. Horner([j \in 0 .. p |-> s[n - p + j]], p + 1, v) = RootProduct(p, v)
  BY <1>6, <1>7, <1>8
<1> QED BY <1>9 DEF p

LEMMA TermsNow == PolyIInv => TermsInterpolate
<1> SUFFICES ASSUME PolyIInv PROVE TermsInterpolate
  OBVIOUS
<1>1. ASSUME phase \in {"terms", "done"}
      PROVE  \A k \in 0 .. n - 1 : Horner(coeffs, n, x[k]) = IF k < i /\ Once(k) THEN y[k] ELSE 0
  <2>1. n \in Nat \ {0} /\ x \in [0 .. n - 1 -> Scalar] /\ y \in [0 .. n - 1 -> Scalar] /\ i \in 0 .. n
    BY <1>1, BoundsAssumption DEF PolyIInv
  <2>2. coeffs = TermLoop(x, y, n)[i]
    BY <1>1 DEF PolyIInv
  <2>3. TermsPass(TermLoop(x, y, n)[i], x, y, n, i)
    BY <2>1, TermLoopFacts
  <2>4. \A k \in 0 .. n - 1 : Once(k) <=> OnceIn(x, n, k)
    BY DEF Once, OnceIn
  <2> QED BY <2>2, <2>3, <2>4 DEF TermsPass
<1>2. phase = "done" => coeffs = Interpolate(x, y, n)
  BY DEF PolyIInv, Interpolate
<1> QED BY <1>1, <1>2 DEF TermsInterpolate

LEMMA PolyTypesNow == PolyIInv => PolyTypeOK
<1> SUFFICES ASSUME PolyIInv PROVE PolyTypeOK
  OBVIOUS
<1>1. phase \in {"call", "master", "terms", "done", "panic"} /\ i \in 0 .. MaxPoints
  BY DEF PolyIInv
<1>2. ASSUME phase \in {"master", "terms", "done"}
      PROVE  s \in [0 .. n -> Scalar] /\ coeffs \in [0 .. n - 1 -> Scalar]
  <2>1. n \in Nat \ {0} /\ x \in [0 .. n - 1 -> Scalar] /\ y \in [0 .. n - 1 -> Scalar]
    BY <1>2, BoundsAssumption DEF PolyIInv
  <2> DEFINE p == IF phase = "master" THEN i ELSE n
  <2>2. p \in 1 .. n /\ s = MasterLoop(x, n)[p - 1]
    BY <1>2, <2>1 DEF PolyIInv
  <2> HIDE DEF p
  <2>3. p - 1 \in 0 .. n - 1
    BY <2>1, <2>2
  <2>4. MasterKnown(s, x, n, (p - 1) + 1)
    BY <2>1, <2>2, <2>3, MasterLoopFacts
  <2>5. s \in [0 .. n -> Scalar]
    BY <2>4 DEF MasterKnown, IsMaster
  <2>6. CASE phase = "master"
    <3>1. coeffs = [j \in 0 .. n - 1 |-> 0]
      BY <2>6 DEF PolyIInv
    <3> QED BY <2>5, <3>1, OrderFacts
  <2>7. CASE phase \in {"terms", "done"}
    <3>1. i \in 0 .. n /\ coeffs = TermLoop(x, y, n)[i]
      BY <2>7 DEF PolyIInv
    <3>2. TermsPass(TermLoop(x, y, n)[i], x, y, n, i)
      BY <2>1, <3>1, TermLoopFacts
    <3> QED BY <2>5, <3>1, <3>2 DEF TermsPass
  <2> QED BY <1>2, <2>6, <2>7
<1> QED BY <1>1, <1>2 DEF PolyTypeOK

\* interpolate, at any number of points and for any prime order: its master
\* polynomial has the roots seen so far, its partial sums pass through the points
\* done, and what it returns through every point that occurs once
\* (proofs/utils.rs:25-62).
THEOREM InterpolationIsCorrect == PolySpec => []InterpolationCorrect
<1>1. PolyIInv => InterpolationCorrect
  BY MasterRootsNow, TermsNow, PolyTypesNow DEF InterpolationCorrect
<1> QED BY <1>1, PolyInv, PTL

-----------------------------------------------------------------------------
(* The texts of keys. *)

Octets == 0 .. 255

\* What Number makes of a text depends on its first CoordBytes bytes.
SameStart(t, u) == \A j \in 1 .. CoordBytes : t[j] \in Octets /\ u[j] = t[j]

LEMMA NumberFacts ==
  ASSUME NEW t, NEW u, SameStart(t, u)
  PROVE  Number(t) \in 0 .. Modulus - 1 /\ Number(u) = Number(t)
<1> DEFINE G == [k \in Nat |-> [v \in Nat |-> 256 * v + t[k]]]
           H == [k \in Nat |-> [v \in Nat |-> 256 * v + u[k]]]
           g == Iterate(0, G)
           h == Iterate(0, H)
           S == {k \in 0 .. CoordBytes : g[k] \in Nat /\ h[k] = g[k]}
<1>1. \A k, v \in Nat : G[k][v] = 256 * v + t[k] /\ H[k][v] = 256 * v + u[k]
  OBVIOUS
<1>2. Number(t) = g[CoordBytes] % Modulus /\ Number(u) = h[CoordBytes] % Modulus
  BY DEF Number
<1> HIDE DEF G, H
<1>3. Follows(g, 0, G) /\ Follows(h, 0, H)
  BY IterateDef
<1> HIDE DEF g, h
<1>4. /\ g[0] = 0 /\ \A k \in Nat : g[k + 1] = G[k + 1][g[k]]
      /\ h[0] = 0 /\ \A k \in Nat : h[k + 1] = H[k + 1][h[k]]
  BY <1>3 DEF Follows
<1>5. CoordBytes \in Nat
  BY CoordAssumption
<1>6. ASSUME NEW k \in 0 .. CoordBytes - 1, k \in S PROVE k + 1 \in S
  <2> DEFINE l == k + 1
  <2>1. k \in Nat /\ l \in Nat /\ l \in 1 .. CoordBytes /\ l \in 0 .. CoordBytes /\ g[k] \in Nat /\ h[k] = g[k]
    BY <1>5, <1>6
  <2>2. t[l] \in Nat /\ u[l] = t[l]
    <3>1. l \in 1 .. CoordBytes
      BY <2>1
    <3> HIDE DEF l
    <3>2. t[l] \in Octets /\ u[l] = t[l]
      BY <3>1 DEF SameStart
    <3> QED BY <3>2 DEF Octets
  <2>3. g[l] = G[l][g[k]] /\ h[l] = H[l][h[k]]
    BY <1>4, <2>1
  <2> HIDE DEF l
  <2>4. g[l] = 256 * g[k] + t[l] /\ h[l] = g[l]
    BY <1>1, <2>1, <2>2, <2>3
  <2>5. g[l] \in Nat
    BY <2>1, <2>2, <2>4
  <2>6. l \in S
    BY <2>1, <2>4, <2>5
  <2> QED BY <2>6 DEF l
<1>7. \A k \in 0 .. CoordBytes : k \in S
  <2>1. 0 \in S
    BY <1>4, <1>5
  <2> HIDE DEF S
  <2> QED BY <1>5, <1>6, <2>1, UpTo
<1>8. g[CoordBytes] \in Nat /\ h[CoordBytes] = g[CoordBytes]
  BY <1>5, <1>7
<1>9. g[CoordBytes] % Modulus \in 0 .. Modulus - 1
  BY <1>8, ModulusAssumption
<1> QED BY <1>2, <1>8, <1>9

Tags(t, m) == m \in 0 .. Len(t) /\ (\A j \in 1 .. m : t[j] = Tag) /\ (m < Len(t) => t[m + 1] # Tag)

\* Every text has its tags, and Stripped takes them off.
LEMMA TagsExist ==
  ASSUME NEW t \in Seq(Octets)
  PROVE  \E m \in 0 .. Len(t) : Tags(t, m) /\ Stripped(t) = SubSeq(t, m + 1, Len(t))
<1> DEFINE S == {m \in 0 .. Len(t) : \A j \in 1 .. m : t[j] = Tag}
<1>1. Len(t) \in Nat
  BY LenProperties
<1>2. \E m \in 0 .. Len(t) : Tags(t, m)
  <2> SUFFICES ASSUME \A m \in 0 .. Len(t) : ~Tags(t, m) PROVE FALSE
    OBVIOUS
  <2>1. 0 \in S
    BY <1>1
  <2>2. ASSUME NEW m \in 0 .. Len(t) - 1, m \in S PROVE m + 1 \in S
    <3>1. ~Tags(t, m) /\ m < Len(t) /\ \A j \in 1 .. m : t[j] = Tag
      BY <1>1, <2>2
    <3>2. t[m + 1] = Tag
      BY <1>1, <3>1 DEF Tags
    <3>3. \A j \in 1 .. m + 1 : j \in 1 .. m \/ j = m + 1
      BY <1>1
    <3>4. m + 1 \in 0 .. Len(t)
      BY <1>1
    <3> QED BY <3>1, <3>2, <3>3, <3>4
  <2>3. \A m \in 0 .. Len(t) : m \in S
    <3> HIDE DEF S
    <3> QED BY <1>1, <2>1, <2>2, UpTo
  <2>4. Len(t) \in 0 .. Len(t) /\ Len(t) \in S
    BY <1>1, <2>3
  <2>5. Tags(t, Len(t))
    BY <1>1, <2>4 DEF Tags
  <2> QED BY <2>4, <2>5
<1> DEFINE m0 == CHOOSE m \in 0 .. Len(t) : (\A j \in 1 .. m : t[j] = Tag) /\ (m < Len(t) => t[m + 1] # Tag)
<1>3. m0 \in 0 .. Len(t) /\ (\A j \in 1 .. m0 : t[j] = Tag) /\ (m0 < Len(t) => t[m0 + 1] # Tag)
  BY <1>2 DEF Tags
<1>4. Stripped(t) = SubSeq(t, m0 + 1, Len(t))
  BY DEF Stripped
<1> HIDE DEF m0
<1>5. Tags(t, m0)
  BY <1>3 DEF Tags
<1> QED BY <1>3, <1>4, <1>5

LEMMA StrippedType ==
  ASSUME NEW t \in Seq(Octets)
  PROVE  Stripped(t) \in Seq(Octets)
<1>1. PICK m \in 0 .. Len(t) : Stripped(t) = SubSeq(t, m + 1, Len(t))
  BY TagsExist
<1>2. Len(t) \in Nat /\ m \in Int /\ m + 1 \in Int /\ Len(t) \in Int
  BY LenProperties
<1>3. \A j \in m + 1 .. Len(t) : t[j] \in Octets
  <2>1. \A j \in m + 1 .. Len(t) : j \in 1 .. Len(t)
    BY <1>2
  <2> QED BY <2>1, ElementOfSeq
<1> QED BY <1>1, <1>2, <1>3, SubSeqProperties

\* Of a text that begins with less than two tags.
LEMMA StrippedOnce ==
  ASSUME NEW t \in Seq(Octets), NEW m \in {0, 1}, m < Len(t), m = 1 => t[1] = Tag, t[m + 1] # Tag
  PROVE  /\ Len(Stripped(t)) = Len(t) - m
         /\ \A j \in 1 .. Len(t) - m : Stripped(t)[j] = t[m + j]
<1>1. PICK l \in 0 .. Len(t) : Tags(t, l) /\ Stripped(t) = SubSeq(t, l + 1, Len(t))
  BY TagsExist
<1>2. Len(t) \in Nat
  BY LenProperties
<1>3. l = m
  <2>1. CASE l < m
    <3>1. l = 0 /\ m = 1 /\ t[1] # Tag
      BY <1>1, <1>2, <2>1 DEF Tags
    <3> QED BY <3>1
  <2>2. CASE l > m
    <3>1. m + 1 \in 1 .. l
      BY <1>2, <2>2
    <3>2. t[m + 1] = Tag
      BY <1>1, <3>1 DEF Tags
    <3> QED BY <3>2
  <2> QED BY <1>2, <2>1, <2>2
<1>4. \A j \in m + 1 .. Len(t) : t[j] \in Octets
  <2>1. \A j \in m + 1 .. Len(t) : j \in 1 .. Len(t)
    BY <1>2
  <2> QED BY <2>1, ElementOfSeq
<1> DEFINE p == m + 1
           q == Len(t)
<1>5. p \in Int /\ q \in Int /\ p <= q
  BY <1>2
<1>6. /\ Len(SubSeq(t, p, q)) = IF p <= q THEN q - p + 1 ELSE 0
      /\ \A j \in 1 .. q - p + 1 : SubSeq(t, p, q)[j] = t[p + j - 1]
  BY <1>4, <1>5, SubSeqProperties
<1>7. q - p + 1 = Len(t) - m /\ \A j \in 1 .. Len(t) - m : p + j - 1 = m + j
  BY <1>2
<1>8. Stripped(t) = SubSeq(t, p, q)
  BY <1>1, <1>3
<1> QED BY <1>5, <1>6, <1>7, <1>8

\* Nothing is added, and a tag is taken off.
LEMMA StrippedBound ==
  ASSUME NEW t \in Seq(Octets)
  PROVE  /\ Len(Stripped(t)) <= Len(t)
         /\ Len(t) > 0 /\ t[1] = Tag => Len(Stripped(t)) <= Len(t) - 1
<1>1. PICK l \in 0 .. Len(t) : Tags(t, l) /\ Stripped(t) = SubSeq(t, l + 1, Len(t))
  BY TagsExist
<1>2. Len(t) \in Nat
  BY LenProperties
<1>3. Len(t) > 0 /\ t[1] = Tag => l >= 1
  BY <1>1, <1>2 DEF Tags
<1>4. \A j \in l + 1 .. Len(t) : t[j] \in Octets
  <2>1. \A j \in l + 1 .. Len(t) : j \in 1 .. Len(t)
    BY <1>2
  <2> QED BY <2>1, ElementOfSeq
<1> DEFINE p == l + 1
           q == Len(t)
<1>5. p \in Int /\ q \in Int
  BY <1>2
<1>6. Len(SubSeq(t, p, q)) = IF p <= q THEN q - p + 1 ELSE 0
  BY <1>4, <1>5, SubSeqProperties
<1>7. Len(Stripped(t)) = IF p <= q THEN q - p + 1 ELSE 0
  BY <1>1, <1>6
<1> QED BY <1>2, <1>3, <1>7

-----------------------------------------------------------------------------
(* parse_pubkey and the ring it makes. *)

\* t continues with c after m bytes.
Starts(t, c, m) == \A j \in 1 .. CoordBytes : t[m + j] = c[j]

\* Keys, and the texts a document has for them.
LEMMA KeyFacts ==
  ASSUME NEW k \in Key
  PROVE  /\ k.x \in Seq(Octets) /\ Len(k.x) = CoordBytes /\ \A j \in 1 .. CoordBytes : k.x[j] \in Octets
         /\ k.y \in Seq(Octets) /\ Len(k.y) = CoordBytes
<1>1. CoordBytes \in Nat \ {0}
  BY CoordAssumption
<1>2. k.x \in [1 .. CoordBytes -> Octets] /\ k.y \in [1 .. CoordBytes -> Octets]
  <2>1. k.x \in Coordinate /\ k.y \in Coordinate
    BY DEF Key
  <2>2. Bytes \subseteq Octets
    BY BytesAssumption DEF Octets
  <2> QED BY <2>1, <2>2 DEF Coordinate
<1> DEFINE f == k.x
           g == k.y
<1> HIDE DEF f, g
<1>3. f \in [1 .. CoordBytes -> Octets] /\ g \in [1 .. CoordBytes -> Octets]
  BY <1>2 DEF f, g
<1>4. f \in Seq(Octets) /\ Len(f) = CoordBytes
  BY <1>1, <1>3
<1>5. g \in Seq(Octets) /\ Len(g) = CoordBytes
  BY <1>1, <1>3
<1> QED BY <1>2, <1>4, <1>5 DEF f, g

LEMMA TextFacts ==
  ASSUME NEW k \in Key
  PROVE  /\ WholeKey(k) \in Seq(Octets) /\ Len(WholeKey(k)) = 2 * CoordBytes + 1
         /\ WholeKey(k)[1] = Tag /\ Starts(WholeKey(k), k.x, 1)
         /\ XOnly(k) \in Seq(Octets) /\ Len(XOnly(k)) = CoordBytes /\ Starts(XOnly(k), k.x, 0)
<1> DEFINE c == k.x
           d == k.y
           u == <<Tag>>
           v == u \o c
           w == v \o d
<1>1. c \in Seq(Octets) /\ Len(c) = CoordBytes /\ d \in Seq(Octets) /\ Len(d) = CoordBytes
  BY KeyFacts
<1>2. CoordBytes \in Nat \ {0}
  BY CoordAssumption
<1>3. u \in Seq(Octets) /\ Len(u) = 1 /\ u[1] = Tag
  BY DEF Octets, Tag
<1>4. WholeKey(k) = w /\ XOnly(k) = c
  BY DEF WholeKey, XOnly
<1> HIDE DEF c, d, u
<1>5. /\ v \in Seq(Octets) /\ Len(v) = Len(u) + Len(c)
      /\ \A j \in 1 .. Len(u) + Len(c) : v[j] = IF j <= Len(u) THEN u[j] ELSE c[j - Len(u)]
  BY <1>1, <1>3, ConcatProperties
<1> HIDE DEF v
<1>50. v \in Seq(Octets)
  BY <1>5
<1>6. /\ w \in Seq(Octets) /\ Len(w) = Len(v) + Len(d)
      /\ \A j \in 1 .. Len(v) + Len(d) : w[j] = IF j <= Len(v) THEN v[j] ELSE d[j - Len(v)]
  BY <1>1, <1>50, ConcatProperties
<1> HIDE DEF w
<1>8. Len(v) = CoordBytes + 1 /\ Len(w) = 2 * CoordBytes + 1
  <2>1. Len(u) = 1 /\ Len(c) = CoordBytes /\ Len(d) = CoordBytes
    BY <1>1, <1>3
  <2>2. Len(v) = Len(u) + Len(c) /\ Len(w) = Len(v) + Len(d)
    BY <1>5, <1>6
  <2> QED BY <1>2, <2>1, <2>2
<1>9. v[1] = Tag /\ w[1] = Tag
  <2>1. 1 \in 1 .. Len(u) + Len(c) /\ 1 <= Len(u)
    BY <1>1, <1>2, <1>3
  <2>2. 1 \in 1 .. Len(v) + Len(d) /\ 1 <= Len(v)
    BY <1>1, <1>2, <1>8
  <2> QED BY <1>3, <1>5, <1>6, <2>1, <2>2
<1>10. ASSUME NEW j \in 1 .. CoordBytes
       PROVE  w[1 + j] = c[j] /\ c[0 + j] = c[j]
  <2>1. 1 + j \in 1 .. Len(u) + Len(c) /\ ~(1 + j <= Len(u)) /\ (1 + j) - Len(u) = j
    BY <1>1, <1>2, <1>3
  <2>2. 1 + j \in 1 .. Len(v) + Len(d) /\ 1 + j <= Len(v)
    BY <1>1, <1>2, <1>8
  <2>4. v[1 + j] = c[j]
    BY <1>5, <2>1
  <2> QED BY <1>6, <2>2, <2>4
<1>11. Starts(w, c, 1) /\ Starts(c, c, 0)
  BY <1>10 DEF Starts
<1> QED BY <1>1, <1>4, <1>6, <1>8, <1>9, <1>11 DEF c

\* The texts that are left of a text.
LEMMA CutFacts ==
  ASSUME NEW t \in Seq(Octets), NEW z \in 0 .. Len(t)
  PROVE  /\ CutTo(t, z) \in Seq(Octets) /\ Len(CutTo(t, z)) = z
         /\ \A j \in 1 .. z : CutTo(t, z)[j] = t[j]
<1>1. Len(t) \in Nat /\ z \in Int /\ 1 \in Int
  BY LenProperties
<1>2. \A j \in 1 .. z : t[j] \in Octets
  <2>1. \A j \in 1 .. z : j \in 1 .. Len(t)
    BY <1>1
  <2> QED BY <2>1, ElementOfSeq
<1> DEFINE p == 1
<1>3. p \in Int /\ \A j \in p .. z : t[j] \in Octets
  BY <1>2
<1>4. /\ SubSeq(t, p, z) \in Seq(Octets)
      /\ Len(SubSeq(t, p, z)) = IF p <= z THEN z - p + 1 ELSE 0
      /\ \A j \in 1 .. z - p + 1 : SubSeq(t, p, z)[j] = t[p + j - 1]
  <2> HIDE DEF p
  <2> QED BY <1>1, <1>3, SubSeqProperties
<1>5. (IF p <= z THEN z - p + 1 ELSE 0) = z /\ \A j \in 1 .. z : j \in 1 .. z - p + 1 /\ p + j - 1 = j
  BY <1>1
<1>6. CutTo(t, z) = SubSeq(t, p, z)
  BY DEF CutTo
<1> HIDE DEF p
<1> QED BY <1>4, <1>5, <1>6

LEMMA WithoutFacts ==
  ASSUME NEW t \in Seq(Octets), NEW g \in 2 .. Len(t)
  PROVE  /\ Without(t, g) \in Seq(Octets) /\ Len(Without(t, g)) = Len(t) - 1
         /\ Without(t, g)[1] = t[1]
<1>1. Len(t) \in Nat /\ 1 \in 1 .. Len(t) - 1 /\ 1 < g /\ Len(t) - 1 \in Nat
  BY LenProperties
<1>2. \A j \in 1 .. Len(t) - 1 : (IF j < g THEN t[j] ELSE t[j + 1]) \in Octets
  <2>1. \A j \in 1 .. Len(t) - 1 : j \in 1 .. Len(t) /\ j + 1 \in 1 .. Len(t)
    BY <1>1
  <2> QED BY <2>1, ElementOfSeq
<1> DEFINE l == Len(t) - 1
<1>3. l \in Nat /\ Without(t, g) = [j \in 1 .. l |-> IF j < g THEN t[j] ELSE t[j + 1]]
  BY <1>1 DEF Without
<1>4. Without(t, g)[1] = t[1]
  BY <1>1, <1>3
<1>5. Without(t, g) \in [1 .. l -> Octets]
  BY <1>2, <1>3
<1> HIDE DEF l
<1>6. Without(t, g) \in Seq(Octets) /\ Len(Without(t, g)) = l
  BY <1>3, <1>5
<1> QED BY <1>4, <1>6 DEF l

\* A text that starts with a coordinate is read as the number of it.
LEMMA ParsedKey ==
  ASSUME NEW k \in Key, NEW t, Starts(t, k.x, 0)
  PROVE  Number(t) = Number(k.x)
<1>1. SameStart(k.x, t)
  <2>1. \A j \in 1 .. CoordBytes : 0 + j = j
    BY CoordAssumption
  <2> QED BY <2>1, KeyFacts DEF Starts, SameStart
<1> QED BY <1>1, NumberFacts

LEMMA MemberKeyNumber ==
  ASSUME NEW k \in Key
  PROVE  ParsePubkeyX(WholeKey(k)) = Number(k.x)
<1> DEFINE t == WholeKey(k)
           p == 2
           q == CoordBytes + 1
           u == SubSeq(t, p, q)
<1>1. CoordBytes \in Nat \ {0}
  BY CoordAssumption
<1>2. t \in Seq(Octets) /\ Len(t) = 2 * CoordBytes + 1 /\ Starts(t, k.x, 1)
  BY TextFacts
<1> HIDE DEF t
<1>3. \A j \in p .. q : t[j] \in Octets
  <2>1. \A j \in p .. q : j \in 1 .. Len(t)
    BY <1>1, <1>2
  <2> QED BY <1>2, <2>1, ElementOfSeq
<1>4. p \in Int /\ q \in Int
  BY <1>1
<1>5. \A j \in 1 .. q - p + 1 : u[j] = t[p + j - 1]
  BY <1>3, <1>4, SubSeqProperties
<1> HIDE DEF u
<1>6. \A j \in 1 .. CoordBytes : j \in 1 .. q - p + 1 /\ p + j - 1 = 1 + j /\ 0 + j = j
  BY <1>1
<1>7. Starts(u, k.x, 0)
  BY <1>2, <1>5, <1>6 DEF Starts
<1>8. Number(u) = Number(k.x)
  BY <1>7, ParsedKey
<1> QED BY <1>8 DEF ParsePubkeyX, u, t

\* How an entry is read.
EntryRead(k, t) ==
  /\ t \in Seq(Octets) /\ Stripped(t) \in Seq(Octets)
  /\ OneTag(k, t) => /\ t \in TooLong(k) => EntryVerdict(t) = "err"
                     /\ t \in Readable(k) => EntryVerdict(t) = "ok" /\ Number(Stripped(t)) = Number(k.x)
                     /\ t \in Gapped(k) => EntryVerdict(t) = "ok"
  /\ t \in TooShort(k) => EntryVerdict(t) = "panic"

\* A text that goes on with x, behind a tag or not, is stripped to x and the rest.
LEMMA StartsRead ==
  ASSUME NEW k \in Key, NEW t \in Seq(Octets), k.x[1] # Tag, NEW m \in {0, 1}, m < Len(t),
         m = 1 => t[1] = Tag, Starts(t, k.x, m), Len(t) - m >= CoordBytes
  PROVE  Len(Stripped(t)) = Len(t) - m /\ Number(Stripped(t)) = Number(k.x)
<1>1. CoordBytes \in Nat \ {0} /\ 1 \in 1 .. CoordBytes
  BY CoordAssumption
<1>2. t[m + 1] # Tag
  BY <1>1 DEF Starts
<1>3. /\ Len(Stripped(t)) = Len(t) - m
      /\ \A j \in 1 .. Len(t) - m : Stripped(t)[j] = t[m + j]
  BY <1>2, StrippedOnce
<1>4. \A j \in 1 .. CoordBytes : j \in 1 .. Len(t) - m /\ 0 + j = j
  BY <1>1, LenProperties
<1>5. Starts(Stripped(t), k.x, 0)
  BY <1>3, <1>4 DEF Starts
<1> QED BY <1>3, <1>5, ParsedKey

\* The lengths and beginnings of the forms that have all of x, and of those that
\* have not.
LEMMA FormFacts ==
  ASSUME NEW k \in Key, NEW t
  PROVE  /\ t \in TooLong(k) => /\ t \in Seq(Octets) /\ Len(t) = 2 * CoordBytes + 2 /\ t[1] = Tag
                                /\ Starts(t, k.x, 1)
         /\ t \in Readable(k) =>
              /\ t \in Seq(Octets)
              /\ \/ Len(t) \in CoordBytes + 1 .. 2 * CoordBytes + 1 /\ t[1] = Tag /\ Starts(t, k.x, 1)
                 \/ Len(t) = CoordBytes /\ Starts(t, k.x, 0)
         /\ t \in Gapped(k) => t \in Seq(Octets) /\ Len(t) = 2 * CoordBytes /\ t[1] = Tag
         /\ t \in TooShort(k) =>
              /\ t \in Seq(Octets)
              /\ \/ Len(t) \in 0 .. CoordBytes /\ (Len(t) > 0 => t[1] = Tag)
                 \/ Len(t) \in 0 .. CoordBytes - 1
<1> DEFINE w == WholeKey(k)
<1>1. CoordBytes \in Nat \ {0}
  BY CoordAssumption
<1>2. w \in Seq(Octets) /\ Len(w) = 2 * CoordBytes + 1 /\ w[1] = Tag /\ Starts(w, k.x, 1)
  BY TextFacts
<1>3. XOnly(k) \in Seq(Octets) /\ Len(XOnly(k)) = CoordBytes /\ Starts(XOnly(k), k.x, 0)
  BY TextFacts
<1>4. /\ Readable(k) = {CutTo(w, z) : z \in CoordBytes + 1 .. 2 * CoordBytes + 1} \cup {XOnly(k)}
      /\ TooShort(k) = {CutTo(w, z) : z \in 0 .. CoordBytes}
                         \cup {CutTo(XOnly(k), z) : z \in 0 .. CoordBytes - 1}
      /\ TooLong(k) = {Append(w, b) : b \in Bytes}
      /\ Gapped(k) = {Without(w, g) : g \in 2 .. CoordBytes + 1}
  BY DEF Readable, TooShort, TooLong, Gapped
<1> HIDE DEF w
<1>5. ASSUME NEW z \in 0 .. 2 * CoordBytes + 1
      PROVE  /\ CutTo(w, z) \in Seq(Octets) /\ Len(CutTo(w, z)) = z
             /\ z > 0 => CutTo(w, z)[1] = Tag
             /\ z > CoordBytes => Starts(CutTo(w, z), k.x, 1)
  <2>1. z \in 0 .. Len(w)
    BY <1>1, <1>2
  <2>2. /\ CutTo(w, z) \in Seq(Octets) /\ Len(CutTo(w, z)) = z
        /\ \A j \in 1 .. z : CutTo(w, z)[j] = w[j]
    BY <1>2, <2>1, CutFacts
  <2>3. z > 0 => CutTo(w, z)[1] = Tag
    BY <1>2, <2>2
  <2>4. z > CoordBytes => \A j \in 1 .. CoordBytes : 1 + j \in 1 .. z
    BY <1>1
  <2>5. z > CoordBytes => Starts(CutTo(w, z), k.x, 1)
    BY <1>2, <2>2, <2>4 DEF Starts
  <2> QED BY <2>2, <2>3, <2>5
<1>6. ASSUME t \in TooLong(k)
      PROVE  t \in Seq(Octets) /\ Len(t) = 2 * CoordBytes + 2 /\ t[1] = Tag /\ Starts(t, k.x, 1)
  <2>1. PICK b \in Bytes : t = Append(w, b)
    BY <1>4, <1>6
  <2>2. b \in Octets
    BY BytesAssumption DEF Octets
  <2>3. t \in Seq(Octets) /\ Len(t) = Len(w) + 1
    BY <1>2, <2>1, <2>2
  <2>4. \A j \in 1 .. Len(w) : t[j] = w[j]
    BY <1>2, <2>1, <2>2
  <2>5. \A j \in 1 .. CoordBytes : 1 + j \in 1 .. Len(w)
    BY <1>1, <1>2
  <2>6. Starts(t, k.x, 1)
    BY <1>2, <2>4, <2>5 DEF Starts
  <2>7. 1 \in 1 .. Len(w) /\ Len(w) + 1 = 2 * CoordBytes + 2
    BY <1>1, <1>2
  <2> QED BY <1>2, <2>3, <2>4, <2>6, <2>7
<1>7. ASSUME t \in Readable(k)
      PROVE  /\ t \in Seq(Octets)
             /\ \/ Len(t) \in CoordBytes + 1 .. 2 * CoordBytes + 1 /\ t[1] = Tag /\ Starts(t, k.x, 1)
                \/ Len(t) = CoordBytes /\ Starts(t, k.x, 0)
  <2>1. CASE t = XOnly(k)
    BY <1>3, <2>1
  <2>2. CASE t # XOnly(k)
    <3>1. PICK z \in CoordBytes + 1 .. 2 * CoordBytes + 1 : t = CutTo(w, z)
      BY <1>4, <1>7, <2>2
    <3>2. z \in 0 .. 2 * CoordBytes + 1 /\ z > 0 /\ z > CoordBytes
      BY <1>1
    <3> QED BY <1>5, <3>1, <3>2
  <2> QED BY <2>1, <2>2
<1>8. ASSUME t \in Gapped(k)
      PROVE  t \in Seq(Octets) /\ Len(t) = 2 * CoordBytes /\ t[1] = Tag
  <2>1. PICK g \in 2 .. CoordBytes + 1 : t = Without(w, g)
    BY <1>4, <1>8
  <2>2. g \in 2 .. Len(w) /\ Len(w) - 1 = 2 * CoordBytes
    BY <1>1, <1>2
  <2> QED BY <1>2, <2>1, <2>2, WithoutFacts
<1>9. ASSUME t \in TooShort(k)
      PROVE  /\ t \in Seq(Octets)
             /\ \/ Len(t) \in 0 .. CoordBytes /\ (Len(t) > 0 => t[1] = Tag)
                \/ Len(t) \in 0 .. CoordBytes - 1
  <2>1. CASE \E z \in 0 .. CoordBytes : t = CutTo(w, z)
    <3>1. PICK z \in 0 .. CoordBytes : t = CutTo(w, z)
      BY <2>1
    <3>2. z \in 0 .. 2 * CoordBytes + 1
      BY <1>1
    <3> QED BY <1>5, <3>1, <3>2
  <2>2. CASE \E z \in 0 .. CoordBytes - 1 : t = CutTo(XOnly(k), z)
    <3>1. PICK z \in 0 .. CoordBytes - 1 : t = CutTo(XOnly(k), z)
      BY <2>2
    <3>2. z \in 0 .. Len(XOnly(k))
      BY <1>1, <1>3
    <3> QED BY <1>3, <3>1, <3>2, CutFacts
  <2> QED BY <1>4, <1>9, <2>1, <2>2
<1> QED BY <1>6, <1>7, <1>8, <1>9

LEMMA EntriesRead ==
  ASSUME NEW k \in Key, NEW t \in Texts(k)
  PROVE  EntryRead(k, t)
<1>1. CoordBytes \in Nat \ {0}
  BY CoordAssumption
<1>2. t \in Seq(Octets) /\ Stripped(t) \in Seq(Octets)
  <2>1. t \in Seq(Octets)
    BY FormFacts DEF Texts
  <2> QED BY <2>1, StrippedType
<1>3. Len(t) \in Nat /\ Len(Stripped(t)) \in Nat
  BY <1>2, LenProperties
<1>4. ASSUME OneTag(k, t), t \in TooLong(k) PROVE EntryVerdict(t) = "err"
  <2>1. Len(t) = 2 * CoordBytes + 2 /\ t[1] = Tag /\ Starts(t, k.x, 1) /\ k.x[1] # Tag
    BY <1>4, FormFacts DEF OneTag
  <2>2. 1 < Len(t) /\ Len(t) - 1 >= CoordBytes
    BY <1>1, <2>1
  <2>3. Len(Stripped(t)) = Len(t) - 1
    BY <1>2, <2>1, <2>2, StartsRead
  <2>4. Len(Stripped(t)) > 2 * CoordBytes
    BY <1>1, <2>1, <2>3
  <2> QED BY <2>4 DEF EntryVerdict
<1>5. ASSUME OneTag(k, t), t \in Readable(k)
      PROVE  EntryVerdict(t) = "ok" /\ Number(Stripped(t)) = Number(k.x)
  <2>1. k.x[1] # Tag
    BY <1>5 DEF OneTag
  <2>2. CASE Len(t) \in CoordBytes + 1 .. 2 * CoordBytes + 1 /\ t[1] = Tag /\ Starts(t, k.x, 1)
    <3>1. 1 < Len(t) /\ Len(t) - 1 >= CoordBytes
      BY <1>1, <2>2
    <3>2. Len(Stripped(t)) = Len(t) - 1 /\ Number(Stripped(t)) = Number(k.x)
      BY <1>2, <2>1, <2>2, <3>1, StartsRead
    <3>3. ~(Len(Stripped(t)) > 2 * CoordBytes) /\ ~(Len(Stripped(t)) < CoordBytes)
      BY <1>1, <2>2, <3>2
    <3> QED BY <3>2, <3>3 DEF EntryVerdict
  <2>3. CASE Len(t) = CoordBytes /\ Starts(t, k.x, 0)
    <3>1. 0 < Len(t) /\ Len(t) - 0 >= CoordBytes
      BY <1>1, <2>3
    <3>2. Len(Stripped(t)) = Len(t) - 0 /\ Number(Stripped(t)) = Number(k.x)
      BY <1>2, <2>1, <2>3, <3>1, StartsRead
    <3>3. ~(Len(Stripped(t)) > 2 * CoordBytes) /\ ~(Len(Stripped(t)) < CoordBytes)
      BY <1>1, <2>3, <3>2
    <3> QED BY <3>2, <3>3 DEF EntryVerdict
  <2> QED BY <1>5, <2>2, <2>3, FormFacts
<1>6. ASSUME OneTag(k, t), t \in Gapped(k) PROVE EntryVerdict(t) = "ok"
  <2>1. Len(t) = 2 * CoordBytes /\ t[1] = Tag
    BY <1>6, FormFacts
  <2>2. 1 < Len(t)
    BY <1>1, <2>1
  <2>3. t[1 + 1] # Tag
    BY <1>6, <2>1, <2>2 DEF OneTag
  <2>4. Len(Stripped(t)) = Len(t) - 1
    BY <1>2, <2>1, <2>2, <2>3, StrippedOnce
  <2>5. ~(Len(Stripped(t)) > 2 * CoordBytes) /\ ~(Len(Stripped(t)) < CoordBytes)
    BY <1>1, <2>1, <2>4
  <2> QED BY <2>5 DEF EntryVerdict
<1>7. ASSUME t \in TooShort(k) PROVE EntryVerdict(t) = "panic"
  <2>1. \/ Len(t) \in 0 .. CoordBytes /\ (Len(t) > 0 => t[1] = Tag)
        \/ Len(t) \in 0 .. CoordBytes - 1
    BY <1>7, FormFacts
  <2>2. Len(Stripped(t)) <= Len(t) /\ (Len(t) > 0 /\ t[1] = Tag => Len(Stripped(t)) <= Len(t) - 1)
    BY <1>2, StrippedBound
  <2>3. ~(Len(Stripped(t)) > 2 * CoordBytes) /\ Len(Stripped(t)) < CoordBytes
    BY <1>1, <1>3, <2>1, <2>2
  <2> QED BY <2>3 DEF EntryVerdict
<1> QED BY <1>2, <1>4, <1>5, <1>6, <1>7 DEF EntryRead

LEMMA EntryTypes ==
  ASSUME NEW k \in Key, NEW t \in Texts(k)
  PROVE  /\ EntryVerdict(t) \in {"ok", "err", "panic"}
         /\ EntryVerdict(t) = "ok" => Number(Stripped(t)) \in 0 .. Modulus - 1
<1>1. EntryVerdict(t) \in {"ok", "err", "panic"}
  BY DEF EntryVerdict
<1>2. Stripped(t) \in Seq(Octets)
  BY EntriesRead DEF EntryRead
<1>3. ASSUME EntryVerdict(t) = "ok" PROVE Number(Stripped(t)) \in 0 .. Modulus - 1
  <2>1. ~(Len(Stripped(t)) < CoordBytes)
    BY <1>3 DEF EntryVerdict
  <2>2. Len(Stripped(t)) \in Nat /\ CoordBytes \in Nat
    BY <1>2, LenProperties, CoordAssumption
  <2>3. \A j \in 1 .. CoordBytes : j \in 1 .. Len(Stripped(t))
    BY <2>1, <2>2
  <2>4. SameStart(Stripped(t), Stripped(t))
    BY <1>2, <2>3, ElementOfSeq DEF SameStart
  <2> QED BY <2>4, NumberFacts
<1> QED BY <1>1, <1>3

-----------------------------------------------------------------------------

\* The texts are texts of the keys, and what is parsed are the numbers of the
\* texts.
RingRead ==
  /\ \A j \in 1 .. Len(texts) : texts[j] \in Texts(keys[j])
  /\ \A j \in 1 .. Len(parsed) : EntryVerdict(texts[j]) = "ok" /\ parsed[j] = Number(Stripped(texts[j]))

\* The strengthened invariant of Parse.
ParseIInv ==
  /\ keys \in Seq(Key) /\ texts \in Seq(UNION {Texts(k) : k \in Key}) /\ parsed \in Seq(0 .. Modulus - 1)
  /\ Len(texts) <= Len(keys) /\ Len(parsed) <= Len(texts) /\ RingRead
  /\ parsing \in {"store", "parse", "ok", "err", "panic"}
  /\ parsing = "store" => parsed = <<>>
  /\ parsing # "store" => Len(texts) = Len(keys)
  /\ parsing = "ok" => Len(parsed) = Len(texts)
  /\ parsing \in {"err", "panic"} => Len(parsed) < Len(texts) /\ EntryVerdict(texts[Len(parsed) + 1]) = parsing

\* It holds in every state.
LEMMA ParseInv == ParseSpec => []ParseIInv
<1>1. ParseInit => ParseIInv
  <2> SUFFICES ASSUME ParseInit PROVE ParseIInv
    OBVIOUS
  <2>1. PICK m \in 0 .. MaxEntries : keys \in [1 .. m -> Key]
    BY DEF ParseInit
  <2>2. m \in Nat
    BY EntriesAssumption
  <2>3. keys \in Seq(Key) /\ Len(keys) \in Nat
    BY <2>1, <2>2
  <2>4. texts = <<>> /\ parsed = <<>> /\ parsing = "store"
    BY DEF ParseInit
  <2>5. Len(texts) = 0 /\ Len(parsed) = 0
    BY <2>4
  <2>6. texts \in Seq(UNION {Texts(k) : k \in Key}) /\ parsed \in Seq(0 .. Modulus - 1)
    BY <2>4, EmptySeq
  <2>7. RingRead
    <3>1. 1 .. 0 = {}
      OBVIOUS
    <3> QED BY <2>5, <3>1 DEF RingRead
  <2>8. Len(texts) <= Len(keys) /\ Len(parsed) <= Len(texts)
    BY <2>3, <2>5
  <2> QED BY <2>3, <2>4, <2>6, <2>7, <2>8 DEF ParseIInv
<1>2. ParseIInv /\ [ParseNext]_parseVars => ParseIInv'
  <2> SUFFICES ASSUME ParseIInv, [ParseNext]_parseVars PROVE ParseIInv'
    OBVIOUS
  <2>1. /\ keys \in Seq(Key) /\ texts \in Seq(UNION {Texts(k) : k \in Key}) /\ parsed \in Seq(0 .. Modulus - 1)
        /\ Len(texts) <= Len(keys) /\ Len(parsed) <= Len(texts) /\ RingRead
    BY DEF ParseIInv
  <2>2. Len(keys) \in Nat /\ Len(texts) \in Nat /\ Len(parsed) \in Nat
    BY <2>1, LenProperties
  <2>3. CASE Store
    <3> DEFINE l == Len(texts) + 1
    <3>1. PICK t \in Texts(keys[l]) : texts' = Append(texts, t)
      BY <2>3 DEF Store
    <3>2. /\ keys' = keys /\ parsed' = parsed /\ parsing' = parsing /\ parsing = "store"
          /\ Len(texts) < Len(keys)
      BY <2>3 DEF Store
    <3>3. l \in 1 .. Len(keys) /\ keys[l] \in Key
      <4>1. l \in 1 .. Len(keys)
        BY <2>2, <3>2
      <4> QED BY <2>1, <4>1, ElementOfSeq
    <3>4. t \in UNION {Texts(k) : k \in Key}
      BY <3>1, <3>3
    <3>5. /\ texts' \in Seq(UNION {Texts(k) : k \in Key}) /\ Len(texts') = l /\ texts'[l] = t
          /\ \A j \in 1 .. Len(texts) : texts'[j] = texts[j]
      <4> HIDE DEF Texts
      <4> DEFINE U == UNION {Texts(k) : k \in Key}
      <4> HIDE DEF U
      <4>1. t \in U /\ texts \in Seq(U)
        BY <2>1, <3>4 DEF U
      <4>2. Append(texts, t) \in Seq(U) /\ Len(Append(texts, t)) = l
        BY <4>1
      <4>3. Append(texts, t)[l] = t /\ \A j \in 1 .. Len(texts) : Append(texts, t)[j] = texts[j]
        BY <2>2, <4>1
      <4> QED BY <3>1, <4>2, <4>3 DEF U
    <3>6. parsed = <<>> /\ Len(parsed) = 0
      BY <3>2 DEF ParseIInv
    <3>7. RingRead'
      <4>1. \A j \in 1 .. l : j \in 1 .. Len(texts) \/ j = l
        BY <2>2
      <4>2. \A j \in 1 .. Len(texts') : texts'[j] \in Texts(keys'[j])
        BY <2>1, <3>1, <3>2, <3>5, <4>1 DEF RingRead
      <4>3. 1 .. Len(parsed') = {}
        BY <3>2, <3>6
      <4> QED BY <4>2, <4>3 DEF RingRead
    <3>8. Len(texts') <= Len(keys') /\ Len(parsed') <= Len(texts')
      BY <2>2, <3>2, <3>3, <3>5, <3>6
    <3> QED BY <2>1, <3>2, <3>5, <3>6, <3>7, <3>8 DEF ParseIInv
  <2>4. CASE Call
    <3>1. /\ keys' = keys /\ texts' = texts /\ parsed' = parsed /\ parsing' = "parse"
          /\ Len(texts) = Len(keys)
      BY <2>4 DEF Call
    <3> QED BY <2>1, <3>1 DEF ParseIInv, RingRead
  <2>5. CASE ParseEntry
    <3> DEFINE l == Len(parsed) + 1
               t == texts[l]
    <3>1. keys' = keys /\ texts' = texts /\ parsing = "parse" /\ Len(parsed) < Len(texts) /\ Len(texts) = Len(keys)
      BY <2>5 DEF ParseEntry, ParseIInv
    <3>2. l \in 1 .. Len(texts) /\ l \in 1 .. Len(keys)
      BY <2>2, <3>1
    <3>3. keys[l] \in Key /\ t \in Texts(keys[l])
      <4>1. keys[l] \in Key
        BY <2>1, <3>2, ElementOfSeq
      <4> QED BY <2>1, <3>2, <4>1 DEF RingRead
    <3>4. /\ EntryVerdict(t) \in {"ok", "err", "panic"}
          /\ EntryVerdict(t) = "ok" => Number(Stripped(t)) \in 0 .. Modulus - 1
      BY <3>3, EntryTypes
    <3>5. CASE EntryVerdict(t) = "ok"
      <4> DEFINE v == Number(Stripped(t))
      <4>1. parsed' = Append(parsed, v) /\ parsing' = parsing
        BY <2>5, <3>5 DEF ParseEntry
      <4>2. v \in 0 .. Modulus - 1
        BY <3>4, <3>5
      <4> HIDE DEF v
      <4>3. /\ parsed' \in Seq(0 .. Modulus - 1) /\ Len(parsed') = l /\ parsed'[l] = v
            /\ \A j \in 1 .. Len(parsed) : parsed'[j] = parsed[j]
        BY <2>1, <2>2, <4>1, <4>2
      <4>4. RingRead'
        <5>1. \A j \in 1 .. l : j \in 1 .. Len(parsed) \/ j = l
          BY <2>2
        <5>2. \A j \in 1 .. Len(parsed') :
                EntryVerdict(texts[j]) = "ok" /\ parsed'[j] = Number(Stripped(texts[j]))
          BY <2>1, <3>5, <4>3, <5>1 DEF RingRead, v
        <5> QED BY <2>1, <3>1, <5>2 DEF RingRead
      <4>5. Len(parsed') <= Len(texts')
        BY <2>2, <3>1, <3>2, <4>3
      <4> QED BY <2>1, <3>1, <4>1, <4>3, <4>4, <4>5 DEF ParseIInv
    <3>6. CASE EntryVerdict(t) # "ok"
      <4>1. parsed' = parsed /\ parsing' = EntryVerdict(t)
        BY <2>5, <3>6 DEF ParseEntry
      <4>2. parsing' \in {"err", "panic"}
        BY <3>4, <3>6, <4>1
      <4> QED BY <2>1, <3>1, <4>1, <4>2 DEF ParseIInv, RingRead
    <3> QED BY <3>5, <3>6
  <2>6. CASE ParseReturn
    <3>1. /\ keys' = keys /\ texts' = texts /\ parsed' = parsed /\ parsing = "parse" /\ parsing' = "ok"
          /\ Len(parsed) = Len(texts)
      BY <2>6 DEF ParseReturn
    <3>2. Len(texts) = Len(keys)
      BY <3>1 DEF ParseIInv
    <3> QED BY <2>1, <3>1, <3>2 DEF ParseIInv, RingRead
  <2>7. CASE UNCHANGED parseVars
    BY <2>1, <2>7 DEF ParseIInv, RingRead, parseVars
  <2> QED BY <2>3, <2>4, <2>5, <2>6, <2>7 DEF ParseNext
<1> QED BY <1>1, <1>2, PTL DEF ParseSpec

LEMMA RingNow == ParseIInv => RingsAreTheKeys
<1> SUFFICES ASSUME ParseIInv PROVE RingsAreTheKeys
  OBVIOUS
<1>1. /\ keys \in Seq(Key) /\ texts \in Seq(UNION {Texts(k) : k \in Key}) /\ parsed \in Seq(0 .. Modulus - 1)
      /\ Len(texts) <= Len(keys) /\ Len(parsed) <= Len(texts) /\ RingRead
  BY DEF ParseIInv
<1>2. /\ Len(keys) \in Nat /\ Len(texts) \in Nat /\ Len(parsed) \in Nat
      /\ DOMAIN parsed = 1 .. Len(parsed) /\ DOMAIN texts = 1 .. Len(texts)
  BY <1>1, LenProperties
<1>3. ASSUME NEW j \in 1 .. Len(texts)
      PROVE  keys[j] \in Key /\ texts[j] \in Texts(keys[j]) /\ EntryRead(keys[j], texts[j])
  <2>1. j \in 1 .. Len(keys)
    BY <1>1, <1>2
  <2>2. keys[j] \in Key /\ texts[j] \in Texts(keys[j])
    BY <1>1, <2>1, ElementOfSeq DEF RingRead
  <2> QED BY <2>2, EntriesRead
<1>4. EntriesAreTheKeys
  <2> SUFFICES ASSUME NEW j \in DOMAIN parsed, OneTag(keys[j], texts[j]), texts[j] \in Readable(keys[j])
               PROVE  parsed[j] = ParsePubkeyX(WholeKey(keys[j]))
    BY DEF EntriesAreTheKeys
  <2>1. j \in 1 .. Len(parsed) /\ j \in 1 .. Len(texts)
    BY <1>1, <1>2
  <2>2. parsed[j] = Number(Stripped(texts[j]))
    BY <1>1, <2>1 DEF RingRead
  <2>3. Number(Stripped(texts[j])) = Number(keys[j].x)
    BY <1>3, <2>1 DEF EntryRead
  <2> QED BY <1>3, <2>1, <2>2, <2>3, MemberKeyNumber
<1>5. BadEntriesEndIt
  <2> SUFFICES ASSUME parsing = "ok"
               PROVE  /\ Len(parsed) = Len(keys)
                      /\ \A j \in DOMAIN texts :
                           OneTag(keys[j], texts[j]) => texts[j] \notin TooLong(keys[j]) \cup TooShort(keys[j])
    BY DEF BadEntriesEndIt
  <2>1. Len(parsed) = Len(keys) /\ Len(parsed) = Len(texts)
    BY DEF ParseIInv
  <2>2. ASSUME NEW j \in DOMAIN texts, OneTag(keys[j], texts[j])
        PROVE  texts[j] \notin TooLong(keys[j]) \cup TooShort(keys[j])
    <3>1. EntryVerdict(texts[j]) = "ok" /\ j \in 1 .. Len(texts)
      BY <1>1, <1>2, <2>1 DEF RingRead
    <3>2. EntryRead(keys[j], texts[j])
      BY <1>3, <3>1
    <3> QED BY <2>2, <3>1, <3>2 DEF EntryRead
  <2> QED BY <2>1, <2>2
<1>6. FirstBadEntryDecides
  <2> DEFINE l == Len(parsed) + 1
  <2> SUFFICES ASSUME parsing \in {"err", "panic"}, OneTag(keys[l], texts[l])
               PROVE  texts[l] \in IF parsing = "err" THEN TooLong(keys[l]) ELSE TooShort(keys[l])
    BY DEF FirstBadEntryDecides
  <2>1. EntryVerdict(texts[l]) = parsing /\ Len(parsed) < Len(texts)
    BY DEF ParseIInv
  <2>2. l \in 1 .. Len(texts)
    BY <1>2, <2>1
  <2> HIDE DEF l
  <2>3. texts[l] \in Texts(keys[l]) /\ EntryRead(keys[l], texts[l])
    BY <1>3, <2>2
  <2>4. \/ texts[l] \in TooLong(keys[l]) \/ texts[l] \in TooShort(keys[l])
        \/ texts[l] \in Readable(keys[l]) \/ texts[l] \in Gapped(keys[l])
    BY <2>3 DEF Texts
  <2> QED BY <2>1, <2>3, <2>4 DEF EntryRead
<1>7. ParseTypeOK
  BY <1>1 DEF ParseTypeOK, ParseIInv
<1> QED BY <1>4, <1>5, <1>6, <1>7 DEF RingsAreTheKeys

\* parse_ring, for coordinates of any length and any modulus: an entry that has all
\* of its member's x is read as that member's key, and the first entry of the wrong
\* length ends the parse, in an error if it is too long and in a panic if it is too
\* short, unless an x begins like the tag (parse.rs:55-69).
THEOREM RingsAreReadRight == ParseSpec => []RingsAreTheKeys
BY ParseInv, RingNow, PTL

-----------------------------------------------------------------------------
(* Bits, and rings in their padding. *)

\* The quotient of q N + r is q.
LEMMA QuotientUnique ==
  ASSUME NEW N \in Nat \ {0}, NEW q \in Int, NEW r \in 0 .. N - 1
  PROVE  (q * N + r) \div N = q
<1> DEFINE z == q * N + r
           d == z \div N
           t == z % N
<1>1. z \in Int /\ d \in Int /\ z = N * d + t
  OBVIOUS
<1>2. t = r
  BY ModUnique
<1>3. N * d = q * N
  BY <1>1, <1>2
<1>4. d = q
  BY <1>1, <1>3
<1> QED BY <1>4

\* Powers of two.
LEMMA TwoToPlus ==
  ASSUME NEW m \in Nat, NEW l \in Nat
  PROVE  TwoTo[m + l] = TwoTo[m] * TwoTo[l]
<1> DEFINE t == TwoTo
           S == {k \in Nat : t[m + k] = t[m] * t[k]}
<1>1. t[0] = 1 /\ \A k \in Nat : t[k] \in Nat /\ t[k + 1] = 2 * t[k]
  BY TwoToFacts
<1> HIDE DEF t
<1>2. 0 \in S
  BY <1>1
<1>3. ASSUME NEW k \in S PROVE k + 1 \in S
  <2> DEFINE u == t[m]
             w == t[k]
             j == m + k
  <2>1. /\ u \in Nat /\ w \in Nat /\ j \in Nat /\ t[j] = u * w
        /\ t[j + 1] = 2 * t[j] /\ t[k + 1] = 2 * w /\ m + (k + 1) = j + 1
    BY <1>1
  <2> HIDE DEF u, w, j
  <2>2. 2 * (u * w) = u * (2 * w)
    BY <2>1
  <2>3. t[m + (k + 1)] = u * t[k + 1]
    BY <2>1, <2>2
  <2> QED BY <2>3 DEF u
<1>4. S = Nat
  <2>1. S \in SUBSET Nat /\ \A k \in S : k + 1 \in S
    BY <1>3
  <2> HIDE DEF S
  <2> QED BY <1>2, <2>1, NatSetInduction
<1> QED BY <1>4 DEF t

(* Bits. *)

\* A bit is zero or one, and its number is in the lower half or the upper.
LEMMA BitFacts ==
  ASSUME NEW k \in Nat, NEW j \in Nat
  PROVE  Bit(k, j) \in {0, 1}
<1>1. TwoTo[j] \in Nat \ {0}
  BY TwoToFacts
<1> DEFINE p == TwoTo[j]
           d == k \div p
<1>2. d \in Int
  BY <1>1
<1> HIDE DEF d
<1>3. d % 2 \in 0 .. 1
  BY <1>2
<1> QED BY <1>3 DEF Bit, d

LEMMA TopBit ==
  ASSUME NEW m \in Nat, NEW k \in 0 .. TwoTo[m] - 1
  PROVE  Bit(k, m) = 0 /\ Bit(k + TwoTo[m], m) = 1
<1> DEFINE p == TwoTo[m]
<1>1. p \in Nat \ {0} /\ k \in 0 .. p - 1
  BY TwoToFacts
<1>2. Bit(k, m) = (k \div p) % 2 /\ Bit(k + TwoTo[m], m) = ((k + p) \div p) % 2
  BY DEF Bit
<1> HIDE DEF p
<1>3. 0 * p + k = k /\ 1 * p + k = k + p
  BY <1>1
<1>4. (0 * p + k) \div p = 0
  BY <1>1, QuotientUnique
<1>5. (1 * p + k) \div p = 1
  BY <1>1, QuotientUnique
<1> QED BY <1>2, <1>3, <1>4, <1>5

LEMMA LowBit ==
  ASSUME NEW m \in Nat, NEW k \in 0 .. TwoTo[m] - 1, NEW j \in 0 .. m - 1
  PROVE  Bit(k + TwoTo[m], j) = Bit(k, j)
<1> DEFINE p == TwoTo[j]
           h == TwoTo[m]
           e == TwoTo[m - (j + 1)]
           d == k \div p
           r == k % p
<1>1. j \in Nat /\ j + 1 \in Nat /\ m - (j + 1) \in Nat /\ (m - (j + 1)) + 1 = m - j /\ m - j \in Nat /\ j + (m - j) = m
  OBVIOUS
<1>2. p \in Nat \ {0} /\ e \in Nat
  BY <1>1, TwoToFacts
<1>3. TwoTo[m - j] = 2 * e
  BY <1>1, TwoToFacts
<1>4. h = p * TwoTo[m - j]
  <2>1. TwoTo[j + (m - j)] = TwoTo[j] * TwoTo[m - j]
    BY <1>1, TwoToPlus
  <2> QED BY <1>1, <2>1
<1>5. Bit(k, j) = d % 2 /\ Bit(k + TwoTo[m], j) = ((k + h) \div p) % 2
  BY DEF Bit
<1>6. k \in Int /\ h = p * (2 * e)
  BY <1>3, <1>4
<1> HIDE DEF p, h, e
<1>7. d \in Int /\ r \in 0 .. p - 1 /\ k = p * d + r
  BY <1>2, <1>6
<1> HIDE DEF d, r
<1> DEFINE q == d + 2 * e
<1>8. q \in Int /\ k + h = q * p + r
  BY <1>2, <1>6, <1>7
<1>9. (q * p + r) \div p = q
  <2> HIDE DEF q
  <2> QED BY <1>2, <1>7, <1>8, QuotientUnique
<1>10. q % 2 = d % 2
  BY <1>2, <1>7
<1> QED BY <1>5, <1>8, <1>9, <1>10

\* A number with one bit more.
LEMMA Halves ==
  ASSUME NEW m \in Nat, NEW k \in 0 .. TwoTo[m + 1] - 1
  PROVE  \E l \in 0 .. TwoTo[m] - 1 : (k = l /\ Bit(k, m) = 0) \/ (k = l + TwoTo[m] /\ Bit(k, m) = 1)
<1> DEFINE h == TwoTo[m]
<1>1. h \in Nat /\ TwoTo[m + 1] = 2 * h
  BY TwoToFacts
<1>2. \A l \in 0 .. h - 1 : Bit(l, m) = 0 /\ Bit(l + h, m) = 1
  BY TopBit
<1> HIDE DEF h
<1>3. CASE k < h
  <2>1. k \in 0 .. h - 1
    BY <1>1, <1>3
  <2> QED BY <1>2, <2>1 DEF h
<1>4. CASE k >= h
  <2>1. k - h \in 0 .. h - 1 /\ k = (k - h) + h
    BY <1>1, <1>4
  <2> QED BY <1>2, <2>1 DEF h
<1> QED BY <1>1, <1>3, <1>4

\* The bits determine a position.
AgreeBits(k, l, m) == \A j \in 0 .. m - 1 : Bit(k, j) = Bit(l, j)

\* Numbers of m bits that have the same bits are the same.
LEMMA SameBits ==
  ASSUME NEW m \in Nat, NEW k \in 0 .. TwoTo[m] - 1, NEW l \in 0 .. TwoTo[m] - 1, AgreeBits(k, l, m)
  PROVE  k = l
<1> DEFINE S == {p \in 0 .. m : \A u, v \in 0 .. TwoTo[p] - 1 : AgreeBits(u, v, p) => u = v}
<1>1. 0 \in S
  <2>1. TwoTo[0] = 1
    BY TwoToFacts
  <2>2. \A u, v \in 0 .. TwoTo[0] - 1 : u = v
    BY <2>1
  <2> QED BY <2>2
<1>2. ASSUME NEW p \in 0 .. m - 1, p \in S PROVE p + 1 \in S
  <2>1. p \in Nat /\ p + 1 \in 0 .. m /\ TwoTo[p] \in Nat
    BY TwoToFacts
  <2>2. ASSUME NEW u \in 0 .. TwoTo[p + 1] - 1, NEW v \in 0 .. TwoTo[p + 1] - 1, AgreeBits(u, v, p + 1)
        PROVE  u = v
    <3>1. Bit(u, p) = Bit(v, p) /\ \A j \in 0 .. p - 1 : Bit(u, j) = Bit(v, j)
      <4>1. p \in 0 .. (p + 1) - 1 /\ \A j \in 0 .. p - 1 : j \in 0 .. (p + 1) - 1
        OBVIOUS
      <4> QED BY <2>2, <4>1 DEF AgreeBits
    <3>2. PICK u0 \in 0 .. TwoTo[p] - 1 : (u = u0 /\ Bit(u, p) = 0) \/ (u = u0 + TwoTo[p] /\ Bit(u, p) = 1)
      BY <2>1, Halves
    <3>3. PICK v0 \in 0 .. TwoTo[p] - 1 : (v = v0 /\ Bit(v, p) = 0) \/ (v = v0 + TwoTo[p] /\ Bit(v, p) = 1)
      BY <2>1, Halves
    <3>4. \A j \in 0 .. p - 1 : Bit(u0, j) = Bit(u, j) /\ Bit(v0, j) = Bit(v, j)
      BY <2>1, <3>2, <3>3, LowBit
    <3>5. AgreeBits(u0, v0, p)
      BY <3>1, <3>4 DEF AgreeBits
    <3>6. u0 = v0
      BY <1>2, <3>5
    <3> QED BY <3>1, <3>2, <3>3, <3>6
  <2>3. \A u, v \in 0 .. TwoTo[p + 1] - 1 : AgreeBits(u, v, p + 1) => u = v
    BY <2>2
  <2> QED BY <2>1, <2>3
<1>3. m \in S
  <2>1. \A p \in 0 .. m : p \in S
    <3> HIDE DEF S
    <3> QED BY <1>1, <1>2, UpTo
  <2> QED BY <2>1
<1> QED BY <1>3

(* The logarithm of a ring. *)

\* Log2 is the logarithm, rounded down.
LEMMA LogFacts ==
  ASSUME NEW m \in Nat \ {0}
  PROVE  Log2(m) \in 0 .. m /\ TwoTo[Log2(m)] <= m /\ m < TwoTo[Log2(m) + 1]
<1> DEFINE Fits(l) == TwoTo[l] <= m /\ m < TwoTo[l + 1]
           S == {j \in 0 .. m : TwoTo[j] <= m \/ \E l \in 0 .. j : Fits(l)}
<1>1. TwoTo[0] = 1 /\ \A k \in Nat : TwoTo[k] \in Nat /\ k < TwoTo[k]
  BY TwoToFacts
<1>2. 0 \in S
  BY <1>1
<1>3. ASSUME NEW j \in 0 .. m - 1, j \in S PROVE j + 1 \in S
  <2>1. j \in Nat /\ j + 1 \in Nat /\ j + 1 \in 0 .. m /\ \A l \in 0 .. j : l \in 0 .. j + 1
    OBVIOUS
  <2>2. TwoTo[j + 1] \in Nat
    BY <1>1, <2>1
  <2>3. CASE \E l \in 0 .. j : Fits(l)
    <3> HIDE DEF Fits
    <3> QED BY <2>1, <2>3
  <2>4. CASE TwoTo[j] <= m
    <3>1. TwoTo[j + 1] <= m \/ m < TwoTo[j + 1]
      BY <2>2
    <3>2. j \in 0 .. j + 1
      OBVIOUS
    <3>3. TwoTo[j + 1] <= m \/ Fits(j)
      BY <2>4, <3>1
    <3> HIDE DEF Fits
    <3> QED BY <2>1, <3>2, <3>3
  <2>5. (\E l \in 0 .. j : Fits(l)) \/ TwoTo[j] <= m
    <3> HIDE DEF Fits
    <3> QED BY <1>3
  <2> QED BY <2>3, <2>4, <2>5
<1>4. \E l \in 0 .. m : Fits(l)
  <2>1. m \in S
    <3>1. \A p \in 0 .. m : p \in S
      <4> HIDE DEF S
      <4> QED BY <1>2, <1>3, UpTo
    <3> QED BY <3>1
  <2>2. m < TwoTo[m] /\ TwoTo[m] \in Nat
    BY <1>1
  <2> QED BY <2>1, <2>2
<1>5. Log2(m) = CHOOSE l \in 0 .. m : Fits(l)
  BY DEF Log2
<1>6. Log2(m) \in 0 .. m /\ Fits(Log2(m))
  <2> HIDE DEF Fits
  <2> QED BY <1>4, <1>5
<1> QED BY <1>6

LEMMA SizeFacts ==
  ASSUME NEW m \in Nat, NEW S, NEW rg \in [0 .. m - 1 -> S]
  PROVE  Size(rg) = m /\ DOMAIN rg = 0 .. m - 1
<1>1. DOMAIN rg = 0 .. m - 1
  OBVIOUS
<1>2. Cardinality(0 .. m - 1) = IF 0 > m - 1 THEN 0 ELSE (m - 1) - 0 + 1
  BY FS_Interval
<1>3. Cardinality(0 .. m - 1) = m
  BY <1>2
<1> QED BY <1>1, <1>3 DEF Size

LEMMA NotEmpty ==
  ASSUME NEW rg \in KeyRings
  PROVE  rg # EmptyRing
<1>1. PICK m \in 1 .. MaxMembers : rg \in [0 .. m - 1 -> Keys]
  BY DEF KeyRings
<1>2. 0 \in DOMAIN rg
  BY <1>1, MaxMembersAssumption
<1>3. DOMAIN EmptyRing = {}
  BY DEF EmptyRing
<1> QED BY <1>2, <1>3

\* A ring fits into its padding, and has more members than its logarithm.
LEMMA RingFacts ==
  ASSUME NEW rg \in KeyRings
  PROVE  \E m \in 1 .. MaxMembers :
           /\ rg \in [0 .. m - 1 -> Keys] /\ DOMAIN rg = 0 .. m - 1
           /\ RingLog(rg) \in Nat /\ RingLog(rg) < m /\ m <= TwoTo[RingLog(rg)]
<1>1. PICK m \in 1 .. MaxMembers : rg \in [0 .. m - 1 -> Keys]
  BY DEF KeyRings
<1>2. m \in Nat \ {0} /\ m \in Nat
  BY MaxMembersAssumption
<1>3. Size(rg) = m /\ DOMAIN rg = 0 .. m - 1
  BY <1>1, <1>2, SizeFacts
<1> DEFINE l == Log2(m)
           t == TwoTo[l]
<1>4. l \in 0 .. m /\ TwoTo[l] <= m /\ m < TwoTo[l + 1]
  BY <1>2, LogFacts
<1>5. l \in Nat
  BY <1>4
<1>6. RingLog(rg) = IF m # t THEN l + 1 ELSE l
  BY <1>3 DEF RingLog
<1> HIDE DEF l
<1>7. t \in Nat /\ l < t /\ TwoTo[l + 1] \in Nat
  BY <1>5, TwoToFacts
<1>8. CASE m # t
  <2>1. RingLog(rg) = l + 1 /\ l + 1 < m
    BY <1>2, <1>4, <1>5, <1>6, <1>7, <1>8
  <2>2. m <= TwoTo[RingLog(rg)]
    BY <1>2, <1>4, <1>7, <2>1
  <2> QED BY <1>1, <1>3, <1>5, <2>1, <2>2
<1>9. CASE m = t
  <2>1. RingLog(rg) = l /\ l < m
    BY <1>6, <1>7, <1>9
  <2>2. m <= TwoTo[RingLog(rg)]
    BY <1>2, <1>9, <2>1
  <2> QED BY <1>1, <1>3, <1>5, <2>1, <2>2
<1> QED BY <1>8, <1>9

-----------------------------------------------------------------------------
(* Sums and products of vectors that agree up to multiples. *)

\* Vectors that differ by multiples.
Alike(f, g, m) == \A j \in 0 .. m - 1 : f[j] - g[j] \in Multiples

LEMMA ProductAlike ==
  ASSUME NEW m \in Nat, NEW f, Ints(f, m), NEW g, Ints(g, m), Alike(f, g, m)
  PROVE  ScalarProduct(f, m) = ScalarProduct(g, m)
<1> DEFINE P(k) == ScalarProduct(f, k)
           Q(k) == ScalarProduct(g, k)
           S == {k \in 0 .. m : P(k) = Q(k)}
<1>1. 0 \in S
  <2>1. P(0) = 1 /\ Q(0) = 1
    BY ProductFacts
  <2> QED BY <2>1
<1>2. ASSUME NEW k \in 0 .. m - 1, k \in S PROVE k + 1 \in S
  <2> DEFINE p0 == P(k)
             p1 == P(k + 1)
             q1 == Q(k + 1)
             fk == f[k]
             gk == g[k]
  <2>1. fk \in Int /\ p0 \in Int /\ p1 \in Int /\ p1 - p0 * fk \in Multiples
    BY ProductTurn
  <2>2. gk \in Int /\ q1 \in Int /\ q1 - p0 * gk \in Multiples
    <3>1. P(k) = Q(k)
      BY <1>2
    <3>2. gk \in Int /\ q1 \in Int /\ q1 - Q(k) * gk \in Multiples
      BY ProductTurn
    <3> QED BY <3>1, <3>2
  <2>3. fk - gk \in Multiples
    BY DEF Alike
  <2>4. p1 \in Scalar /\ q1 \in Scalar
    <3>1. k + 1 \in 0 .. m
      OBVIOUS
    <3> QED BY <3>1, ProductFacts
  <2> HIDE DEF p0, p1, q1, fk, gk
  <2> DEFINE d1 == p1 - p0 * fk
             d2 == q1 - p0 * gk
             d3 == fk - gk
  <2>5. p1 - q1 = (d1 + d3 * p0) - d2
    BY <2>1, <2>2
  <2>6. d1 \in Multiples /\ d2 \in Multiples /\ d3 \in Multiples
    BY <2>1, <2>2, <2>3
  <2> HIDE DEF d1, d2, d3
  <2>7. d1 + d3 * p0 \in Multiples
    BY <2>1, <2>6, MultiplesCombine
  <2>8. p1 - q1 \in Multiples
    BY <2>5, <2>6, <2>7, MultiplesClosed
  <2>9. p1 = q1
    BY <2>4, <2>8, ScalarsSame
  <2> QED BY <2>9 DEF p1, q1
<1>3. m \in S
  <2>1. \A k \in 0 .. m : k \in S
    <3> HIDE DEF S
    <3> QED BY <1>1, <1>2, UpTo
  <2> QED BY <2>1
<1> QED BY <1>3

\* A combination of sums.
LEMMA SumCombined ==
  ASSUME NEW m \in Nat, NEW f, Ints(f, m), NEW g, Ints(g, m), NEW h, Ints(h, m), NEW u \in Int, NEW w \in Int,
         Combination(f, u, g, w, h, m)
  PROVE  Mixed(ScalarSum(h, m), u, ScalarSum(f, m), w, ScalarSum(g, m))
<1> DEFINE P(k) == ScalarSum(f, k)
           Q(k) == ScalarSum(g, k)
           R(k) == ScalarSum(h, k)
           S == {k \in 0 .. m : Mixed(R(k), u, P(k), w, Q(k))}
<1>1. 0 \in S
  <2>1. P(0) = 0 /\ Q(0) = 0 /\ R(0) = 0
    BY SumFacts
  <2>2. 0 - (u * 0 + w * 0) = 0
    OBVIOUS
  <2>3. Mixed(R(0), u, P(0), w, Q(0))
    BY <2>1, <2>2, ZeroIsMultiple DEF Mixed
  <2> QED BY <2>3
<1>2. ASSUME NEW k \in 0 .. m - 1, k \in S PROVE k + 1 \in S
  <2> DEFINE p0 == P(k)
             p1 == P(k + 1)
             q0 == Q(k)
             q1 == Q(k + 1)
             r0 == R(k)
             r1 == R(k + 1)
             fk == f[k]
             gk == g[k]
             hk == h[k]
  <2>1. fk \in Int /\ p0 \in Int /\ p1 \in Int /\ p1 - (p0 + fk) \in Multiples
    BY SumTurn
  <2>2. gk \in Int /\ q0 \in Int /\ q1 \in Int /\ q1 - (q0 + gk) \in Multiples
    BY SumTurn
  <2>3. hk \in Int /\ r0 \in Int /\ r1 \in Int /\ r1 - (r0 + hk) \in Multiples
    BY SumTurn
  <2>4. Mixed(r0, u, p0, w, q0)
    BY <1>2
  <2>5. Mixed(hk, u, fk, w, gk)
    BY DEF Combination
  <2> HIDE DEF p0, p1, q0, q1, r0, r1, fk, gk, hk
  <2> DEFINE d1 == p1 - (p0 + fk)
             d2 == q1 - (q0 + gk)
             d3 == r1 - (r0 + hk)
             d4 == r0 - (u * p0 + w * q0)
             d5 == hk - (u * fk + w * gk)
  <2>6. r1 - (u * p1 + w * q1) = (d3 + (d4 + d5)) - (d1 * u + d2 * w)
    BY <2>1, <2>2, <2>3
  <2>7. d1 \in Multiples /\ d2 \in Multiples /\ d3 \in Multiples /\ d4 \in Multiples /\ d5 \in Multiples
    BY <2>1, <2>2, <2>3, <2>4, <2>5 DEF Mixed
  <2> HIDE DEF d1, d2, d3, d4, d5
  <2> DEFINE e1 == d4 + d5
             e2 == d1 * u + d2 * w
             e3 == d3 + e1
  <2>8. e1 \in Multiples /\ e2 \in Multiples
    BY <2>7, MultiplesClosed, MultiplesCombine
  <2>9. e3 \in Multiples
    <3> HIDE DEF e1
    <3> QED BY <2>7, <2>8, MultiplesClosed
  <2>10. e3 - e2 \in Multiples
    <3> HIDE DEF e2, e3
    <3> QED BY <2>8, <2>9, MultiplesClosed
  <2>11. Mixed(r1, u, p1, w, q1)
    BY <2>6, <2>10 DEF Mixed
  <2>12. Mixed(R(k + 1), u, P(k + 1), w, Q(k + 1))
    BY <2>11 DEF r1, p1, q1
  <2> HIDE DEF P, Q, R
  <2> QED BY <2>12
<1>3. m \in S
  <2>1. \A k \in 0 .. m : k \in S
    <3> HIDE DEF S
    <3> QED BY <1>1, <1>2, UpTo
  <2> QED BY <2>1
<1> QED BY <1>3

LEMMA SumAlike ==
  ASSUME NEW m \in Nat, NEW f, Ints(f, m), NEW g, Ints(g, m), Alike(f, g, m)
  PROVE  ScalarSum(f, m) = ScalarSum(g, m)
<1>1. Combination(g, 1, g, 0, f, m)
  <2>1. ASSUME NEW j \in 0 .. m - 1 PROVE Mixed(f[j], 1, g[j], 0, g[j])
    <3>1. f[j] \in Int /\ g[j] \in Int /\ f[j] - g[j] \in Multiples
      BY DEF Ints, Alike
    <3>2. 1 * g[j] + 0 * g[j] = g[j]
      BY <3>1
    <3> QED BY <3>1, <3>2 DEF Mixed
  <2> QED BY <2>1 DEF Combination
<1> DEFINE u == ScalarSum(f, m)
           w == ScalarSum(g, m)
<1>2. Mixed(u, 1, w, 0, w)
  <2>1. 1 \in Int /\ 0 \in Int
    OBVIOUS
  <2> QED BY <1>1, <2>1, SumCombined
<1>3. u \in Scalar /\ u \in Int /\ w \in Scalar /\ w \in Int
  <2>1. m \in 0 .. m
    OBVIOUS
  <2> QED BY <2>1, SumFacts
<1> HIDE DEF u, w
<1>4. 1 * w + 0 * w = w
  BY <1>3
<1>5. u = w
  BY <1>2, <1>3, <1>4, ScalarsSame DEF Mixed
<1> QED BY <1>5 DEF u, w

\* A sum in two parts.
Added(h, f, g) == h - (f + g) \in Multiples

\* A sum in two parts.
LEMMA SumSplit ==
  ASSUME NEW p \in Nat, NEW q \in Nat, NEW f, Ints(f, p + q), NEW g, Ints(g, q),
         \A j \in 0 .. q - 1 : g[j] = f[j + p]
  PROVE  Added(ScalarSum(f, p + q), ScalarSum(f, p), ScalarSum(g, q))
<1> DEFINE m == p + q
           P(k) == ScalarSum(f, p + k)
           Q(k) == ScalarSum(g, k)
           r == ScalarSum(f, p)
           S == {k \in 0 .. q : Added(P(k), r, Q(k))}
<1>1. m \in Nat /\ p \in 0 .. m /\ p + 0 = p
  OBVIOUS
<1>2. r \in Int
  <2> HIDE DEF m
  <2>1. Ints(f, m)
    BY DEF m
  <2> QED BY <1>1, <2>1, SumFacts
<1>3. 0 \in S
  <2>1. P(0) = r /\ Q(0) = 0
    BY <1>1, SumFacts
  <2> HIDE DEF r, P, Q
  <2>2. r - (r + 0) = 0
    BY <1>2
  <2> QED BY <2>1, <2>2, ZeroIsMultiple DEF Added
<1>4. ASSUME NEW k \in 0 .. q - 1, k \in S PROVE k + 1 \in S
  <2> DEFINE l == p + k
             p0 == P(k)
             p1 == P(k + 1)
             q0 == Q(k)
             q1 == Q(k + 1)
             gk == g[k]
  <2>1. l \in 0 .. m - 1 /\ p + (k + 1) = l + 1
    OBVIOUS
  <2>2. f[l] = gk
    <3>1. k + p = l /\ g[k] = f[k + p]
      OBVIOUS
    <3> QED BY <3>1
  <2>3. gk \in Int /\ q0 \in Int /\ q1 \in Int /\ q1 - (q0 + gk) \in Multiples
    BY SumTurn
  <2>4. p0 \in Int /\ p1 \in Int /\ p1 - (p0 + gk) \in Multiples
    <3>1. Ints(f, m)
      BY DEF m
    <3> HIDE DEF m, l
    <3>2. ScalarSum(f, l) \in Int /\ ScalarSum(f, l + 1) \in Int
             /\ ScalarSum(f, l + 1) - (ScalarSum(f, l) + f[l]) \in Multiples
      BY <1>1, <2>1, <3>1, SumTurn
    <3>3. p0 = ScalarSum(f, l) /\ p1 = ScalarSum(f, l + 1)
      BY <2>1 DEF l
    <3> QED BY <2>2, <3>2, <3>3
  <2>5. Added(p0, r, q0)
    BY <1>4
  <2> HIDE DEF p0, p1, q0, q1, gk, r
  <2> DEFINE d1 == q1 - (q0 + gk)
             d2 == p1 - (p0 + gk)
             d3 == p0 - (r + q0)
  <2>6. p1 - (r + q1) = (d2 + d3) - d1
    BY <1>2, <2>3, <2>4
  <2>7. d1 \in Multiples /\ d2 \in Multiples /\ d3 \in Multiples
    BY <2>3, <2>4, <2>5 DEF Added
  <2> HIDE DEF d1, d2, d3
  <2>8. d2 + d3 \in Multiples
    BY <2>7, MultiplesClosed
  <2> DEFINE e == d2 + d3
  <2> HIDE DEF e
  <2>9. e - d1 \in Multiples
    BY <2>7, <2>8, MultiplesClosed DEF e
  <2>10. Added(p1, r, q1)
    BY <2>6, <2>9 DEF Added, e
  <2>11. Added(P(k + 1), r, Q(k + 1))
    BY <2>10 DEF p1, q1
  <2> HIDE DEF P, Q
  <2> QED BY <2>11
<1>5. q \in S
  <2>1. \A k \in 0 .. q : k \in S
    <3> HIDE DEF S
    <3> QED BY <1>3, <1>4, UpTo
  <2> QED BY <2>1
<1> QED BY <1>5

-----------------------------------------------------------------------------
(* The weights of a challenge sum to its power. *)

\* The factors of the weight of member k: f_j or c - f_j by its bits.
WeightVec(fi, c, m, k) == [j \in 0 .. m - 1 |-> IF Bit(k, j) = 0 THEN c - fi[j] ELSE fi[j]]

LEMMA WeightFacts ==
  ASSUME NEW m \in Nat, NEW fi, Ints(fi, m), NEW c \in Int, NEW k
  PROVE  /\ Ints(WeightVec(fi, c, m, k), m) /\ Weight(fi, c, m, k) = ScalarProduct(WeightVec(fi, c, m, k), m)
         /\ Weight(fi, c, m, k) \in Scalar /\ Weight(fi, c, m, k) \in Int
<1> DEFINE f == WeightVec(fi, c, m, k)
<1>1. Ints(f, m)
  <2>1. ASSUME NEW j \in 0 .. m - 1 PROVE f[j] \in Int
    <3>1. fi[j] \in Int
      BY DEF Ints
    <3>2. f[j] = IF Bit(k, j) = 0 THEN c - fi[j] ELSE fi[j]
      BY DEF WeightVec
    <3> HIDE DEF f
    <3> QED BY <3>1, <3>2
  <2> QED BY <2>1 DEF Ints
<1>2. Weight(fi, c, m, k) = ScalarProduct(f, m)
  BY DEF Weight, WeightVec
<1> HIDE DEF f
<1>3. m \in 0 .. m
  OBVIOUS
<1>4. ScalarProduct(f, m) \in Scalar /\ ScalarProduct(f, m) \in Int
  BY <1>1, <1>3, ProductFacts
<1> QED BY <1>1, <1>2, <1>4 DEF f

\* h is the product of f and g up to multiples.
Times(h, f, g) == h - f * g \in Multiples

\* One more bit is one more factor.
LEMMA WeightNext ==
  ASSUME NEW m \in Nat, NEW fi, Ints(fi, m + 1), NEW c \in Int, NEW k, NEW l, AgreeBits(l, k, m)
  PROVE  Times(Weight(fi, c, m + 1, l), Weight(fi, c, m, k), IF Bit(l, m) = 0 THEN c - fi[m] ELSE fi[m])
<1> DEFINE f == WeightVec(fi, c, m, k)
           g == WeightVec(fi, c, m + 1, l)
           gm == IF Bit(l, m) = 0 THEN c - fi[m] ELSE fi[m]
<1>1. m + 1 \in Nat /\ m \in 0 .. (m + 1) - 1 /\ \A j \in 0 .. m - 1 : j \in 0 .. (m + 1) - 1
  OBVIOUS
<1>2. Ints(fi, m)
  BY <1>1 DEF Ints
<1>3. Ints(f, m) /\ Weight(fi, c, m, k) = ScalarProduct(f, m)
  BY <1>2, WeightFacts
<1>4. Ints(g, m + 1) /\ Weight(fi, c, m + 1, l) = ScalarProduct(g, m + 1)
  BY <1>1, WeightFacts
<1>5. g[m] = gm
  BY <1>1 DEF WeightVec
<1>6. ASSUME NEW j \in 0 .. m - 1 PROVE g[j] = f[j] /\ f[j] \in Int
  <2>1. Bit(l, j) = Bit(k, j)
    BY DEF AgreeBits
  <2>2. g[j] = IF Bit(l, j) = 0 THEN c - fi[j] ELSE fi[j]
    BY <1>1 DEF WeightVec
  <2>3. f[j] = IF Bit(k, j) = 0 THEN c - fi[j] ELSE fi[j]
    BY DEF WeightVec
  <2>4. f[j] \in Int
    BY <1>3 DEF Ints
  <2> QED BY <2>1, <2>2, <2>3, <2>4
<1> HIDE DEF f, g
<1>7. Ints(g, m)
  BY <1>6 DEF Ints
<1>8. Alike(g, f, m)
  <2>1. \A j \in 0 .. m - 1 : g[j] - f[j] \in Multiples
    BY <1>6, DifferOnce
  <2> QED BY <2>1 DEF Alike
<1>9. ScalarProduct(g, m) = ScalarProduct(f, m)
  BY <1>3, <1>7, <1>8, ProductAlike
<1>10. ScalarProduct(g, m + 1) - ScalarProduct(g, m) * g[m] \in Multiples
  BY <1>1, <1>4, ProductTurn
<1> QED BY <1>3, <1>4, <1>5, <1>9, <1>10 DEF Times

\* The weights of all members.
Weights(fi, c, m) == [k \in 0 .. TwoTo[m] - 1 |-> Weight(fi, c, m, k)]

LEMMA WeightsInts ==
  ASSUME NEW m \in Nat, NEW fi, Ints(fi, m), NEW c \in Int
  PROVE  /\ Ints(Weights(fi, c, m), TwoTo[m])
         /\ \A k \in 0 .. TwoTo[m] - 1 : Weights(fi, c, m)[k] = Weight(fi, c, m, k)
                                         /\ Weight(fi, c, m, k) \in Int
<1>1. \A k \in 0 .. TwoTo[m] - 1 : Weights(fi, c, m)[k] = Weight(fi, c, m, k)
  BY DEF Weights
<1>2. \A k \in 0 .. TwoTo[m] - 1 : Weight(fi, c, m, k) \in Int
  BY WeightFacts
<1> QED BY <1>1, <1>2 DEF Ints

\* What a vector of multiples of w sums to.
LEMMA SumTimes ==
  ASSUME NEW m \in Nat, NEW f, Ints(f, m), NEW h, Ints(h, m), NEW u \in Int,
         \A j \in 0 .. m - 1 : Times(h[j], f[j], u)
  PROVE  Times(ScalarSum(h, m), ScalarSum(f, m), u)
<1>1. Combination(f, u, f, 0, h, m)
  <2>1. ASSUME NEW j \in 0 .. m - 1 PROVE Mixed(h[j], u, f[j], 0, f[j])
    <3> DEFINE fj == f[j]
    <3>1. fj \in Int /\ h[j] \in Int /\ h[j] - fj * u \in Multiples
      BY DEF Ints, Times
    <3> HIDE DEF fj
    <3>2. u * fj + 0 * fj = fj * u
      BY <3>1
    <3>3. Mixed(h[j], u, fj, 0, fj)
      BY <3>1, <3>2 DEF Mixed
    <3> QED BY <3>3 DEF fj
  <2> QED BY <2>1 DEF Combination
<1> DEFINE t == ScalarSum(f, m)
           w == ScalarSum(h, m)
<1>2. Mixed(w, u, t, 0, t)
  <2>1. 0 \in Int
    OBVIOUS
  <2> QED BY <1>1, <2>1, SumCombined
<1>3. t \in Int /\ w \in Int
  <2>1. m \in 0 .. m
    OBVIOUS
  <2> QED BY <2>1, SumFacts
<1> HIDE DEF t, w
<1>4. u * t + 0 * t = t * u
  BY <1>3
<1>5. Times(w, t, u)
  BY <1>2, <1>3, <1>4 DEF Mixed, Times
<1> QED BY <1>5 DEF t, w

\* The weights of a challenge sum to its power.
LEMMA WeightsSumStep ==
  ASSUME NEW m \in Nat, NEW fi, Ints(fi, m + 1), NEW c \in Int,
         ScalarSum(Weights(fi, c, m), TwoTo[m]) - Pow(c, m) \in Multiples
  PROVE  ScalarSum(Weights(fi, c, m + 1), TwoTo[m + 1]) - Pow(c, m + 1) \in Multiples
<1> DEFINE p == TwoTo[m]
           w == Weights(fi, c, m)
           h == Weights(fi, c, m + 1)
           g == [j \in 0 .. p - 1 |-> h[j + p]]
           q == fi[m]
<1>1. m + 1 \in Nat /\ p \in Nat /\ TwoTo[m + 1] = p + p
  <2>1. TwoTo[m + 1] = 2 * p /\ p \in Nat
    BY TwoToFacts
  <2> HIDE DEF p
  <2> QED BY <2>1
<1>2. Ints(fi, m) /\ q \in Int
  <2>1. m \in 0 .. (m + 1) - 1 /\ \A j \in 0 .. m - 1 : j \in 0 .. (m + 1) - 1
    OBVIOUS
  <2> QED BY <2>1 DEF Ints
<1>3. Ints(w, p) /\ \A k \in 0 .. p - 1 : w[k] = Weight(fi, c, m, k)
  BY <1>2, WeightsInts
<1>4. Ints(h, p + p) /\ \A k \in 0 .. (p + p) - 1 : h[k] = Weight(fi, c, m + 1, k)
  BY <1>1, WeightsInts
<1>5. \A k \in 0 .. p - 1 : /\ k \in 0 .. (p + p) - 1 /\ k + p \in 0 .. (p + p) - 1
                            /\ g[k] = h[k + p]
  BY <1>1
<1> HIDE DEF g
<1>6. ASSUME NEW k \in 0 .. p - 1
      PROVE  Times(h[k], w[k], c - q) /\ Times(g[k], w[k], q)
  <2>1. Bit(k, m) = 0 /\ Bit(k + p, m) = 1
    BY TopBit
  <2>2. AgreeBits(k, k, m) /\ AgreeBits(k + p, k, m)
    BY LowBit DEF AgreeBits
  <2> HIDE DEF p, h, w, q
  <2>3. Times(Weight(fi, c, m + 1, k), Weight(fi, c, m, k), c - q)
    <3>1. Times(Weight(fi, c, m + 1, k), Weight(fi, c, m, k), IF Bit(k, m) = 0 THEN c - fi[m] ELSE fi[m])
      BY <2>2, WeightNext
    <3> QED BY <2>1, <3>1 DEF q
  <2>4. Times(Weight(fi, c, m + 1, k + p), Weight(fi, c, m, k), q)
    <3> DEFINE l == k + p
    <3> HIDE DEF l
    <3>1. AgreeBits(l, k, m) /\ Bit(l, m) = 1
      BY <2>1, <2>2 DEF l
    <3>2. Times(Weight(fi, c, m + 1, l), Weight(fi, c, m, k), IF Bit(l, m) = 0 THEN c - fi[m] ELSE fi[m])
      BY <3>1, WeightNext
    <3>3. Times(Weight(fi, c, m + 1, l), Weight(fi, c, m, k), q)
      BY <3>1, <3>2 DEF q
    <3> QED BY <3>3 DEF l
  <2> QED BY <1>3, <1>4, <1>5, <2>3, <2>4
<1> HIDE DEF p, w, h, q
<1>7. Ints(h, p) /\ Ints(g, p)
  <2>1. \A k \in 0 .. p - 1 : h[k] \in Int /\ h[k + p] \in Int
    BY <1>4, <1>5 DEF Ints
  <2> QED BY <1>5, <2>1 DEF Ints
<1> DEFINE t == ScalarSum(w, p)
           t1 == ScalarSum(h, p)
           t2 == ScalarSum(g, p)
           tt == ScalarSum(h, p + p)
<1>8. Times(t1, t, c - q)
  <2> DEFINE u == c - q
  <2>1. u \in Int
    BY <1>2
  <2> HIDE DEF u
  <2>2. \A j \in 0 .. p - 1 : Times(h[j], w[j], u)
    BY <1>6 DEF u
  <2>3. Times(t1, t, u)
    BY <1>1, <1>3, <1>7, <2>1, <2>2, SumTimes
  <2> QED BY <2>3 DEF u
<1>9. Times(t2, t, q)
  BY <1>1, <1>2, <1>3, <1>6, <1>7, SumTimes
<1>10. Added(tt, t1, t2)
  BY <1>1, <1>4, <1>5, <1>7, SumSplit
<1>11. t \in Int /\ t1 \in Int /\ t2 \in Int /\ tt \in Int
  <2>1. p \in 0 .. p /\ p + p \in 0 .. p + p /\ p + p \in Nat
    BY <1>1
  <2>2. t \in Int /\ t1 \in Int /\ t2 \in Int
    BY <1>1, <1>3, <1>7, <2>1, SumFacts
  <2>3. tt \in Int
    BY <1>4, <2>1, SumFacts
  <2> QED BY <2>2, <2>3
<1> DEFINE e0 == Pow(c, m)
           e1 == Pow(c, m + 1)
<1>12. e0 \in Int /\ e1 \in Int /\ e1 - e0 * c \in Multiples
  <2>1. e0 \in Int /\ e1 = (e0 * c) % Order
    BY PowFacts
  <2> HIDE DEF e0, e1
  <2> DEFINE z == e0 * c
  <2>2. z \in Int
    BY <2>1
  <2> HIDE DEF z
  <2>3. z % Order \in Int /\ (z % Order) - z \in Multiples
    BY <2>2, ReducedBy
  <2> QED BY <2>1, <2>3 DEF z
<1>13. t - e0 \in Multiples
  BY DEF w, p
<1> HIDE DEF t, t1, t2, tt, e0, e1
<1> DEFINE d1 == t1 - t * (c - q)
           d2 == t2 - t * q
           d3 == tt - (t1 + t2)
           d4 == e1 - e0 * c
           d5 == t - e0
<1>14. tt - e1 = ((d1 + d2) + d3) + (d5 * c - d4 * 1)
  BY <1>2, <1>11, <1>12
<1>15. d1 \in Multiples /\ d2 \in Multiples /\ d3 \in Multiples /\ d4 \in Multiples /\ d5 \in Multiples
  BY <1>8, <1>9, <1>10, <1>12, <1>13 DEF Times, Added
<1> HIDE DEF d1, d2, d3, d4, d5
<1> DEFINE z1 == d1 + d2
           z2 == z1 + d3
           z3 == d5 * c
           z4 == d4 * 1
           z5 == z3 - z4
<1>16. z1 \in Multiples /\ z3 \in Multiples /\ z4 \in Multiples
  BY <1>15, MultiplesClosed, MultiplesTimes
<1>17. z2 \in Multiples /\ z5 \in Multiples
  <2> HIDE DEF z1, z3, z4
  <2> QED BY <1>15, <1>16, MultiplesClosed
<1>18. z2 + z5 \in Multiples
  <2> HIDE DEF z2, z5
  <2> QED BY <1>17, MultiplesClosed
<1>19. tt - e1 \in Multiples
  BY <1>14, <1>18
<1> QED BY <1>1, <1>19 DEF tt, e1, h, p

LEMMA WeightsSum ==
  ASSUME NEW m \in Nat, NEW fi, Ints(fi, m), NEW c \in Int
  PROVE  ScalarSum(Weights(fi, c, m), TwoTo[m]) - Pow(c, m) \in Multiples
<1> DEFINE D(k) == ScalarSum(Weights(fi, c, k), TwoTo[k]) - Pow(c, k)
           S == {k \in 0 .. m : D(k) \in Multiples}
<1>1. 0 \in S
  <2>1. TwoTo[0] = 1 /\ 0 \in 0 .. TwoTo[0] - 1
    BY TwoToFacts
  <2>2. Ints(fi, 0) /\ 0 \in Nat
    BY DEF Ints
  <2>3. Ints(Weights(fi, c, 0), 1) /\ Weights(fi, c, 0)[0] = Weight(fi, c, 0, 0)
    BY <2>1, <2>2, WeightsInts
  <2>4. Weight(fi, c, 0, 0) = 1
    <3>1. Ints(WeightVec(fi, c, 0, 0), 0) /\ Weight(fi, c, 0, 0) = ScalarProduct(WeightVec(fi, c, 0, 0), 0)
      BY <2>2, WeightFacts
    <3> QED BY <2>2, <3>1, ProductFacts
  <2> DEFINE f == Weights(fi, c, 0)
  <2> HIDE DEF f
  <2>5. Ints(f, 1) /\ f[0] = 1
    BY <2>3, <2>4 DEF f
  <2>6. 1 \in Nat /\ 0 \in 0 .. 1 - 1 /\ 0 + 1 = 1
    OBVIOUS
  <2>7. ScalarSum(f, 0) = 0 /\ ScalarSum(f, 0 + 1) = (ScalarSum(f, 0) + f[0]) % Order
    BY <2>5, <2>6, SumFacts
  <2>8. ScalarSum(f, 1) = 1
    <3>1. (0 + 1) % Order = 1
      BY OrderFacts
    <3> QED BY <2>5, <2>6, <2>7, <3>1
  <2>9. Pow(c, 0) = 1
    BY PowFacts
  <2>10. D(0) = 0
    BY <2>1, <2>8, <2>9 DEF f
  <2>11. D(0) \in Multiples
    BY <2>10, ZeroIsMultiple
  <2> HIDE DEF D
  <2> QED BY <2>11
<1>2. ASSUME NEW k \in 0 .. m - 1, k \in S PROVE k + 1 \in S
  <2>1. k \in Nat /\ k + 1 \in 0 .. m
    OBVIOUS
  <2>2. Ints(fi, k + 1)
    <3>1. \A j \in 0 .. (k + 1) - 1 : j \in 0 .. m - 1
      OBVIOUS
    <3> QED BY <3>1 DEF Ints
  <2>3. D(k) \in Multiples
    BY <1>2
  <2>4. D(k + 1) \in Multiples
    BY <2>1, <2>2, <2>3, WeightsSumStep
  <2> HIDE DEF D
  <2> QED BY <2>1, <2>4
<1>3. m \in S
  <2>1. \A k \in 0 .. m : k \in S
    <3> HIDE DEF S
    <3> QED BY <1>1, <1>2, UpTo
  <2> QED BY <2>1
<1> QED BY <1>3

-----------------------------------------------------------------------------
(* The weights of the prover's answers are polynomials in the challenge. *)

\* f_j and what the other value of the bit gives, up to multiples.
LEMMA FactorFacts ==
  ASSUME NEW l \in {0, 1}, NEW aj \in Int, NEW c \in Int
  PROVE  /\ F1(l, aj, c) \in Scalar /\ F1(l, aj, c) \in Int /\ F1(l, aj, c) - (l * c + aj) \in Multiples
         /\ F0(l, aj, c) \in Scalar /\ F0(l, aj, c) \in Int
         /\ (c - F1(l, aj, c)) - ((1 - l) * c - aj) \in Multiples
         /\ (c - F1(l, aj, c)) - F0(l, aj, c) \in Multiples
<1> DEFINE u == l * c + aj
           w == (1 - l) * c - aj
           f == F1(l, aj, c)
           g == F0(l, aj, c)
<1>1. l \in Int /\ u \in Int /\ w \in Int /\ c - u = w
  <2>1. CASE l = 0
    BY <2>1
  <2>2. CASE l = 1
    BY <2>2
  <2> QED BY <2>1, <2>2
<1>2. f = u % Order /\ g = w % Order
  BY DEF F1, F0
<1> HIDE DEF u, w, f, g
<1>3. f \in Scalar /\ f \in Int /\ f - u \in Multiples /\ g \in Scalar /\ g \in Int /\ g - w \in Multiples
  BY <1>1, <1>2, ReducedBy
<1> DEFINE d == f - u
           e == g - w
<1>4. d \in Multiples /\ e \in Multiples /\ (c - f) - w = 0 - d /\ (c - f) - g = (0 - d) - e
  BY <1>1, <1>3
<1> HIDE DEF d, e
<1>5. 0 - d \in Multiples
  BY <1>4, MultiplesClosed, ZeroIsMultiple
<1> DEFINE z == 0 - d
<1> HIDE DEF z
<1>6. z - e \in Multiples
  BY <1>4, <1>5, MultiplesClosed DEF z
<1>7. (c - f) - w \in Multiples /\ (c - f) - g \in Multiples
  BY <1>4, <1>5, <1>6 DEF z
<1> QED BY <1>3, <1>7 DEF f, g, u, w

\* The answers f_j and c - f_j for all bits.
LEMMA AnswersInts ==
  ASSUME NEW m \in Nat, NEW idx \in Nat, NEW av, Ints(av, m), NEW c \in Int
  PROVE  Ints(F1s(idx, av, m, c), m) /\ Ints(F0s(idx, av, m, c), m)
         /\ \A j \in 0 .. m - 1 : /\ Bit(idx, j) \in {0, 1} /\ av[j] \in Int
                                  /\ F1s(idx, av, m, c)[j] = F1(Bit(idx, j), av[j], c)
                                  /\ F0s(idx, av, m, c)[j] = F0(Bit(idx, j), av[j], c)
<1>1. ASSUME NEW j \in 0 .. m - 1
      PROVE  /\ Bit(idx, j) \in {0, 1} /\ av[j] \in Int
             /\ F1s(idx, av, m, c)[j] = F1(Bit(idx, j), av[j], c) /\ F1s(idx, av, m, c)[j] \in Int
             /\ F0s(idx, av, m, c)[j] = F0(Bit(idx, j), av[j], c) /\ F0s(idx, av, m, c)[j] \in Int
  <2>1. Bit(idx, j) \in {0, 1} /\ av[j] \in Int
    BY BitFacts DEF Ints
  <2>2. F1(Bit(idx, j), av[j], c) \in Int /\ F0(Bit(idx, j), av[j], c) \in Int
    <3> DEFINE l == Bit(idx, j)
               aj == av[j]
    <3> HIDE DEF l, aj
    <3>1. l \in {0, 1} /\ aj \in Int
      BY <2>1 DEF l, aj
    <3>2. F1(l, aj, c) \in Int /\ F0(l, aj, c) \in Int
      BY <3>1, FactorFacts
    <3> QED BY <3>2 DEF l, aj
  <2>3. F1s(idx, av, m, c)[j] = F1(Bit(idx, j), av[j], c)
    BY DEF F1s
  <2>4. F0s(idx, av, m, c)[j] = F0(Bit(idx, j), av[j], c)
    BY DEF F0s
  <2> QED BY <2>1, <2>2, <2>3, <2>4
<1> QED BY <1>1 DEF Ints

LEMMA AnswersAt ==
  ASSUME NEW m \in Nat, NEW idx \in Nat, NEW av, Ints(av, m), NEW c \in Int, NEW j \in 0 .. m - 1
  PROVE  /\ Bit(idx, j) \in {0, 1} /\ av[j] \in Int
         /\ F1s(idx, av, m, c)[j] = F1(Bit(idx, j), av[j], c)
         /\ F0s(idx, av, m, c)[j] = F0(Bit(idx, j), av[j], c)
BY AnswersInts

\* The weight of member k has degree m, and leads with one only for the prover's
\* own index.
LEMMA WeightPoly ==
  ASSUME NEW m \in Nat, NEW idx \in Nat, NEW av, Ints(av, m), NEW k \in Nat,
         NEW f, \A v \in Scalar : f[v] = Weight(F1s(idx, av, m, v), v, m, k)
  PROVE  IsPoly(f, m, IF AgreeBits(k, idx, m) THEN 1 ELSE 0)
<1> DEFINE F == [v \in Scalar |-> WeightVec(F1s(idx, av, m, v), v, m, k)]
           u == [j \in 0 .. m - 1 |-> IF Bit(k, j) = Bit(idx, j) THEN 1 ELSE 0]
           w == [j \in 0 .. m - 1 |-> IF Bit(k, j) = 0 THEN -av[j] ELSE av[j]]
<1>1. \A v \in Scalar : F[v] = WeightVec(F1s(idx, av, m, v), v, m, k)
  OBVIOUS
<1>2. /\ u \in [0 .. m - 1 -> {0, 1}]
      /\ \A j \in 0 .. m - 1 : u[j] = 1 <=> Bit(k, j) = Bit(idx, j)
      /\ \A j \in 0 .. m - 1 : u[j] = IF Bit(k, j) = Bit(idx, j) THEN 1 ELSE 0
  OBVIOUS
<1>3. \A j \in 0 .. m - 1 : w[j] = IF Bit(k, j) = 0 THEN -av[j] ELSE av[j]
  OBVIOUS
<1>4. \A j \in 0 .. m - 1 : av[j] \in Int /\ Bit(idx, j) \in {0, 1} /\ Bit(k, j) \in {0, 1}
  BY BitFacts DEF Ints
<1>5. Ints(w, m)
  <2> HIDE DEF w
  <2> QED BY <1>3, <1>4 DEF Ints
<1> HIDE DEF F, u, w
<1>6. ASSUME NEW v \in Scalar
      PROVE  /\ Ints(F[v], m) /\ f[v] = ScalarProduct(F[v], m)
             /\ \A j \in 0 .. m - 1 : F[v][j] - (u[j] * v + w[j]) \in Multiples
  <2>1. v \in Int
    BY ScalarsAreInts
  <2> DEFINE fi == F1s(idx, av, m, v)
  <2>2. Ints(fi, m) /\ \A j \in 0 .. m - 1 : fi[j] = F1(Bit(idx, j), av[j], v)
    BY <2>1, AnswersInts
  <2>3. F[v] = WeightVec(fi, v, m, k)
    BY <1>1
  <2>4. f[v] = Weight(fi, v, m, k)
    OBVIOUS
  <2> HIDE DEF fi
  <2>5. Ints(F[v], m) /\ f[v] = ScalarProduct(F[v], m)
    BY <2>1, <2>2, <2>3, <2>4, WeightFacts
  <2>6. ASSUME NEW j \in 0 .. m - 1 PROVE F[v][j] - (u[j] * v + w[j]) \in Multiples
    <3> DEFINE l == Bit(idx, j)
               aj == av[j]
               g == F1(l, aj, v)
    <3>1. l \in {0, 1} /\ aj \in Int /\ Bit(k, j) \in {0, 1}
      BY <1>4
    <3>2. F[v][j] = IF Bit(k, j) = 0 THEN v - g ELSE g
      BY <2>2, <2>3 DEF WeightVec
    <3>3. w[j] = IF Bit(k, j) = 0 THEN -aj ELSE aj
      BY <1>3
    <3>4. u[j] = IF Bit(k, j) = l THEN 1 ELSE 0
      BY <1>2
    <3> HIDE DEF l, aj
    <3>5. g \in Int /\ g - (l * v + aj) \in Multiples /\ (v - g) - ((1 - l) * v - aj) \in Multiples
      BY <2>1, <3>1, FactorFacts
    <3> HIDE DEF g
    <3>6. CASE Bit(k, j) = 0
      <4>1. F[v][j] = v - g /\ w[j] = -aj /\ u[j] = 1 - l
        BY <3>1, <3>2, <3>3, <3>4, <3>6
      <4>2. u[j] * v + w[j] = (1 - l) * v - aj
        BY <2>1, <3>1, <4>1
      <4> QED BY <3>5, <4>1, <4>2
    <3>7. CASE Bit(k, j) = 1
      <4>1. F[v][j] = g /\ w[j] = aj /\ u[j] = l
        BY <3>1, <3>2, <3>3, <3>4, <3>7
      <4> QED BY <3>5, <4>1
    <3> QED BY <3>1, <3>6, <3>7
  <2> QED BY <2>5, <2>6
<1>7. Columns(F, m) /\ Linear(F, u, w, m) /\ \A v \in Scalar : f[v] = ScalarProduct(F[v], m)
  BY <1>6 DEF Columns, Linear
<1>8. IsPoly(f, m, IF \A j \in 0 .. m - 1 : u[j] = 1 THEN 1 ELSE 0)
  BY <1>2, <1>5, <1>7, ProductIsPoly
<1>9. (\A j \in 0 .. m - 1 : u[j] = 1) <=> AgreeBits(k, idx, m)
  BY <1>2 DEF AgreeBits
<1> QED BY <1>8, <1>9

\* A sum of numbers weighted by them.
Weighted(g, fi, c, m) == ScalarSum([k \in 0 .. TwoTo[m] - 1 |-> g[k] * Weight(fi, c, m, k)], TwoTo[m])

LEMMA WeightedInts ==
  ASSUME NEW m \in Nat, NEW fi, Ints(fi, m), NEW c \in Int, NEW g, Ints(g, TwoTo[m])
  PROVE  /\ TwoTo[m] \in Nat
         /\ Ints([k \in 0 .. TwoTo[m] - 1 |-> g[k] * Weight(fi, c, m, k)], TwoTo[m])
         /\ Weighted(g, fi, c, m) \in Scalar /\ Weighted(g, fi, c, m) \in Int
<1> DEFINE p == TwoTo[m]
           f == [k \in 0 .. p - 1 |-> g[k] * Weight(fi, c, m, k)]
<1>1. p \in Nat /\ p \in 0 .. p
  BY TwoToFacts
<1>2. ASSUME NEW k \in 0 .. p - 1 PROVE f[k] \in Int
  <2> DEFINE u == g[k]
             w == Weight(fi, c, m, k)
  <2>1. u \in Int /\ w \in Int
    BY WeightFacts DEF Ints
  <2>2. f[k] = u * w
    OBVIOUS
  <2> HIDE DEF u, w, f
  <2> QED BY <2>1, <2>2
<1>3. Weighted(g, fi, c, m) = ScalarSum(f, p)
  BY DEF Weighted
<1>4. Ints(f, p)
  <2> HIDE DEF f
  <2> QED BY <1>2 DEF Ints
<1> HIDE DEF f
<1>5. ScalarSum(f, p) \in Scalar /\ ScalarSum(f, p) \in Int
  <2> HIDE DEF p
  <2> QED BY <1>1, <1>4, SumFacts
<1> QED BY <1>1, <1>3, <1>4, <1>5 DEF f

\* It leads with g at the prover's index.
LEMMA WeightedPoly ==
  ASSUME NEW m \in Nat, NEW idx \in 0 .. TwoTo[m] - 1, NEW av, Ints(av, m), NEW g, Ints(g, TwoTo[m]),
         NEW f, \A v \in Scalar : f[v] = Weighted(g, F1s(idx, av, m, v), v, m)
  PROVE  IsPoly(f, m, g[idx])
<1> DEFINE p == TwoTo[m]
           F == [v \in Scalar |-> [k \in 0 .. p - 1 |-> g[k] * Weight(F1s(idx, av, m, v), v, m, k)]]
<1>1. p \in Nat /\ idx \in Nat /\ idx \in 0 .. p - 1
  BY TwoToFacts
<1>2. \A v \in Scalar : v \in Int /\ Ints(F1s(idx, av, m, v), m)
  BY <1>1, ScalarsAreInts, AnswersInts
<1>3. \A k \in 0 .. p - 1 : g[k] \in Int
  BY DEF Ints
<1>4. \A v \in Scalar : F[v] = [k \in 0 .. p - 1 |-> g[k] * Weight(F1s(idx, av, m, v), v, m, k)]
  OBVIOUS
<1> HIDE DEF F
<1>5. \A v \in Scalar : \A k \in 0 .. p - 1 : F[v][k] = g[k] * Weight(F1s(idx, av, m, v), v, m, k)
  BY <1>4
<1>6. ASSUME NEW v \in Scalar
      PROVE  Ints(F[v], p) /\ f[v] = ScalarSum(F[v], p)
  <2> DEFINE fi == F1s(idx, av, m, v)
  <2>1. v \in Int /\ Ints(fi, m)
    BY <1>2
  <2>2. F[v] = [k \in 0 .. TwoTo[m] - 1 |-> g[k] * Weight(fi, v, m, k)]
    BY <1>4
  <2>3. f[v] = Weighted(g, fi, v, m)
    OBVIOUS
  <2> HIDE DEF fi
  <2>4. Ints([k \in 0 .. TwoTo[m] - 1 |-> g[k] * Weight(fi, v, m, k)], TwoTo[m])
    BY <2>1, WeightedInts
  <2>5. Ints(F[v], p)
    BY <2>2, <2>4
  <2>6. f[v] = ScalarSum(F[v], p)
    BY <2>2, <2>3 DEF Weighted
  <2> QED BY <2>5, <2>6
<1> HIDE DEF p
<1>7. Columns(F, p)
  BY <1>6 DEF Columns
<1>8. ASSUME NEW k \in 0 .. p - 1 PROVE ColumnPoly(F, k, m, IF k = idx THEN g[idx] ELSE 0)
  <2> DEFINE h == [v \in Scalar |-> Weight(F1s(idx, av, m, v), v, m, k)]
             e == [v \in Scalar |-> F[v][k]]
             lw == IF AgreeBits(k, idx, m) THEN 1 ELSE 0
             gk == g[k]
  <2>1. k \in Nat /\ gk \in Int /\ lw \in Int
    BY <1>3
  <2>2. \A v \in Scalar : h[v] = Weight(F1s(idx, av, m, v), v, m, k) /\ e[v] = F[v][k]
    OBVIOUS
  <2> HIDE DEF h, e
  <2>3. IsPoly(h, m, lw)
    BY <1>1, <2>1, <2>2, WeightPoly
  <2>4. ASSUME NEW v \in Scalar PROVE e[v] \in Int /\ Mixed(e[v], gk, h[v], 0, h[v])
    <3>1. e[v] = gk * h[v]
      BY <1>5, <2>2
    <3>2. h[v] \in Int
      BY <1>2, <2>2, WeightFacts
    <3> DEFINE hv == h[v]
               z == gk * hv
    <3> HIDE DEF hv, gk
    <3>3. z \in Int /\ gk * hv + 0 * hv = z
      BY <2>1, <3>2 DEF hv
    <3>4. e[v] = z
      BY <3>1 DEF hv
    <3>5. z - z \in Multiples
      <4> HIDE DEF z
      <4> QED BY <3>3, DifferOnce
    <3> QED BY <3>3, <3>4, <3>5 DEF Mixed, hv
  <2> HIDE DEF lw, gk
  <2>5. IsPoly(e, m, gk * lw + 0 * lw)
    <3>1. 0 \in Int
      OBVIOUS
    <3> QED BY <2>1, <2>3, <2>4, <3>1, IsCombination
  <2>6. AgreeBits(k, idx, m) <=> k = idx
    <3>1. k = idx => AgreeBits(k, idx, m)
      BY DEF AgreeBits
    <3> QED BY <3>1, SameBits DEF p
  <2>7. gk * lw + 0 * lw = IF k = idx THEN g[idx] ELSE 0
    <3>1. CASE k = idx
      <4>1. lw = 1 /\ gk = g[idx]
        BY <2>6, <3>1 DEF lw, gk
      <4>2. gk * 1 + 0 * 1 = gk
        BY <2>1
      <4> QED BY <3>1, <4>1, <4>2
    <3>2. CASE k # idx
      <4>1. lw = 0
        BY <2>6, <3>2 DEF lw
      <4>2. gk * 0 + 0 * 0 = 0
        BY <2>1
      <4> QED BY <3>2, <4>1, <4>2
    <3> QED BY <3>1, <3>2
  <2>8. IsPoly(e, m, IF k = idx THEN g[idx] ELSE 0)
    BY <2>5, <2>7
  <2> QED BY <2>8 DEF ColumnPoly, e
<1>9. g[idx] \in Int
  BY <1>1, <1>3 DEF p
<1> QED BY <1>1, <1>6, <1>7, <1>8, <1>9, OneLeads

-----------------------------------------------------------------------------
(* prod_vec: every entry is the product of all f_0 by ratios. *)

\* Factors that do not vanish, and what the other value of the bit gives.
Factors(f0, f1, c, m) ==
  \A j \in 0 .. m - 1 : /\ f0[j] \in Scalar /\ f0[j] # 0
                        /\ f1[j] \in Int /\ (c - f1[j]) - f0[j] \in Multiples

\* A product of scalars that are not zero is not zero, the order being prime.
LEMMA ProductNotZero ==
  ASSUME NEW m \in Nat, NEW f, \A j \in 0 .. m - 1 : f[j] \in Scalar /\ f[j] # 0
  PROVE  ScalarProduct(f, m) \notin Multiples
<1> DEFINE P(k) == ScalarProduct(f, k)
           S == {k \in 0 .. m : P(k) \notin Multiples}
<1>1. Ints(f, m)
  BY ScalarsAreInts DEF Ints
<1>2. 0 \in S
  <2>1. P(0) = 1 /\ 1 \in Scalar
    BY <1>1, ProductFacts, OrderFacts
  <2>2. 1 \notin Multiples
    BY <2>1, ScalarMultiple
  <2> QED BY <2>1, <2>2
<1>3. ASSUME NEW k \in 0 .. m - 1, k \in S PROVE k + 1 \in S
  <2> DEFINE p0 == P(k)
             p1 == P(k + 1)
             fk == f[k]
  <2>1. fk \in Int /\ p0 \in Int /\ p1 \in Int /\ p1 - p0 * fk \in Multiples
    BY <1>1, ProductTurn
  <2>2. fk \in Scalar /\ fk # 0
    OBVIOUS
  <2>3. p0 \notin Multiples
    BY <1>3
  <2> HIDE DEF p0, p1, fk
  <2>4. p0 * fk \notin Multiples
    BY <2>1, <2>2, <2>3, MultiplePrime, ScalarMultiple
  <2> DEFINE z == p0 * fk
             d == p1 - z
  <2>5. z \in Int /\ d \in Multiples /\ z = p1 - d
    BY <2>1
  <2> HIDE DEF z, d
  <2>6. p1 \notin Multiples
    BY <2>4, <2>5, MultiplesClosed DEF z
  <2> QED BY <2>6 DEF p1
<1>4. m \in S
  <2>1. \A k \in 0 .. m : k \in S
    <3> HIDE DEF S
    <3> QED BY <1>2, <1>3, UpTo
  <2> QED BY <2>1
<1> QED BY <1>4

\* One ratio: the product over the bits read so far times the zero factors.
Ratio(v, g, t, x0) == v * g - t * x0 \in Multiples

RatioParts(v0, v1, g0, g1, x0, x1, t, p, q, c, b) ==
  /\ v0 \in Int /\ v1 \in Int /\ g0 \in Int /\ g1 \in Int /\ x0 \in Int /\ x1 \in Int
  /\ t \in Int /\ p \in Scalar /\ p # 0 /\ q \in Int /\ c \in Int /\ b \in {0, 1}
  /\ (c - q) - p \in Multiples
  /\ g1 - g0 * p \in Multiples /\ x1 - x0 * (IF b = 0 THEN c - q ELSE q) \in Multiples
  /\ b = 1 => v1 - v0 * q * ScalarInverse(p) \in Multiples
  /\ b = 0 => v1 = v0
  /\ Ratio(v0, g0, t, x0)

\* A turn of prod_vec for one bit.
LEMMA RatioTurn ==
  ASSUME NEW v0, NEW v1, NEW g0, NEW g1, NEW x0, NEW x1, NEW t, NEW p, NEW q, NEW c, NEW b,
         RatioParts(v0, v1, g0, g1, x0, x1, t, p, q, c, b)
  PROVE  Ratio(v1, g1, t, x1)
<1> USE DEF RatioParts
<1>1. p \in Int
  BY ScalarsAreInts
<1> DEFINE w == ScalarInverse(p)
<1>2. w \in Int /\ p * w - 1 \in Multiples
  BY InverseFacts
<1> HIDE DEF w
<1>3. CASE b = 0
  <2> DEFINE d1 == g1 - g0 * p
             d2 == x1 - x0 * (c - q)
             d3 == (c - q) - p
             d4 == v0 * g0 - t * x0
  <2>1. d1 \in Multiples /\ d2 \in Multiples /\ d3 \in Multiples /\ d4 \in Multiples
    BY <1>3 DEF Ratio
  <2>2. v1 * g1 - t * x1 = (d1 * v0 + d4 * p) - (d2 * t + d3 * (t * x0))
    BY <1>1, <1>3
  <2> DEFINE u == t * x0
  <2>3. u \in Int
    OBVIOUS
  <2> HIDE DEF d1, d2, d3, d4, u
  <2> DEFINE z1 == d1 * v0 + d4 * p
             z2 == d2 * t + d3 * u
  <2>4. z1 \in Multiples /\ z2 \in Multiples
    BY <1>1, <2>1, <2>3, MultiplesCombine
  <2> HIDE DEF z1, z2
  <2>5. z1 - z2 \in Multiples
    BY <2>4, MultiplesClosed
  <2> QED BY <2>2, <2>5 DEF z1, z2, u, Ratio
<1>4. CASE b = 1
  <2> DEFINE y1 == v0 * q
             y2 == y1 * w
             d1 == g1 - g0 * p
             d2 == x1 - x0 * q
             d3 == v1 - y2
             d4 == v0 * g0 - t * x0
             d5 == p * w - 1
  <2>1. d1 \in Multiples /\ d2 \in Multiples /\ d3 \in Multiples /\ d4 \in Multiples /\ d5 \in Multiples
    BY <1>2, <1>4 DEF Ratio, w
  <2> DEFINE e1 == v0 * g0
             e2 == e1 * q
             e3 == t * x0
             e4 == g0 * p
  <2>2. y1 \in Int /\ y2 \in Int /\ e1 \in Int /\ e2 \in Int /\ e3 \in Int /\ e4 \in Int
    <3>1. y1 \in Int /\ e1 \in Int /\ e3 \in Int /\ e4 \in Int
      BY <1>1
    <3> HIDE DEF y1, e1
    <3>2. y2 \in Int /\ e2 \in Int
      BY <1>2, <3>1
    <3> QED BY <3>1, <3>2
  <2>3. v1 * g1 = d3 * g1 + y2 * g1
    <3> HIDE DEF y2
    <3> QED BY <2>2
  <2>4. y2 * g1 = d1 * y2 + y2 * e4
    <3> HIDE DEF y2, e4
    <3>1. g1 = d1 + e4
      BY <2>2 DEF e4
    <3>2. d1 \in Int
      BY <2>1, MultiplesAreInts
    <3> HIDE DEF d1
    <3> QED BY <2>2, <3>1, <3>2
  <2>5. y2 * e4 = e2 + d5 * e2
    <3>1. y2 * e4 = (p * w) * ((v0 * g0) * q)
      BY <1>1, <1>2
    <3> DEFINE r == p * w
    <3>2. r \in Int /\ d5 = r - 1
      BY <1>1, <1>2
    <3>3. y2 * e4 = r * e2
      BY <3>1
    <3> HIDE DEF r, e2, d5, y2, e4
    <3>4. r * e2 = e2 + (r - 1) * e2
      BY <2>2, <3>2
    <3> QED BY <3>2, <3>3, <3>4
  <2>6. e2 = d4 * q + e3 * q
    <3> HIDE DEF e1, e3
    <3> QED BY <2>2 DEF e2, e1, e3
  <2>7. e3 * q = t * x1 - d2 * t
    BY <1>1
  <2>8. d1 \in Int /\ d2 \in Int /\ d3 \in Int /\ d4 \in Int /\ d5 \in Int
    BY <2>1, MultiplesAreInts
  <2> DEFINE w1 == v1 * g1
             w2 == y2 * g1
             w3 == y2 * e4
             w4 == e3 * q
             w5 == t * x1
             z1 == d3 * g1
             z2 == d1 * y2
             z3 == d5 * e2
             z4 == d4 * q
             z5 == d2 * t
  <2>9. w1 = z1 + w2 /\ w2 = z2 + w3 /\ w3 = e2 + z3 /\ e2 = z4 + w4 /\ w4 = w5 - z5
    BY <2>3, <2>4, <2>5, <2>6, <2>7
  <2>10. z1 \in Multiples /\ z2 \in Multiples /\ z3 \in Multiples /\ z4 \in Multiples /\ z5 \in Multiples
    <3> HIDE DEF d1, d2, d3, d4, d5, e2, y2
    <3> QED BY <2>1, <2>2, MultiplesTimes
  <2>11. w5 \in Int /\ w1 \in Int
    OBVIOUS
  <2> HIDE DEF w1, w2, w3, w4, w5, z1, z2, z3, z4, z5, d1, d2, d3, d4, d5, e1, e2, e3, e4, y1, y2
  <2>12. z1 \in Int /\ z2 \in Int /\ z3 \in Int /\ z4 \in Int /\ z5 \in Int
    BY <2>10, MultiplesAreInts
  <2>13. w1 - w5 = (((z1 + z2) + z3) + z4) - z5
    BY <2>2, <2>9, <2>11, <2>12
  <2>14. z1 + z2 \in Multiples
    BY <2>10, MultiplesClosed
  <2> DEFINE s2 == z1 + z2
             s3 == s2 + z3
             s4 == s3 + z4
  <2>15. s3 \in Multiples
    <3> HIDE DEF s2
    <3>1. s2 \in Multiples
      BY <2>14 DEF s2
    <3> QED BY <2>10, <3>1, MultiplesClosed
  <2>16. s4 \in Multiples
    <3> HIDE DEF s3
    <3> QED BY <2>10, <2>15, MultiplesClosed
  <2>17. s4 - z5 \in Multiples
    <3> HIDE DEF s4
    <3> QED BY <2>10, <2>16, MultiplesClosed
  <2>18. w1 - w5 \in Multiples
    BY <2>13, <2>17
  <2> QED BY <2>18 DEF w1, w5, Ratio
<1> QED BY <1>3, <1>4

\* The types of the vectors prod_vec takes.
FactorTypes(f0, f1, m) == \A j \in 0 .. m - 1 : f0[j] \in Scalar /\ f1[j] \in Int

\* An entry of prod_vec is the last of a chain of quotients.
LEMMA ProdVecSteps ==
  ASSUME NEW m \in Nat, NEW f0, NEW f1, FactorTypes(f0, f1, m), NEW k \in 0 .. TwoTo[m] - 1
  PROVE  \E r : /\ r[0] = ScalarProduct(f0, m) /\ ProdVec(m, f0, f1)[k] = r[m]
                /\ \A j \in 0 .. m : r[j] \in Scalar /\ r[j] \in Int
                /\ \A j \in 0 .. m - 1 :
                     /\ Bit(k, j) = 1 => r[j + 1] - r[j] * f1[j] * ScalarInverse(f0[j]) \in Multiples
                     /\ Bit(k, j) # 1 => r[j + 1] = r[j]
<1> DEFINE G == [j \in Nat |-> [v \in Scalar |->
                   IF Bit(k, j - 1) = 1 THEN (v * f1[j - 1] * ScalarInverse(f0[j - 1])) % Order
                                        ELSE v]]
           t == ScalarProduct(f0, m)
           r == Iterate(t, G)
           H(v, j) == v * f1[j] * ScalarInverse(f0[j])
<1>1. Ints(f0, m)
  BY ScalarsAreInts DEF Ints, FactorTypes
<1>2. t \in Scalar
  <2>1. m \in 0 .. m
    OBVIOUS
  <2> QED BY <1>1, <2>1, ProductFacts
<1>3. ASSUME NEW j \in 1 .. m, NEW v \in Scalar
      PROVE  /\ H(v, j - 1) \in Int
             /\ G[j][v] = IF Bit(k, j - 1) = 1 THEN H(v, j - 1) % Order ELSE v
             /\ G[j][v] \in Scalar
  <2> DEFINE q == f1[j - 1]
             p == f0[j - 1]
             w == ScalarInverse(p)
             h == (v * q) * w
  <2>1. j - 1 \in 0 .. m - 1 /\ v \in Int
    BY ScalarsAreInts
  <2>2. q \in Int /\ p \in Scalar
    BY <2>1 DEF FactorTypes
  <2>3. w \in Int
    BY <2>2, InverseFacts
  <2>4. h \in Int
    <3> HIDE DEF w, q
    <3>1. v * q \in Int
      BY <2>1, <2>2
    <3> DEFINE z == v * q
    <3> HIDE DEF z
    <3>2. z \in Int /\ z * w \in Int
      BY <2>3, <3>1 DEF z
    <3> QED BY <3>2 DEF z
  <2>5. H(v, j - 1) = h
    OBVIOUS
  <2>6. G[j][v] = IF Bit(k, j - 1) = 1 THEN h % Order ELSE v
    OBVIOUS
  <2> HIDE DEF h, G, H
  <2>7. h % Order \in Scalar
    BY <2>4, OrderFacts
  <2> QED BY <2>4, <2>5, <2>6, <2>7
<1>4. ProdVec(m, f0, f1)[k] = r[m]
  BY DEF ProdVec
<1> HIDE DEF G, t, H
<1>5. Stays(Scalar, G, m)
  BY <1>3 DEF Stays
<1>6. Follows(r, t, G) /\ Within(Scalar, r, m)
  BY <1>2, <1>5, IterateType
<1> HIDE DEF r
<1>7. /\ r[0] = t /\ \A j \in 0 .. m : r[j] \in Scalar
      /\ \A j \in 0 .. m - 1 : r[j + 1] = G[j + 1][r[j]]
  <2>1. \A j \in 0 .. m - 1 : j \in Nat
    OBVIOUS
  <2> QED BY <1>6, <2>1 DEF Follows, Within
<1>8. ASSUME NEW j \in 0 .. m - 1
      PROVE  /\ Bit(k, j) = 1 => r[j + 1] - H(r[j], j) \in Multiples
             /\ Bit(k, j) # 1 => r[j + 1] = r[j]
  <2> DEFINE v == r[j]
             l == j + 1
             z == H(v, j)
  <2>1. v \in Scalar /\ l \in 1 .. m /\ l - 1 = j /\ r[l] = G[l][v]
    BY <1>7
  <2> HIDE DEF l, v
  <2>2. H(v, l - 1) \in Int /\ G[l][v] = IF Bit(k, l - 1) = 1 THEN H(v, l - 1) % Order ELSE v
    BY <1>3, <2>1
  <2>3. z \in Int /\ r[l] = IF Bit(k, j) = 1 THEN z % Order ELSE v
    BY <2>1, <2>2
  <2> HIDE DEF z
  <2>4. (z % Order) - z \in Multiples
    BY <2>3, ReducedBy
  <2>5. Bit(k, j) = 1 => r[l] - z \in Multiples
    BY <2>3, <2>4
  <2>6. Bit(k, j) # 1 => r[l] = v
    BY <2>3
  <2> QED BY <2>5, <2>6 DEF z, v, l
<1>9. \A j \in 0 .. m : r[j] \in Scalar /\ r[j] \in Int
  BY <1>7, ScalarsAreInts
<1> QED BY <1>4, <1>7, <1>8, <1>9 DEF H, t

\* prod_vec returns the weights, when no factor is zero.
LEMMA ProdVecIsWeight ==
  ASSUME NEW m \in Nat, NEW f0, NEW f1, NEW c \in Int, Factors(f0, f1, c, m), NEW k \in 0 .. TwoTo[m] - 1
  PROVE  ProdVec(m, f0, f1)[k] = Weight(f1, c, m, k)
<1> DEFINE t == ScalarProduct(f0, m)
           px == WeightVec(f1, c, m, k)
           S(r) == {j \in 0 .. m : Ratio(r[j], ScalarProduct(f0, j), t, ScalarProduct(px, j))}
<1>0. k \in Nat /\ m \in 0 .. m /\ 0 \in 0 .. m
  BY TwoToFacts
<1>1. Ints(f0, m) /\ Ints(f1, m)
  BY ScalarsAreInts DEF Ints, Factors
<1>2. t \in Scalar /\ t \in Int /\ t \notin Multiples
  <2>1. t \in Scalar /\ t \in Int
    BY <1>0, <1>1, ProductFacts
  <2>2. \A j \in 0 .. m - 1 : f0[j] \in Scalar /\ f0[j] # 0
    BY DEF Factors
  <2>3. t \notin Multiples
    BY <2>2, ProductNotZero
  <2> QED BY <2>1, <2>3
<1>3. /\ Ints(px, m) /\ Weight(f1, c, m, k) = ScalarProduct(px, m)
  BY <1>1, WeightFacts
<1>4. \A j \in 0 .. m - 1 : px[j] = IF Bit(k, j) = 0 THEN c - f1[j] ELSE f1[j]
  BY DEF WeightVec
<1> HIDE DEF px, t
<1>5. PICK r : /\ r[0] = t /\ ProdVec(m, f0, f1)[k] = r[m]
               /\ \A j \in 0 .. m : r[j] \in Scalar /\ r[j] \in Int
               /\ \A j \in 0 .. m - 1 :
                     /\ Bit(k, j) = 1 => r[j + 1] - r[j] * f1[j] * ScalarInverse(f0[j]) \in Multiples
                     /\ Bit(k, j) # 1 => r[j + 1] = r[j]
  <2>1. FactorTypes(f0, f1, m)
    BY DEF Factors, FactorTypes
  <2> QED BY <2>1, ProdVecSteps DEF t
<1> DEFINE R == S(r)
<1>6. 0 \in R
  <2>1. ScalarProduct(f0, 0) = 1 /\ ScalarProduct(px, 0) = 1
    BY <1>1, <1>3, ProductFacts
  <2>2. t * 1 - t * 1 = 0
    BY <1>2
  <2>3. Ratio(r[0], ScalarProduct(f0, 0), t, ScalarProduct(px, 0))
    BY <1>5, <2>1, <2>2, ZeroIsMultiple DEF Ratio
  <2> QED BY <1>0, <2>3
<1>7. ASSUME NEW j \in 0 .. m - 1, j \in R PROVE j + 1 \in R
  <2> DEFINE l == j + 1
             v0 == r[j]
             v1 == r[l]
             g0 == ScalarProduct(f0, j)
             g1 == ScalarProduct(f0, j + 1)
             x0 == ScalarProduct(px, j)
             x1 == ScalarProduct(px, j + 1)
             p == f0[j]
             q == f1[j]
             b == Bit(k, j)
  <2>1. j \in Nat /\ j \in 0 .. m /\ l \in 0 .. m
    OBVIOUS
  <2>2. v0 \in Int /\ v1 \in Int
    BY <1>5, <2>1
  <2>3. g0 \in Int /\ g1 \in Int /\ g1 - g0 * p \in Multiples
    BY <1>1, ProductTurn
  <2>4. px[j] \in Int /\ x0 \in Int /\ x1 \in Int /\ x1 - x0 * px[j] \in Multiples
    BY <1>3, ProductTurn
  <2>5. px[j] = IF b = 0 THEN c - q ELSE q
    BY <1>4
  <2>6. p \in Scalar /\ p # 0 /\ q \in Int /\ (c - q) - p \in Multiples
    BY DEF Factors
  <2>7. b \in {0, 1}
    BY <1>0, <2>1, BitFacts
  <2>8. b = 1 => v1 - v0 * q * ScalarInverse(p) \in Multiples
    BY <1>5
  <2>9. b = 0 => v1 = v0
    BY <1>5
  <2>10. Ratio(v0, g0, t, x0)
    BY <1>7
  <2> HIDE DEF v0, v1, g0, g1, x0, x1, p, q, b, l
  <2>11. x1 - x0 * (IF b = 0 THEN c - q ELSE q) \in Multiples
    BY <2>4, <2>5
  <2>12. Ratio(v1, g1, t, x1)
    <3>1. t \in Int
      BY <1>2
    <3>2. v0 \in Int /\ v1 \in Int /\ g0 \in Int /\ g1 \in Int /\ x0 \in Int /\ x1 \in Int
      BY <2>2, <2>3, <2>4
    <3>3. g1 - g0 * p \in Multiples
      BY <2>3
    <3>4. RatioParts(v0, v1, g0, g1, x0, x1, t, p, q, c, b)
      BY <3>1, <3>2, <3>3, <2>6, <2>7, <2>8, <2>9, <2>10, <2>11 DEF RatioParts
    <3> QED BY <3>4, RatioTurn
  <2> QED BY <2>1, <2>12 DEF v1, g1, x1, l
<1>8. m \in R
  <2>1. \A j \in 0 .. m : j \in R
    <3> HIDE DEF R
    <3> QED BY <1>6, <1>7, UpTo
  <2> QED BY <2>1
<1>9. Ratio(r[m], t, t, ScalarProduct(px, m))
  BY <1>8 DEF t
<1>10. r[m] \in Scalar /\ r[m] \in Int
  BY <1>0, <1>5
<1>11. ScalarProduct(px, m) \in Scalar /\ ScalarProduct(px, m) \in Int
  BY <1>0, <1>3, ProductFacts
<1> DEFINE v == r[m]
           w == ScalarProduct(px, m)
           d == v - w
<1> HIDE DEF v, w
<1>12. d \in Int /\ t * d = v * t - t * w
  BY <1>2, <1>10, <1>11 DEF v, w
<1>13. t * d \in Multiples
  BY <1>9, <1>12 DEF Ratio, v, w
<1> HIDE DEF d
<1>14. d \in Multiples
  BY <1>2, <1>12, <1>13, MultiplePrime
<1>15. v = w
  BY <1>10, <1>11, <1>14, ScalarsSame DEF d, v, w
<1> QED BY <1>3, <1>5, <1>15 DEF v, w

-----------------------------------------------------------------------------
(* The equations that verify collects. *)

\* A coordinate of a relation, and when it is zero.
CoordSum(u, v, w, t) == (((((u * v) % Order) + w) % Order) + t) % Order

LEMMA CoordinateZero ==
  ASSUME NEW u \in Int, NEW v \in Int, NEW v0 \in Int, v - v0 \in Multiples,
         NEW w \in Int, NEW w0 \in Int, w - w0 \in Multiples, NEW t \in Int
  PROVE  CoordSum(u, v, w, t) = 0 <=> (u * v0 + w0) + t \in Multiples
<1> DEFINE z1 == u * v
           r1 == z1 % Order
           z2 == r1 + w
           r2 == z2 % Order
           z3 == r2 + t
           px == (u * v0 + w0) + t
           d0 == v - v0
           d1 == r1 - z1
           d2 == r2 - z2
           d3 == w - w0
<1>1. z1 \in Int
  OBVIOUS
<1>2. r1 \in Int /\ d1 \in Multiples
  <2> HIDE DEF z1
  <2> QED BY <1>1, ReducedBy
<1>3. z2 \in Int
  <2> HIDE DEF r1
  <2> QED BY <1>2
<1>4. r2 \in Int /\ d2 \in Multiples
  <2> HIDE DEF z2
  <2> QED BY <1>3, ReducedBy
<1>5. z3 \in Int /\ px \in Int
  <2> HIDE DEF r2
  <2> QED BY <1>4
<1>6. z3 - px = (d2 + d1) + (d3 + d0 * u)
  <2>1. r2 = d2 + (r1 + w) /\ r1 = d1 + u * v
    <3>1. r2 = d2 + z2
      <4> HIDE DEF z2, r2
      <4> QED BY <1>3, <1>4 DEF r2
    <3>2. r1 = d1 + z1
      <4> HIDE DEF z1, r1
      <4> QED BY <1>1, <1>2
    <3> QED BY <3>1, <3>2
  <2>2. d1 \in Int /\ d2 \in Int
    BY <1>2, <1>4, MultiplesAreInts
  <2> HIDE DEF r1, r2, d1, d2
  <2> QED BY <1>2, <1>4, <2>1, <2>2
<1>7. d2 + d1 \in Multiples
  <2> HIDE DEF d1, d2
  <2> QED BY <1>2, <1>4, MultiplesClosed
<1>8. d3 + d0 * u \in Multiples
  <2>1. d3 \in Multiples /\ d0 \in Multiples
    OBVIOUS
  <2> HIDE DEF d3, d0
  <2> QED BY <2>1, MultiplesCombine
<1>9. z3 - px \in Multiples
  <2> DEFINE e1 == d2 + d1
             e2 == d3 + d0 * u
  <2> HIDE DEF e1, e2
  <2>1. e1 + e2 \in Multiples
    BY <1>7, <1>8, MultiplesClosed DEF e1, e2
  <2> QED BY <1>6, <2>1 DEF e1, e2
<1>10. CoordSum(u, v, w, t) = z3 % Order
  BY DEF CoordSum
<1> HIDE DEF z3, px, z2, z1, r1, r2
<1> DEFINE py == z3 - px
<1>11. z3 = py + px /\ px = z3 - py
  BY <1>5
<1> HIDE DEF py
<1>12. py \in Multiples
  BY <1>9 DEF py
<1>13. z3 \in Multiples <=> px \in Multiples
  <2>1. px \in Multiples => py + px \in Multiples
    BY <1>12, MultiplesClosed
  <2>2. z3 \in Multiples => z3 - py \in Multiples
    BY <1>12, MultiplesClosed
  <2> QED BY <1>11, <2>1, <2>2
<1>14. z3 % Order = 0 <=> z3 \in Multiples
  BY <1>5 DEF Multiples
<1> QED BY <1>10, <1>13, <1>14 DEF px

\* Numbers that differ by a multiple are multiples together.
LEMMA SameMultiples ==
  ASSUME NEW px \in Int, NEW py \in Int, px - py \in Multiples
  PROVE  px \in Multiples <=> py \in Multiples
<1> DEFINE d == px - py
<1>1. px = d + py /\ py = px - d /\ d \in Multiples
  OBVIOUS
<1> HIDE DEF d
<1>2. py \in Multiples => d + py \in Multiples
  BY <1>1, MultiplesClosed
<1>3. px \in Multiples => px - d \in Multiples
  BY <1>1, MultiplesClosed
<1> QED BY <1>1, <1>2, <1>3

\* The relations on one bit hold for the prover's answers.
BitParts(pf, re, c, j, l, aj, r, s0, t) ==
  /\ l \in {0, 1} /\ aj \in Scalar /\ r \in Scalar /\ s0 \in Scalar /\ t \in Scalar
  /\ pf.cl[j] = CommitWith(l, r) /\ pf.ca[j] = CommitWith(aj, s0) /\ pf.cb[j] = CommitWith(l * aj, t)
  /\ re.fi[j] = F1(l, aj, c) /\ re.za[j] = (r * c + s0) % Order /\ re.zb[j] = MaskBit(r, t, c, re.fi[j])

\* Then the two relations of verify on that bit hold.
LEMMA BitHolds ==
  ASSUME NEW c \in Int, NEW pf, NEW re, NEW j, NEW l, NEW aj, NEW r, NEW s0, NEW t,
         BitParts(pf, re, c, j, l, aj, r, s0, t)
  PROVE  BitRelation(pf, re, c, j) = NO_POINT /\ ProductRelation(pf, re, c, j) = NO_POINT
<1> DEFINE f == F1(l, aj, c)
           la == l * aj
           za == r * c + s0
           zb == r * (c - f) + t
           cf == c - f
<1>0. l \in {0, 1} /\ aj \in Scalar /\ r \in Scalar /\ s0 \in Scalar /\ t \in Scalar
  BY DEF BitParts
<1>1. l \in Int /\ aj \in Int /\ r \in Int /\ s0 \in Int /\ t \in Int
  BY <1>0, ScalarsAreInts
<1>2. f \in Int /\ f - (l * c + aj) \in Multiples
  BY <1>0, <1>1, FactorFacts
<1> HIDE DEF f
<1>3. la \in Int /\ za \in Int /\ cf \in Int /\ zb \in Int /\ -f \in Int
  <2>1. la \in Int /\ za \in Int /\ cf \in Int /\ -f \in Int
    BY <1>1, <1>2
  <2> DEFINE q == r * cf
  <2>2. q \in Int
    BY <1>1, <2>1
  <2> HIDE DEF q
  <2>3. q + t \in Int
    BY <1>1, <2>2
  <2> QED BY <2>1, <2>3 DEF q
<1> DEFINE lo == l % Order
           ao == aj % Order
           ro == r % Order
           so == s0 % Order
           to == t % Order
           lao == la % Order
           zao == za % Order
           zbo == zb % Order
<1>4. /\ lo \in Int /\ lo - l \in Multiples /\ ao \in Int /\ ao - aj \in Multiples
      /\ ro \in Int /\ ro - r \in Multiples /\ so \in Int /\ so - s0 \in Multiples
      /\ to \in Int /\ to - t \in Multiples
  BY <1>1, ReducedBy
<1>5. /\ lao \in Int /\ lao - la \in Multiples /\ zao \in Int /\ za - zao \in Multiples
      /\ zbo \in Int /\ zb - zbo \in Multiples
  <2> HIDE DEF la, za, zb
  <2> QED BY <1>3, ReducedBy
<1> DEFINE nza == -zao
           nzb == -zbo
           nf == -f
<1>6. BitRelation(pf, re, c, j) = <<CoordSum(c, lo, ao, nf), CoordSum(c, ro, so, nza)>>
  BY DEF BitParts, BitRelation, PlusPoint, TimesPoint, CommitWith, CoordSum, f
<1>7. ProductRelation(pf, re, c, j) = <<CoordSum(cf, lo, lao, 0), CoordSum(cf, ro, to, nzb)>>
  BY DEF BitParts, ProductRelation, PlusPoint, TimesPoint, CommitWith, CoordSum, f, MaskBit
<1> HIDE DEF lo, ao, ro, so, to, lao, zao, zbo
<1>8. nza \in Int /\ nzb \in Int /\ nf \in Int
  BY <1>2, <1>5
<1>9. (c * l + aj) + nf \in Multiples
  <2> DEFINE d == f - (l * c + aj)
  <2>1. (c * l + aj) + nf = 0 - d
    BY <1>1, <1>2
  <2>2. d \in Multiples
    BY <1>2
  <2> HIDE DEF d
  <2>3. 0 - d \in Multiples
    BY <2>2, ZeroIsMultiple, MultiplesClosed
  <2> QED BY <2>1, <2>3
<1>10. (c * r + s0) + nza \in Multiples
  <2>1. (c * r + s0) + nza = za - zao
    BY <1>1, <1>5
  <2> QED BY <1>5, <2>1
<1>11. (cf * l + la) + 0 \in Multiples
  <2> DEFINE d == f - (l * c + aj)
             e == d * l
  <2>1. d \in Multiples
    BY <1>2
  <2>2. (cf * l + la) + 0 = 0 - e
    <3>1. CASE l = 0
      BY <1>1, <1>2, <3>1
    <3>2. CASE l = 1
      BY <1>1, <1>2, <3>2
    <3> QED BY <1>0, <3>1, <3>2
  <2>3. e \in Multiples
    <3> HIDE DEF d
    <3> QED BY <1>1, <2>1, MultiplesTimes
  <2> HIDE DEF e, cf, la
  <2>4. 0 - e \in Multiples
    BY <2>3, ZeroIsMultiple, MultiplesClosed
  <2> QED BY <2>2, <2>4
<1>12. (cf * r + t) + nzb \in Multiples
  <2>1. zb = cf * r + t
    <3>1. r * (c - f) = (c - f) * r
      BY <1>1, <1>2
    <3> QED BY <3>1
  <2> DEFINE p == cf * r
  <2>2. p \in Int /\ zb = p + t
    BY <1>1, <1>3, <2>1
  <2> HIDE DEF p, zb
  <2>3. (p + t) + nzb = zb - zbo
    BY <1>1, <1>5, <2>2
  <2> QED BY <1>5, <2>3 DEF p
<1> HIDE DEF nza, nzb, nf, cf, la, za, zb
<1>13. CoordSum(c, lo, ao, nf) = 0
  BY <1>1, <1>4, <1>8, <1>9, CoordinateZero
<1>14. CoordSum(c, ro, so, nza) = 0
  BY <1>1, <1>4, <1>8, <1>10, CoordinateZero
<1>15. CoordSum(cf, lo, lao, 0) = 0
  <2> DEFINE w == 0
  <2>1. w \in Int /\ (cf * l + la) + w \in Multiples
    BY <1>11
  <2> HIDE DEF w
  <2>2. CoordSum(cf, lo, lao, w) = 0
    BY <1>1, <1>3, <1>4, <1>5, <2>1, CoordinateZero
  <2> QED BY <2>2 DEF w
<1>16. CoordSum(cf, ro, to, nzb) = 0
  BY <1>1, <1>3, <1>4, <1>8, <1>12, CoordinateZero
<1> QED BY <1>6, <1>7, <1>13, <1>14, <1>15, <1>16 DEF NO_POINT

-----------------------------------------------------------------------------
(* The polynomial construct commits to. *)

\* The padded ring and its size.
LEMMA PaddedFacts ==
  ASSUME NEW rg \in KeyRings
  PROVE  /\ RingLog(rg) \in Nat /\ RingLog(rg) < Order /\ RingLog(rg) <= MaxMembers
         /\ Bits(rg) = 0 .. RingLog(rg) - 1
         /\ PaddedRing(rg) \in [0 .. TwoTo[RingLog(rg)] - 1 -> Scalar]
         /\ Ints(PaddedRing(rg), TwoTo[RingLog(rg)])
         /\ \A p \in DOMAIN rg : p \in 0 .. TwoTo[RingLog(rg)] - 1 /\ PaddedRing(rg)[p] = rg[p]
<1> DEFINE l == RingLog(rg)
           full == PaddedRing(rg)
           t == TwoTo[l]
<1>1. PICK m \in 1 .. MaxMembers :
           /\ rg \in [0 .. m - 1 -> Keys] /\ DOMAIN rg = 0 .. m - 1
           /\ l \in Nat /\ l < m /\ m <= t
  BY RingFacts
<1>2. m <= Order /\ Order \in Nat /\ m \in Nat /\ m > 0
  BY MaxMembersAssumption, OrderFacts
<1>3. full = [j \in 0 .. t - 1 |-> IF j \in DOMAIN rg THEN rg[j] ELSE rg[0]]
  BY DEF PaddedRing
<1>4. t \in Nat
  BY <1>1, TwoToFacts
<1> HIDE DEF l, full, t
<1>5. \A j \in 0 .. m - 1 : rg[j] \in Scalar
  BY <1>1, KeysAssumption
<1>6. \A p \in 0 .. m - 1 : p \in 0 .. t - 1 /\ full[p] = rg[p]
  <2>1. \A p \in 0 .. m - 1 : p \in 0 .. t - 1
    BY <1>1, <1>2, <1>4
  <2> QED BY <1>1, <1>3, <2>1
<1>7. full \in [0 .. t - 1 -> Scalar]
  <2>1. 0 \in 0 .. m - 1
    BY <1>2
  <2> QED BY <1>1, <1>3, <1>5, <2>1
<1>8. Ints(full, t)
  BY <1>7, ScalarsAreInts DEF Ints
<1>9. l < Order /\ l <= MaxMembers
  BY <1>1, <1>2, MaxMembersAssumption
<1> QED BY <1>1, <1>6, <1>7, <1>8, <1>9 DEF l, full, t, Bits

\* None of the other factors vanishes, at the interpolation point c.
NotZeroAt(idx, av, m, c) == \A j \in 0 .. m - 1 : F0(Bit(idx, j), av[j], c) # 0

LEMMA AnswersAreFactors ==
  ASSUME NEW m \in Nat, NEW idx \in Nat, NEW av, Ints(av, m), NEW c \in Int, NotZeroAt(idx, av, m, c)
  PROVE  Factors(F0s(idx, av, m, c), F1s(idx, av, m, c), c, m)
<1> SUFFICES ASSUME NEW j \in 0 .. m - 1
             PROVE  /\ F0s(idx, av, m, c)[j] \in Scalar /\ F0s(idx, av, m, c)[j] # 0
                    /\ F1s(idx, av, m, c)[j] \in Int
                    /\ (c - F1s(idx, av, m, c)[j]) - F0s(idx, av, m, c)[j] \in Multiples
  BY DEF Factors
<1> DEFINE l == Bit(idx, j)
           aj == av[j]
           f1 == F1s(idx, av, m, c)[j]
           f0 == F0s(idx, av, m, c)[j]
<1>1. l \in {0, 1} /\ aj \in Int /\ f1 = F1(l, aj, c) /\ f0 = F0(l, aj, c)
  BY AnswersInts
<1>2. F0(l, aj, c) # 0
  BY DEF NotZeroAt
<1> HIDE DEF l, aj, f1, f0
<1>3. f0 \in Scalar /\ f1 \in Int /\ (c - f1) - f0 \in Multiples
  BY <1>1, FactorFacts
<1> QED BY <1>1, <1>2, <1>3 DEF f0, f1

\* The other keys' distances from the key at the position.
Distances(full, idx, m) == [k \in 0 .. TwoTo[m] - 1 |-> full[idx] - full[k]]

LEMMA DistancesInts ==
  ASSUME NEW m \in Nat, NEW full, Ints(full, TwoTo[m]), NEW idx \in 0 .. TwoTo[m] - 1
  PROVE  /\ Ints(Distances(full, idx, m), TwoTo[m]) /\ Distances(full, idx, m)[idx] = 0 /\ full[idx] \in Int
         /\ \A k \in 0 .. TwoTo[m] - 1 : Distances(full, idx, m)[k] = full[idx] - full[k]
<1> DEFINE g == Distances(full, idx, m)
           t == TwoTo[m]
<1>1. \A k \in 0 .. t - 1 : g[k] = full[idx] - full[k]
  BY DEF Distances
<1> HIDE DEF g
<1>2. \A k \in 0 .. t - 1 : full[k] \in Int
  BY DEF Ints
<1>3. Ints(g, t)
  BY <1>1, <1>2 DEF Ints
<1>4. full[idx] \in Int
  BY <1>2
<1>5. g[idx] = 0
  BY <1>1, <1>4
<1> QED BY <1>1, <1>3, <1>4, <1>5 DEF g

\* The value construct interpolates is the weighted sum of the distances.
LEMMA PolyValIs ==
  ASSUME NEW rg \in KeyRings, NEW idx \in DOMAIN rg, NEW av, Ints(av, RingLog(rg)), NEW c \in Int,
         NotZeroAt(idx, av, RingLog(rg), c)
  PROVE  PolyVal(rg, idx, av, c)
           = Weighted(Distances(PaddedRing(rg), idx, RingLog(rg)), F1s(idx, av, RingLog(rg), c), c, RingLog(rg))
<1> DEFINE m == RingLog(rg)
           full == PaddedRing(rg)
           f0 == F0s(idx, av, m, c)
           f1 == F1s(idx, av, m, c)
           prod == ProdVec(m, f0, f1)
           g == Distances(full, idx, m)
           t == TwoTo[m]
<1>1. m \in Nat /\ idx \in 0 .. t - 1 /\ idx \in Nat
  BY PaddedFacts, TwoToFacts
<1>2. Factors(f0, f1, c, m)
  BY <1>1, AnswersAreFactors
<1>3. \A k \in 0 .. t - 1 : g[k] = full[idx] - full[k]
  BY DEF Distances
<1> HIDE DEF f0, f1, g, full
<1>4. \A k \in 0 .. t - 1 : prod[k] = Weight(f1, c, m, k)
  <2> HIDE DEF m
  <2> QED BY <1>1, <1>2, ProdVecIsWeight
<1>5. PolyVal(rg, idx, av, c) = ScalarSum([k \in 0 .. t - 1 |-> (full[idx] - full[k]) * prod[k]], t)
  BY DEF PolyVal, f0, f1, full
<1>6. [k \in 0 .. t - 1 |-> (full[idx] - full[k]) * prod[k]] = [k \in 0 .. t - 1 |-> g[k] * Weight(f1, c, m, k)]
  <2> HIDE DEF t, prod, m
  <2> QED BY <1>3, <1>4
<1> QED BY <1>5, <1>6 DEF Weighted, f1, g, full

LEMMA PolyValType ==
  ASSUME NEW rg \in KeyRings, NEW idx \in DOMAIN rg, NEW av, Ints(av, RingLog(rg)), NEW c \in Int
  PROVE  PolyVal(rg, idx, av, c) \in Scalar
<1> DEFINE m == RingLog(rg)
           full == PaddedRing(rg)
           f0 == F0s(idx, av, m, c)
           f1 == F1s(idx, av, m, c)
           prod == ProdVec(m, f0, f1)
           t == TwoTo[m]
           e == [k \in 0 .. t - 1 |-> (full[idx] - full[k]) * prod[k]]
<1>1. m \in Nat /\ t \in Nat /\ idx \in 0 .. t - 1 /\ idx \in Nat
  <2>1. m \in Nat /\ idx \in 0 .. t - 1
    BY PaddedFacts
  <2>2. t \in Nat
    BY <2>1, TwoToFacts
  <2> HIDE DEF t
  <2> QED BY <2>1, <2>2
<1>2. \A k \in 0 .. t - 1 : full[k] \in Int
  BY PaddedFacts DEF Ints
<1>3. FactorTypes(f0, f1, m)
  <2> SUFFICES ASSUME NEW j \in 0 .. m - 1 PROVE f0[j] \in Scalar /\ f1[j] \in Int
    BY DEF FactorTypes
  <2> DEFINE l == Bit(idx, j)
             aj == av[j]
  <2>0. Ints(av, m)
    OBVIOUS
  <2>1. l \in {0, 1} /\ aj \in Int /\ f1[j] = F1(l, aj, c) /\ f0[j] = F0(l, aj, c)
    <3> HIDE DEF m
    <3> QED BY <1>1, <2>0, AnswersAt
  <2> HIDE DEF l, aj
  <2>2. F0(l, aj, c) \in Scalar /\ F1(l, aj, c) \in Int
    BY <2>1, FactorFacts
  <2> QED BY <2>1, <2>2
<1>4. PolyVal(rg, idx, av, c) = ScalarSum(e, t)
  BY DEF PolyVal
<1>5. \A k \in 0 .. t - 1 : e[k] = (full[idx] - full[k]) * prod[k]
  OBVIOUS
<1> HIDE DEF e, f0, f1, full, m
<1>6. ASSUME NEW k \in 0 .. t - 1 PROVE prod[k] \in Int
  <2>1. PICK r : prod[k] = r[m] /\ \A j \in 0 .. m : r[j] \in Int
    BY <1>1, <1>3, ProdVecSteps
  <2>2. m \in 0 .. m
    BY <1>1
  <2> QED BY <2>1, <2>2
<1> HIDE DEF t, prod
<1>7. Ints(e, t)
  <2> SUFFICES ASSUME NEW k \in 0 .. t - 1 PROVE e[k] \in Int
    BY DEF Ints
  <2> DEFINE u == full[idx] - full[k]
             w == prod[k]
  <2>1. u \in Int /\ w \in Int
    BY <1>1, <1>2, <1>6
  <2>2. e[k] = u * w
    BY <1>5
  <2> HIDE DEF u, w
  <2> QED BY <2>1, <2>2
<1>8. ScalarSum(e, t) \in Scalar
  <2>1. t \in 0 .. t
    BY <1>1
  <2> QED BY <1>1, <1>7, <2>1, SumFacts
<1> QED BY <1>4, <1>8

LEMMA CoefficientsType ==
  ASSUME NEW rg \in KeyRings, RingLog(rg) > 0, NEW idx \in DOMAIN rg, NEW av, Ints(av, RingLog(rg))
  PROVE  Coefficients(rg, idx, av) \in [0 .. RingLog(rg) - 1 -> Scalar] /\ Ints(Coefficients(rg, idx, av), RingLog(rg))
<1> DEFINE m == RingLog(rg)
           cs == Coefficients(rg, idx, av)
           z == [j \in Bits(rg) |-> j]
           b == [j \in Bits(rg) |-> PolyVal(rg, idx, av, j)]
<1>1. m \in Nat \ {0} /\ m < Order /\ Bits(rg) = 0 .. m - 1 /\ Order \in Nat
  BY PaddedFacts, OrderFacts
<1>2. \A j \in 0 .. m - 1 : j \in Scalar /\ j \in Int
  BY <1>1 DEF Scalar
<1>3. cs = Interpolate(z, b, m)
  BY DEF Coefficients
<1>4. z \in [0 .. m - 1 -> Scalar] /\ b \in [0 .. m - 1 -> Scalar]
  <2>1. z \in [0 .. m - 1 -> Scalar]
    BY <1>1, <1>2
  <2>2. \A j \in 0 .. m - 1 : PolyVal(rg, idx, av, j) \in Scalar
    BY <1>2, PolyValType
  <2>3. b \in [0 .. m - 1 -> Scalar]
    BY <1>1, <2>2
  <2> QED BY <2>1, <2>3
<1> HIDE DEF z, b, cs
<1>5. cs \in [0 .. m - 1 -> Scalar]
  BY <1>1, <1>3, <1>4, InterpolatePasses
<1>6. Ints(cs, m)
  BY <1>5, ScalarsAreInts DEF Ints
<1> QED BY <1>5, <1>6 DEF cs

\* The coefficients construct commits to are those of that polynomial: of degree
\* less than the number of bits, as nothing leads, and equal at as many places.
LEMMA CoefficientsAgree ==
  ASSUME NEW rg \in KeyRings, RingLog(rg) > 0, NEW idx \in DOMAIN rg, NEW av, Ints(av, RingLog(rg)),
         \A c \in Bits(rg) : NotZeroAt(idx, av, RingLog(rg), c)
  PROVE  \A v \in Scalar :
           Weighted(Distances(PaddedRing(rg), idx, RingLog(rg)), F1s(idx, av, RingLog(rg), v), v, RingLog(rg))
             - Horner(Coefficients(rg, idx, av), RingLog(rg), v) \in Multiples
<1> DEFINE m == RingLog(rg)
           d == m - 1
           t == TwoTo[m]
           full == PaddedRing(rg)
           g == Distances(full, idx, m)
           cs == Coefficients(rg, idx, av)
           G == [v \in Scalar |-> Weighted(g, F1s(idx, av, m, v), v, m)]
           H == [v \in Scalar |-> Horner(cs, m, v)]
           D == [v \in Scalar |-> G[v] - H[v]]
           z == [j \in Bits(rg) |-> j]
           b == [j \in Bits(rg) |-> PolyVal(rg, idx, av, j)]
<1>1. m \in Nat \ {0} /\ m < Order /\ Bits(rg) = 0 .. m - 1 /\ Order \in Nat
  BY PaddedFacts, OrderFacts
<1>2. d \in Nat /\ d + 1 = m /\ d < Order /\ 0 .. d = 0 .. m - 1 /\ \A j \in 0 .. m - 1 : j \in Scalar /\ j \in Int
  BY <1>1 DEF Scalar
<1>3. idx \in 0 .. t - 1 /\ idx \in Nat /\ Ints(full, t)
  BY PaddedFacts, TwoToFacts
<1>4. Ints(g, t) /\ g[idx] = 0
  BY <1>1, <1>3, DistancesInts
<1>5. \A v \in Scalar : G[v] = Weighted(g, F1s(idx, av, m, v), v, m)
  OBVIOUS
<1>6. \A v \in Scalar : H[v] = Horner(cs, m, v)
  OBVIOUS
<1>7. \A v \in Scalar : D[v] = G[v] - H[v]
  OBVIOUS
<1>8. cs = Interpolate(z, b, m)
  BY DEF Coefficients
<1>9. \A j \in 0 .. m - 1 : z[j] = j /\ b[j] = PolyVal(rg, idx, av, j)
  BY <1>1
<1>10. \A j \in 0 .. m - 1 : PolyVal(rg, idx, av, j) = G[j]
  BY <1>1, <1>2, <1>5, PolyValIs
<1> HIDE DEF G, H, D, z, b, cs
<1>11. ASSUME NEW v \in Scalar PROVE G[v] \in Scalar /\ G[v] \in Int
  <2> DEFINE fi == F1s(idx, av, m, v)
  <2>1. v \in Int /\ Ints(fi, m)
    BY <1>1, <1>3, ScalarsAreInts, AnswersInts
  <2>2. G[v] = Weighted(g, fi, v, m)
    BY <1>5
  <2> HIDE DEF fi, g, m
  <2> QED BY <1>1, <1>4, <2>1, <2>2, WeightedInts DEF t
<1>12. IsPoly(G, m, 0)
  <2>0. Ints(av, m)
    OBVIOUS
  <2> HIDE DEF g, m
  <2>1. IsPoly(G, m, g[idx])
    BY <1>1, <1>3, <1>4, <1>5, <2>0, WeightedPoly DEF t
  <2> QED BY <1>4, <2>1
<1>13. PICK e \in Int : IsPoly(G, d, e)
  <2> HIDE DEF m, d
  <2> QED BY <1>2, <1>12, ZeroIsMultiple, Dropped
<1>14. z \in [0 .. m - 1 -> Scalar] /\ b \in [0 .. m - 1 -> Scalar]
  <2>1. z \in [0 .. m - 1 -> Scalar]
    BY <1>1, <1>2 DEF z
  <2>2. \A j \in 0 .. m - 1 : PolyVal(rg, idx, av, j) \in Scalar
    BY <1>2, <1>10, <1>11
  <2>3. b \in [0 .. m - 1 -> Scalar]
    BY <1>1, <2>2 DEF b
  <2> QED BY <2>1, <2>3
<1>15. cs \in [0 .. m - 1 -> Scalar]
  BY <1>1, <1>8, <1>14, InterpolatePasses
<1>16. \A j \in 0 .. m - 1 : H[j] = G[j]
  <2> SUFFICES ASSUME NEW j \in 0 .. m - 1 PROVE H[j] = G[j]
    OBVIOUS
  <2>1. OnceIn(z, m, j)
    BY <1>9 DEF OnceIn
  <2>2. Horner(cs, m, z[j]) = b[j]
    BY <1>1, <1>8, <1>14, <2>1, InterpolatePasses
  <2> QED BY <1>2, <1>6, <1>9, <1>10, <2>2
<1>17. cs \in [0 .. d -> Int]
  BY <1>2, <1>15, ScalarsAreInts
<1>18. IsPoly(H, d, cs[d]) /\ cs[d] \in Int
  <2>1. \A v \in Scalar : H[v] = Horner(cs, d + 1, v)
    BY <1>2, <1>6
  <2>2. d \in 0 .. d
    BY <1>2
  <2> HIDE DEF d
  <2> QED BY <1>2, <1>17, <2>1, <2>2, HornerIsPoly
<1>19. ASSUME NEW v \in Scalar PROVE D[v] \in Int /\ Mixed(D[v], 1, G[v], -1, H[v])
  <2> DEFINE gv == G[v]
             hv == H[v]
  <2>1. gv \in Int
    BY <1>11
  <2>2. hv \in Int
    <3>1. v \in Int
      BY ScalarsAreInts
    <3>2. Horner(cs, d + 1, v) \in Int
      <4> HIDE DEF d
      <4> QED BY <1>2, <1>17, <3>1, CoefficientInts
    <3> QED BY <1>2, <1>6, <3>2
  <2> HIDE DEF gv, hv
  <2>3. 1 * gv + (-1) * hv = gv - hv /\ gv - hv \in Int
    BY <2>1, <2>2
  <2>4. D[v] = gv - hv
    BY <1>7 DEF gv, hv
  <2> DEFINE dv == gv - hv
  <2>5. dv \in Int /\ 1 * gv + (-1) * hv = dv /\ D[v] = dv
    BY <2>3, <2>4
  <2> HIDE DEF dv
  <2>6. dv - dv \in Multiples
    BY <2>5, DifferOnce
  <2>7. Mixed(D[v], 1, gv, -1, hv)
    BY <2>5, <2>6 DEF Mixed
  <2> QED BY <2>5, <2>7 DEF gv, hv
<1>20. IsPoly(D, d, 1 * e + (-1) * cs[d])
  <2>1. 1 \in Int /\ -1 \in Int
    OBVIOUS
  <2> HIDE DEF d
  <2> QED BY <1>2, <1>13, <1>18, <1>19, <2>1, IsCombination
<1>21. 1 * e + (-1) * cs[d] \in Int
  BY <1>18
<1>22. \A v \in 0 .. d : D[v] \in Multiples
  <2> SUFFICES ASSUME NEW v \in 0 .. m - 1 PROVE D[v] \in Multiples
    BY <1>2
  <2>1. v \in Scalar /\ H[v] = G[v] /\ D[v] = G[v] - H[v] /\ G[v] \in Int
    BY <1>2, <1>7, <1>11, <1>16
  <2> QED BY <2>1, DifferOnce
<1>23. \A v \in Scalar : D[v] \in Multiples
  <2> DEFINE le == 1 * e + (-1) * cs[d]
  <2>1. IsPoly(D, d, le) /\ le \in Int
    BY <1>20, <1>21
  <2> HIDE DEF le, d
  <2> QED BY <1>2, <1>22, <2>1, Vanishing
<1> QED BY <1>5, <1>6, <1>7, <1>23 DEF cs

-----------------------------------------------------------------------------
(* The relation on the key. *)

LEMMA TotalIsWeighted ==
  ASSUME NEW fi, NEW c, NEW m, NEW full
  PROVE  Total(fi, c, m, full) = Weighted(full, fi, c, m)
BY DEF Total, Weighted

\* The weighted distances are the key times c^m less the weighted members.
LEMMA KeyTotal ==
  ASSUME NEW m \in Nat, NEW full, Ints(full, TwoTo[m]), NEW idx \in 0 .. TwoTo[m] - 1,
         NEW fi, Ints(fi, m), NEW c \in Int
  PROVE  Weighted(Distances(full, idx, m), fi, c, m)
           - (full[idx] * Pow(c, m) - Weighted(full, fi, c, m)) \in Multiples
<1> DEFINE t == TwoTo[m]
           u == full[idx]
           w == Weights(fi, c, m)
           ds == Distances(full, idx, m)
           g == [k \in 0 .. t - 1 |-> full[k] * Weight(fi, c, m, k)]
           h == [k \in 0 .. t - 1 |-> ds[k] * Weight(fi, c, m, k)]
<1>1. t \in Nat
  BY TwoToFacts
<1>2. Ints(ds, t) /\ u \in Int /\ \A k \in 0 .. t - 1 : ds[k] = u - full[k]
  BY DistancesInts
<1>3. Ints(w, t) /\ \A k \in 0 .. t - 1 : w[k] = Weight(fi, c, m, k) /\ w[k] \in Int
  BY WeightsInts
<1>4. Ints(g, t) /\ Weighted(full, fi, c, m) = ScalarSum(g, t) /\ Weighted(full, fi, c, m) \in Int
  BY WeightedInts DEF Weighted
<1>5. Ints(h, t) /\ Weighted(ds, fi, c, m) = ScalarSum(h, t) /\ Weighted(ds, fi, c, m) \in Int
  BY <1>2, WeightedInts DEF Weighted
<1>6. \A k \in 0 .. t - 1 : full[k] \in Int
  BY DEF Ints
<1>7. \A k \in 0 .. t - 1 : g[k] = full[k] * w[k] /\ h[k] = ds[k] * w[k]
  BY <1>3
<1> HIDE DEF g, h, w, ds, u, t
<1>8. Combination(w, u, g, -1, h, t)
  <2> SUFFICES ASSUME NEW k \in 0 .. t - 1 PROVE Mixed(h[k], u, w[k], -1, g[k])
    BY DEF Combination
  <2> DEFINE wk == w[k]
             fk == full[k]
  <2>1. wk \in Int /\ fk \in Int /\ h[k] = (u - fk) * wk /\ g[k] = fk * wk
    BY <1>2, <1>3, <1>6, <1>7
  <2> HIDE DEF wk, fk
  <2>2. h[k] - (u * wk + (-1) * g[k]) = 0
    BY <1>2, <2>1
  <2> QED BY <2>2, ZeroIsMultiple DEF Mixed, wk
<1> DEFINE sw == ScalarSum(w, t)
           sg == ScalarSum(g, t)
           sh == ScalarSum(h, t)
           e == Pow(c, m)
<1>9. Mixed(sh, u, sw, -1, sg)
  <2>1. -1 \in Int
    OBVIOUS
  <2> QED BY <1>1, <1>2, <1>3, <1>4, <1>5, <1>8, <2>1, SumCombined
<1>10. sw - e \in Multiples
  BY WeightsSum DEF w, t
<1>11. sw \in Int /\ e \in Int /\ sg \in Int /\ sh \in Int
  <2>1. t \in 0 .. t
    BY <1>1
  <2>2. sw \in Int
    BY <1>1, <1>3, <2>1, SumFacts
  <2>3. e \in Int
    BY PowFacts
  <2> QED BY <1>4, <1>5, <2>2, <2>3
<1> HIDE DEF sw, sg, sh, e
<1> DEFINE d1 == sh - (u * sw + (-1) * sg)
           d2 == sw - e
<1>12. sh - (u * e - sg) = d1 + d2 * u
  BY <1>2, <1>11
<1>13. d1 \in Multiples /\ d2 \in Multiples
  BY <1>9, <1>10 DEF Mixed
<1> HIDE DEF d1, d2
<1>14. d1 + d2 * u \in Multiples
  BY <1>2, <1>13, MultiplesCombine
<1> QED BY <1>4, <1>5, <1>12, <1>14 DEF sh, sg, e, u, ds

\* The combination of the committed coefficients.
CommittedTerms(e, m, c) == [j \in 0 .. m - 1 |-> ((-Pow(c, j)) * (e[j] % Order)) % Order]

LEMMA CommittedSum ==
  ASSUME NEW m \in Nat, NEW e, Ints(e, m), NEW c \in Int
  PROVE  /\ ScalarSum(CommittedTerms(e, m, c), m) \in Int /\ Horner(e, m, c) \in Int
         /\ ScalarSum(CommittedTerms(e, m, c), m) - (-Horner(e, m, c)) \in Multiples
<1> DEFINE w == CommittedTerms(e, m, c)
<1>1. ASSUME NEW j \in 0 .. m - 1
      PROVE  w[j] \in Int /\ w[j] + Pow(c, j) * e[j] \in Multiples
  <2> DEFINE p == Pow(c, j)
             q == e[j]
             r == q % Order
             np == -p
             z == np * r
  <2>1. p \in Int /\ q \in Int
    BY PowFacts DEF Ints
  <2>2. w[j] = z % Order
    BY DEF CommittedTerms
  <2> HIDE DEF w, p, q
  <2>3. r \in Int /\ r - q \in Multiples /\ np \in Int
    BY <2>1, ReducedBy
  <2> HIDE DEF r
  <2>4. z \in Int
    BY <2>1, <2>3
  <2>5. z % Order \in Int /\ (z % Order) - z \in Multiples
    <3> HIDE DEF z
    <3> QED BY <2>4, ReducedBy
  <2> DEFINE v == z % Order
             d1 == v - z
             d2 == r - q
  <2>6. v + p * q = d1 - d2 * p
    <3>1. v \in Int
      BY <2>5
    <3> HIDE DEF v
    <3> QED BY <2>1, <2>3, <3>1
  <2>7. d1 \in Multiples /\ d2 \in Multiples
    BY <2>3, <2>5
  <2> HIDE DEF d1, d2
  <2>8. d1 - d2 * p \in Multiples
    BY <2>1, <2>7, MultiplesCombine
  <2>9. v + p * q \in Multiples
    BY <2>6, <2>8
  <2> QED BY <2>2, <2>5, <2>9 DEF p, q
<1>2. Ints(w, m)
  BY <1>1 DEF Ints
<1>3. \A j \in 0 .. m - 1 : w[j] + Pow(c, j) * e[j] \in Multiples
  BY <1>1
<1> HIDE DEF w
<1> DEFINE t == ScalarSum(w, m)
           h == Horner(e, m, c)
<1>4. t + h \in Multiples
  BY <1>2, <1>3, TermsSum
<1>5. t \in Int
  <2>1. m \in 0 .. m
    OBVIOUS
  <2> QED BY <1>2, <2>1, SumFacts
<1>6. h \in Int
  <2>1. m \in 0 .. m
    OBVIOUS
  <2> QED BY <2>1, HornerFacts DEF Horner
<1> HIDE DEF t, h
<1>7. t - (-h) = t + h
  BY <1>5, <1>6
<1>8. t - (-h) \in Multiples
  BY <1>4, <1>7
<1> QED BY <1>5, <1>6, <1>8 DEF t, h, w

\* What the relation on the key says.
KeyPart(k0, cs, m, c, p, total) == (Pow(c, p) * k0 + -Horner(cs, m, c)) + -total \in Multiples

\* That relation is the equation of the keys and that of the masks.
LEMMA FinalMeans ==
  ASSUME NEW m \in Nat, NEW cs, Ints(cs, m), NEW rho, Ints(rho, m), NEW c \in Int, NEW p \in Nat,
         NEW k0 \in Int, NEW mk \in Int, NEW pf, NEW re, NEW full,
         pf.cd = [j \in 0 .. m - 1 |-> CommitWith(cs[j], rho[j])], re.zd \in Int,
         Total(re.fi, c, p, full) \in Int
  PROVE  FinalRelation(pf, re, c, CommitWith(k0, mk), p, full) = NO_POINT
           <=> KeyPart(k0, cs, m, c, p, Total(re.fi, c, p, full)) /\ KeyPart(mk, rho, m, c, p, re.zd)
<1> DEFINE ps == [j \in DOMAIN pf.cd |-> TimesPoint(-Pow(c, j), pf.cd[j])]
           t1 == CommittedTerms(cs, m, c)
           t2 == CommittedTerms(rho, m, c)
           s1 == ScalarSum(t1, m)
           s2 == ScalarSum(t2, m)
           e == Pow(c, p)
           total == Total(re.fi, c, p, full)
<1>1. DOMAIN pf.cd = 0 .. m - 1 /\ Size(pf.cd) = m /\ DOMAIN ps = 0 .. m - 1
  <2>1. DOMAIN pf.cd = 0 .. m - 1 /\ DOMAIN ps = 0 .. m - 1
    OBVIOUS
  <2>2. Cardinality(0 .. m - 1) = IF 0 > m - 1 THEN 0 ELSE (m - 1) - 0 + 1
    <3> DEFINE z == m - 1
    <3>1. z \in Int
      OBVIOUS
    <3> HIDE DEF z
    <3>2. Cardinality(0 .. z) = IF 0 > z THEN 0 ELSE z - 0 + 1
      BY <3>1, FS_Interval
    <3> QED BY <3>2 DEF z
  <2>3. Cardinality(0 .. m - 1) = m
    BY <2>2
  <2> QED BY <2>1, <2>3 DEF Size
<1>2. \A j \in 0 .. m - 1 : ps[j] = << ((-Pow(c, j)) * (cs[j] % Order)) % Order,
                                       ((-Pow(c, j)) * (rho[j] % Order)) % Order >>
  BY DEF TimesPoint, CommitWith
<1>3. [j \in DOMAIN ps |-> ps[j][1]] = t1 /\ [j \in DOMAIN ps |-> ps[j][2]] = t2
  <2> HIDE DEF ps
  <2> QED BY <1>1, <1>2 DEF CommittedTerms
<1> HIDE DEF t1, t2
<1>4. SumPoints(ps, m) = <<s1, s2>>
  BY <1>3 DEF SumPoints
<1> HIDE DEF s1, s2
<1>5. FinalRelation(pf, re, c, CommitWith(k0, mk), p, full)
        = PlusPoint(PlusPoint(TimesPoint(e, CommitWith(k0, mk)), SumPoints(ps, m)), <<-total, -re.zd>>)
  BY <1>1 DEF FinalRelation
<1> HIDE DEF ps, e, total
<1> DEFINE ko == k0 % Order
           mo == mk % Order
           nt == -total
           nz == -re.zd
<1>6. FinalRelation(pf, re, c, CommitWith(k0, mk), p, full)
        = <<CoordSum(e, ko, s1, nt), CoordSum(e, mo, s2, nz)>>
  BY <1>4, <1>5 DEF PlusPoint, TimesPoint, CommitWith, CoordSum
<1>7. ko \in Int /\ ko - k0 \in Multiples /\ mo \in Int /\ mo - mk \in Multiples
  BY ReducedBy
<1>8. nt \in Int /\ nz \in Int /\ e \in Int
  <2>1. e \in Int
    BY PowFacts DEF e
  <2>2. total \in Int
    BY DEF total
  <2> QED BY <2>1, <2>2
<1> DEFINE h1 == -Horner(cs, m, c)
           h2 == -Horner(rho, m, c)
<1>9. s1 \in Int /\ h1 \in Int /\ s1 - h1 \in Multiples
  <2> DEFINE h == Horner(cs, m, c)
  <2>1. s1 \in Int /\ h \in Int /\ s1 - (-h) \in Multiples
    BY CommittedSum DEF s1, t1
  <2> HIDE DEF h
  <2>2. -h \in Int
    BY <2>1
  <2> QED BY <2>1, <2>2 DEF h
<1>10. s2 \in Int /\ h2 \in Int /\ s2 - h2 \in Multiples
  <2> DEFINE h == Horner(rho, m, c)
  <2>1. s2 \in Int /\ h \in Int /\ s2 - (-h) \in Multiples
    BY CommittedSum DEF s2, t2
  <2> HIDE DEF h
  <2>2. -h \in Int
    BY <2>1
  <2> QED BY <2>1, <2>2 DEF h
<1> HIDE DEF ko, mo, nt, nz, h1, h2
<1>11. CoordSum(e, ko, s1, nt) = 0 <=> (e * k0 + h1) + nt \in Multiples
  BY <1>7, <1>8, <1>9, CoordinateZero
<1>12. CoordSum(e, mo, s2, nz) = 0 <=> (e * mk + h2) + nz \in Multiples
  BY <1>7, <1>8, <1>10, CoordinateZero
<1>13. FinalRelation(pf, re, c, CommitWith(k0, mk), p, full) = NO_POINT
         <=> CoordSum(e, ko, s1, nt) = 0 /\ CoordSum(e, mo, s2, nz) = 0
  BY <1>6 DEF NO_POINT
<1>14. KeyPart(k0, cs, m, c, p, total) <=> (e * k0 + h1) + nt \in Multiples
  BY DEF KeyPart, e, h1, nt
<1>15. KeyPart(mk, rho, m, c, p, re.zd) <=> (e * mk + h2) + nz \in Multiples
  BY DEF KeyPart, e, h2, nz
<1> QED BY <1>11, <1>12, <1>13, <1>14, <1>15 DEF total

-----------------------------------------------------------------------------
(* What verify answers. *)

\* What verify answers to the proof for the challenge c, the commitment to k0
\* and the ring theirs.
VerdictOf(rg, idx, av, ms, k0, c, theirs) ==
  Answer(Commitments(rg, idx, av, ms), Responses(rg, idx, av, ms, c), c, CommitWith(k0, ms.key), theirs)

LEMMA MaskFacts ==
  ASSUME NEW ms \in KeyMasks, NEW m \in Nat, m <= MaxMembers
  PROVE  /\ ms.key \in Scalar /\ ms.key \in Int /\ Ints(ms.rho, m)
         /\ \A j \in 0 .. m - 1 : ms.r[j] \in Scalar /\ ms.s[j] \in Scalar /\ ms.t[j] \in Scalar
<1>1. ms.key \in Scalar /\ \A f \in {ms.r, ms.s, ms.t, ms.rho} : f \in [0 .. MaxMembers -> Scalar]
  BY KeyMasksAssumption
<1>2. \A j \in 0 .. m - 1 : j \in 0 .. MaxMembers
  BY MaxMembersAssumption, OrderFacts
<1>3. Ints(ms.rho, m)
  BY <1>1, <1>2, ScalarsAreInts DEF Ints
<1> QED BY <1>1, <1>2, <1>3, ScalarsAreInts

\* zd answers for the masks.
LEMMA MaskPart ==
  ASSUME NEW mk \in Int, NEW rho, NEW m \in Nat, Ints(rho, m), NEW c \in Int, NEW p \in Nat,
         NEW zd, zd = (mk * Pow(c, m) - Horner(rho, m, c)) % Order
  PROVE  zd \in Int /\ (KeyPart(mk, rho, m, c, p, zd) <=> mk * Pow(c, p) - mk * Pow(c, m) \in Multiples)
<1> DEFINE e == Pow(c, m)
           e0 == Pow(c, p)
           h == Horner(rho, m, c)
           q == mk * e - h
           px == (e0 * mk + -h) + -zd
           py == mk * e0 - mk * e
<1>1. e \in Int /\ e0 \in Int /\ h \in Int
  BY PowFacts, CommittedSum
<1> HIDE DEF e, e0, h
<1>2. q \in Int
  BY <1>1
<1>3. zd = q % Order
  BY DEF e, h
<1> HIDE DEF q
<1>4. zd \in Int /\ q - zd \in Multiples
  BY <1>2, <1>3, ReducedBy
<1>5. px - py = q - zd
  BY <1>1, <1>2, <1>4 DEF q
<1>6. px \in Int /\ py \in Int
  BY <1>1, <1>4
<1> HIDE DEF px, py
<1>7. px \in Multiples <=> py \in Multiples
  BY <1>4, <1>5, <1>6, SameMultiples
<1> QED BY <1>4, <1>7 DEF px, py, e, e0, h, KeyPart

\* It is ok when the two equations hold.
LEMMA VerdictMeans ==
  ASSUME NEW rg \in KeyRings, RingLog(rg) > 0, NEW idx \in DOMAIN rg, NEW av \in [Bits(rg) -> Scalar],
         NEW ms \in KeyMasks, NEW k0 \in Scalar, NEW c \in Scalar, NEW theirs \in KeyRings,
         RingLog(theirs) <= RingLog(rg)
  PROVE  /\ VerdictOf(rg, idx, av, ms, k0, c, theirs) = "ok"
              => /\ KeyPart(k0, Coefficients(rg, idx, av), RingLog(rg), c, RingLog(theirs),
                            Total(F1s(idx, av, RingLog(rg), c), c, RingLog(theirs), PaddedRing(theirs)))
                 /\ ms.key * Pow(c, RingLog(theirs)) - ms.key * Pow(c, RingLog(rg)) \in Multiples
         /\ /\ RingLog(theirs) = RingLog(rg)
            /\ KeyPart(k0, Coefficients(rg, idx, av), RingLog(rg), c, RingLog(theirs),
                       Total(F1s(idx, av, RingLog(rg), c), c, RingLog(theirs), PaddedRing(theirs)))
            => VerdictOf(rg, idx, av, ms, k0, c, theirs) = "ok"
<1> DEFINE m == RingLog(rg)
           p == RingLog(theirs)
           full == PaddedRing(theirs)
           pf == Commitments(rg, idx, av, ms)
           re == Responses(rg, idx, av, ms, c)
           cs == Coefficients(rg, idx, av)
           fi == F1s(idx, av, m, c)
           mk == ms.key
           kc == CommitWith(k0, mk)
           bitsHold == \A j \in Bits(theirs) : BitRelation(pf, re, c, j) = NO_POINT
                                               /\ ProductRelation(pf, re, c, j) = NO_POINT
           finalHolds == FinalRelation(pf, re, c, kc, p, full) = NO_POINT
<1>1. /\ m \in Nat /\ m <= MaxMembers /\ Bits(rg) = 0 .. m - 1
      /\ p \in Nat /\ p <= m /\ Bits(theirs) = 0 .. p - 1
  BY PaddedFacts
<1>2. Ints(full, TwoTo[p])
  BY PaddedFacts
<1>3. idx \in Nat
  BY PaddedFacts
<1>4. c \in Int /\ k0 \in Int
  BY ScalarsAreInts
<1>5. av \in [0 .. m - 1 -> Scalar] /\ Ints(av, m)
  <2>1. av \in [0 .. m - 1 -> Scalar]
    BY <1>1
  <2> QED BY <2>1, ScalarsAreInts DEF Ints
<1>6. Ints(cs, m)
  BY <1>5, CoefficientsType
<1>7. /\ mk \in Int /\ Ints(ms.rho, m)
      /\ \A j \in 0 .. m - 1 : ms.r[j] \in Scalar /\ ms.s[j] \in Scalar /\ ms.t[j] \in Scalar
  <2> HIDE DEF m
  <2> QED BY <1>1, MaskFacts
<1>8. /\ pf.cl = [j \in 0 .. m - 1 |-> CommitWith(Bit(idx, j), ms.r[j])]
      /\ pf.ca = [j \in 0 .. m - 1 |-> CommitWith(av[j], ms.s[j])]
      /\ pf.cb = [j \in 0 .. m - 1 |-> CommitWith(Bit(idx, j) * av[j], ms.t[j])]
      /\ pf.cd = [j \in 0 .. m - 1 |-> CommitWith(cs[j], ms.rho[j])]
  BY <1>1 DEF Commitments
<1>9. /\ re.fi = fi
      /\ re.za = [j \in 0 .. m - 1 |-> (ms.r[j] * c + ms.s[j]) % Order]
      /\ re.zb = [j \in 0 .. m - 1 |-> MaskBit(ms.r[j], ms.t[j], c, fi[j])]
      /\ re.zd = (mk * Pow(c, m) - Horner(ms.rho, m, c)) % Order
  BY <1>1 DEF Responses
<1>10. Size(pf.cl) = m
  <2> DEFINE cl == pf.cl
  <2>1. DOMAIN cl = 0 .. m - 1
    BY <1>8
  <2>2. cl \in [0 .. m - 1 -> {cl[j] : j \in 0 .. m - 1}]
    BY <1>8
  <2> HIDE DEF cl, m
  <2>3. Size(cl) = m
    BY <1>1, <2>2, SizeFacts
  <2> QED BY <2>3 DEF cl
<1>11. VerdictOf(rg, idx, av, ms, k0, c, theirs) = IF bitsHold /\ finalHolds THEN "ok" ELSE "err"
  <2>1. VerdictOf(rg, idx, av, ms, k0, c, theirs) = Answer(pf, re, c, kc, theirs)
    BY DEF VerdictOf
  <2>2. ~(p > Size(pf.cl)) /\ theirs # EmptyRing
    BY <1>1, <1>10, NotEmpty
  <2> HIDE DEF pf, re, kc
  <2> QED BY <2>1, <2>2 DEF Answer
<1> HIDE DEF pf, re, cs
<1>12. /\ Ints(fi, m)
       /\ \A j \in 0 .. m - 1 : Bit(idx, j) \in {0, 1} /\ fi[j] = F1(Bit(idx, j), av[j], c)
  <2> HIDE DEF m
  <2>1. m \in Nat /\ Ints(av, m)
    BY <1>1, <1>5
  <2>2. Ints(F1s(idx, av, m, c), m)
    BY <1>3, <1>4, <2>1, AnswersInts, Zenon
  <2>3. \A j \in 0 .. m - 1 : Bit(idx, j) \in {0, 1} /\ F1s(idx, av, m, c)[j] = F1(Bit(idx, j), av[j], c)
    BY <1>3, <1>4, <2>1, AnswersAt
  <2> QED BY <2>2, <2>3
<1>13. Ints(fi, p) /\ \A j \in 0 .. p - 1 : j \in 0 .. m - 1
  <2>1. \A j \in 0 .. p - 1 : j \in 0 .. m - 1
    <3> HIDE DEF m, p
    <3> QED BY <1>1
  <2> QED BY <1>12, <2>1 DEF Ints
<1>14. Total(re.fi, c, p, full) \in Int
  <2> HIDE DEF fi, p, full
  <2>1. Weighted(full, fi, c, p) \in Int
    BY <1>1, <1>2, <1>4, <1>13, WeightedInts
  <2> QED BY <1>9, <2>1, TotalIsWeighted
<1>15. /\ re.zd \in Int
       /\ KeyPart(mk, ms.rho, m, c, p, re.zd) <=> mk * Pow(c, p) - mk * Pow(c, m) \in Multiples
  <2> DEFINE zd == re.zd
             rho == ms.rho
  <2>1. zd = (mk * Pow(c, m) - Horner(rho, m, c)) % Order /\ Ints(rho, m)
    BY <1>7, <1>9
  <2> HIDE DEF zd, rho, mk, m, p
  <2>2. zd \in Int /\ (KeyPart(mk, rho, m, c, p, zd) <=> mk * Pow(c, p) - mk * Pow(c, m) \in Multiples)
    BY <1>1, <1>4, <1>7, <2>1, MaskPart
  <2> QED BY <2>2 DEF zd, rho
<1>16. finalHolds <=> /\ KeyPart(k0, cs, m, c, p, Total(re.fi, c, p, full))
                      /\ KeyPart(mk, ms.rho, m, c, p, re.zd)
  <2> DEFINE rho == ms.rho
  <2>1. pf.cd = [j \in 0 .. m - 1 |-> CommitWith(cs[j], rho[j])] /\ Ints(rho, m)
    BY <1>7, <1>8
  <2>2. re.zd \in Int
    BY <1>15
  <2> HIDE DEF rho, mk, m, p, full, kc
  <2>3. FinalRelation(pf, re, c, CommitWith(k0, mk), p, full) = NO_POINT
          <=> KeyPart(k0, cs, m, c, p, Total(re.fi, c, p, full)) /\ KeyPart(mk, rho, m, c, p, re.zd)
    BY <1>1, <1>4, <1>6, <1>7, <1>14, <2>1, <2>2, FinalMeans
  <2> QED BY <2>3 DEF rho, kc
<1>17. bitsHold
  <2> SUFFICES ASSUME NEW j \in 0 .. p - 1
               PROVE  BitRelation(pf, re, c, j) = NO_POINT /\ ProductRelation(pf, re, c, j) = NO_POINT
    BY <1>1
  <2> DEFINE l == Bit(idx, j)
             aj == av[j]
             r == ms.r[j]
             s0 == ms.s[j]
             t == ms.t[j]
  <2>1. j \in 0 .. m - 1
    BY <1>13
  <2>2. aj \in Scalar
    BY <1>5, <2>1
  <2>3. r \in Scalar /\ s0 \in Scalar /\ t \in Scalar
    BY <1>7, <2>1
  <2>4. l \in {0, 1} /\ re.fi[j] = F1(l, aj, c)
    BY <1>9, <1>12, <2>1
  <2>5. BitParts(pf, re, c, j, l, aj, r, s0, t)
    BY <1>8, <1>9, <2>1, <2>2, <2>3, <2>4 DEF BitParts
  <2> HIDE DEF l, aj, r, s0, t
  <2>6. c \in Int
    BY <1>4
  <2> HIDE DEF m, p, fi, bitsHold, finalHolds
  <2> QED BY <2>5, <2>6, BitHolds
<1>18. p = m => mk * Pow(c, p) - mk * Pow(c, m) \in Multiples
  <2> SUFFICES ASSUME p = m PROVE mk * Pow(c, p) - mk * Pow(c, m) \in Multiples
    OBVIOUS
  <2> DEFINE e == Pow(c, p)
             z == mk * e
  <2>1. e \in Int
    BY <1>1, <1>4, PowFacts
  <2> HIDE DEF e
  <2>2. z \in Int
    BY <1>7, <2>1
  <2> HIDE DEF z
  <2>3. z - z \in Multiples
    BY <2>2, DifferOnce
  <2> QED BY <2>3 DEF z, e
<1> HIDE DEF m, p, full, fi, mk, bitsHold, finalHolds
<1>19. VerdictOf(rg, idx, av, ms, k0, c, theirs) = "ok"
         <=> /\ KeyPart(k0, cs, m, c, p, Total(fi, c, p, full))
             /\ mk * Pow(c, p) - mk * Pow(c, m) \in Multiples
  BY <1>9, <1>11, <1>15, <1>16, <1>17
<1> QED BY <1>18, <1>19 DEF m, p, full, fi, mk, cs

-----------------------------------------------------------------------------
(* Which challenges verify accepts. *)

\* With the key of the member and the same ring they do.
LEMMA HonestVerdict ==
  ASSUME NEW rg \in KeyRings, RingLog(rg) > 0, NEW idx \in DOMAIN rg, NEW av \in [Bits(rg) -> Scalar],
         NEW ms \in KeyMasks, NEW c \in Scalar,
         \A v \in Bits(rg) : NotZeroAt(idx, av, RingLog(rg), v)
  PROVE  VerdictOf(rg, idx, av, ms, rg[idx], c, rg) = "ok"
<1> DEFINE m == RingLog(rg)
           full == PaddedRing(rg)
           k0 == rg[idx]
           cs == Coefficients(rg, idx, av)
           fi == F1s(idx, av, m, c)
           w == Weighted(Distances(full, idx, m), fi, c, m)
           t == Weighted(full, fi, c, m)
           h == Horner(cs, m, c)
           e == Pow(c, m)
<1>1. m \in Nat /\ Bits(rg) = 0 .. m - 1 /\ Ints(full, TwoTo[m]) /\ m <= m
  BY PaddedFacts
<1>2. idx \in 0 .. TwoTo[m] - 1 /\ idx \in Nat /\ full[idx] = k0 /\ full[idx] \in Scalar
  <2>1. idx \in 0 .. TwoTo[m] - 1 /\ full[idx] = k0
    BY PaddedFacts
  <2>2. full \in [0 .. TwoTo[m] - 1 -> Scalar]
    BY PaddedFacts
  <2> HIDE DEF m, full, k0
  <2> QED BY <2>1, <2>2
<1>3. c \in Int /\ k0 \in Scalar /\ k0 \in Int
  BY <1>2, ScalarsAreInts
<1>4. Ints(av, m)
  BY <1>1, ScalarsAreInts DEF Ints
<1>5. Ints(cs, m)
  BY <1>4, CoefficientsType
<1>6. w - h \in Multiples
  BY <1>4, CoefficientsAgree
<1> HIDE DEF cs
<1>7. Ints(fi, m)
  <2> HIDE DEF m
  <2> QED BY <1>1, <1>2, <1>3, <1>4, AnswersInts, Zenon
<1>8. w - (k0 * e - t) \in Multiples /\ w \in Int /\ t \in Int
  <2> HIDE DEF m, full, fi, k0
  <2> DEFINE ds == Distances(full, idx, m)
  <2>1. w - (full[idx] * e - t) \in Multiples
    BY <1>1, <1>2, <1>3, <1>7, KeyTotal
  <2>2. Ints(ds, TwoTo[m])
    BY <1>1, <1>2, DistancesInts
  <2>3. t \in Int
    BY <1>1, <1>3, <1>7, WeightedInts
  <2> HIDE DEF ds
  <2>4. Weighted(ds, fi, c, m) \in Int
    BY <1>1, <1>3, <1>7, <2>2, WeightedInts
  <2> QED BY <1>2, <2>1, <2>3, <2>4 DEF ds
<1>9. h \in Int /\ e \in Int
  <2> HIDE DEF m
  <2> QED BY <1>1, <1>3, <1>5, CommittedSum, PowFacts
<1>10. Total(fi, c, m, full) = t
  BY TotalIsWeighted
<1> HIDE DEF w, t, h, e, k0
<1> DEFINE d1 == w - h
           d2 == w - (k0 * e - t)
<1>11. (e * k0 + -h) + -t = d1 - d2
  BY <1>3, <1>8, <1>9
<1>12. d1 \in Multiples /\ d2 \in Multiples
  BY <1>6, <1>8
<1> HIDE DEF d1, d2
<1>13. d1 - d2 \in Multiples
  BY <1>12, MultiplesClosed
<1>14. KeyPart(k0, cs, m, c, m, Total(fi, c, m, full))
  BY <1>10, <1>11, <1>13 DEF KeyPart, h, e
<1> QED BY <1>1, <1>3, <1>14, VerdictMeans DEF cs, k0

\* The challenges for which a proof is accepted.
Accepted(rg, idx, av, ms, k0, theirs) == {c \in Scalar : VerdictOf(rg, idx, av, ms, k0, c, theirs) = "ok"}

LEMMA FewRoots ==
  ASSUME NEW d \in Nat, NEW l, l \notin Multiples, NEW f, IsPoly(f, d, l), NEW S, S \subseteq Roots(f)
  PROVE  Cardinality(S) <= d
<1>1. Roots(f) \subseteq Scalar
  BY DEF Roots
<1>2. IsFiniteSet(Roots(f)) /\ Cardinality(Roots(f)) \in Nat /\ Cardinality(S) \in Nat
  BY <1>1, ScalarsFinite
<1>3. Cardinality(S) <= Cardinality(Roots(f))
  BY <1>2, FS_Subset
<1>4. Cardinality(Roots(f)) <= d
  BY RootBound
<1> QED BY <1>2, <1>3, <1>4

\* An empty ring is refused.
LEMMA EmptyRefused ==
  ASSUME NEW rg \in KeyRings, NEW idx, NEW av, NEW ms, NEW k0
  PROVE  Cardinality(Accepted(rg, idx, av, ms, k0, EmptyRing)) <= RingLog(rg)
<1>1. ASSUME NEW c \in Scalar PROVE VerdictOf(rg, idx, av, ms, k0, c, EmptyRing) = "err"
  BY DEF VerdictOf, Answer
<1>2. Accepted(rg, idx, av, ms, k0, EmptyRing) = {}
  BY <1>1 DEF Accepted
<1>3. Cardinality({}) = 0
  BY FS_EmptySet
<1>4. RingLog(rg) \in Nat
  BY PaddedFacts
<1> QED BY <1>2, <1>3, <1>4

\* A longer ring asks for more bits than the proof has.
LEMMA LongerRefused ==
  ASSUME NEW rg \in KeyRings, NEW idx, NEW av, NEW ms, NEW k0, NEW theirs \in KeyRings,
         RingLog(theirs) > RingLog(rg)
  PROVE  Cardinality(Accepted(rg, idx, av, ms, k0, theirs)) <= RingLog(rg)
<1> DEFINE m == RingLog(rg)
           pf == Commitments(rg, idx, av, ms)
           cl == pf.cl
<1>1. m \in Nat /\ Bits(rg) = 0 .. m - 1
  BY PaddedFacts
<1>2. cl = [j \in 0 .. m - 1 |-> CommitWith(Bit(idx, j), ms.r[j])]
  BY <1>1 DEF Commitments
<1>3. cl \in [0 .. m - 1 -> {cl[j] : j \in 0 .. m - 1}]
  BY <1>2
<1>4. Size(cl) = m
  <2> HIDE DEF cl, m
  <2> QED BY <1>1, <1>3, SizeFacts
<1>5. ASSUME NEW c \in Scalar PROVE VerdictOf(rg, idx, av, ms, k0, c, theirs) = "panic"
  <2> DEFINE re == Responses(rg, idx, av, ms, c)
             kc == CommitWith(k0, ms.key)
  <2>1. VerdictOf(rg, idx, av, ms, k0, c, theirs) = Answer(pf, re, c, kc, theirs)
    BY DEF VerdictOf
  <2>2. RingLog(theirs) > Size(pf.cl) /\ theirs # EmptyRing
    BY <1>4, NotEmpty
  <2> HIDE DEF pf, re, kc
  <2> QED BY <2>1, <2>2 DEF Answer
<1>6. Accepted(rg, idx, av, ms, k0, theirs) = {}
  BY <1>5 DEF Accepted
<1>7. Cardinality({}) = 0
  BY FS_EmptySet
<1> HIDE DEF m
<1>8. 0 <= m
  BY <1>1
<1> QED BY <1>6, <1>7, <1>8 DEF m

\* For a shorter ring the masks do not fit, unless the key's mask is zero.
LEMMA ShorterRefused ==
  ASSUME NEW rg \in KeyRings, RingLog(rg) > 0, NEW idx \in DOMAIN rg, NEW av \in [Bits(rg) -> Scalar],
         NEW ms \in KeyMasks, NEW k0 \in Scalar, NEW theirs \in KeyRings,
         RingLog(theirs) < RingLog(rg), ms.key # 0
  PROVE  Cardinality(Accepted(rg, idx, av, ms, k0, theirs)) <= RingLog(rg)
<1> DEFINE m == RingLog(rg)
           p == RingLog(theirs)
           e == m - p - 1
           mk == ms.key
           P == [v \in Scalar |-> Pow(v, p)]
           M == [v \in Scalar |-> Pow(v, m)]
           f == [v \in Scalar |-> mk * Pow(v, p) - mk * Pow(v, m)]
           A == Accepted(rg, idx, av, ms, k0, theirs)
<1>1. m \in Nat /\ p \in Nat /\ p <= m /\ m <= MaxMembers /\ e \in Nat /\ p + e + 1 = m
  <2>1. m \in Nat /\ p \in Nat /\ m <= MaxMembers /\ p < m
    BY PaddedFacts
  <2> HIDE DEF m, p
  <2> QED BY <2>1
<1>2. mk \in Scalar /\ mk \in Int /\ mk # 0
  <2> HIDE DEF m
  <2> QED BY <1>1, MaskFacts
<1>3. A \subseteq Roots(f)
  <2> SUFFICES ASSUME NEW v \in A PROVE v \in Scalar /\ f[v] \in Multiples
    BY DEF Roots
  <2>1. v \in Scalar /\ VerdictOf(rg, idx, av, ms, k0, v, theirs) = "ok"
    BY DEF Accepted
  <2>2. mk * Pow(v, p) - mk * Pow(v, m) \in Multiples
    BY <1>1, <2>1, VerdictMeans
  <2> QED BY <2>1, <2>2
<1>4. \A v \in Scalar : P[v] = Pow(v, p) /\ M[v] = Pow(v, m) /\ f[v] = mk * Pow(v, p) - mk * Pow(v, m)
  OBVIOUS
<1> HIDE DEF P, M, f, A, m, p, e, mk
<1>5. IsPoly(M, m, 1) /\ IsPoly(P, p, 1)
  BY <1>1, <1>4, PowIsPoly
<1>6. IsPoly(P, m, 0)
  <2>1. IsPoly(P, p + e + 1, 0)
    BY <1>1, <1>5, RaisedTo
  <2> QED BY <1>1, <2>1
<1> DEFINE nk == -mk
<1>7. nk \in Int /\ 0 \in Int /\ 1 \in Int
  BY <1>2
<1>8. ASSUME NEW v \in Scalar PROVE f[v] \in Int /\ Mixed(f[v], mk, P[v], nk, M[v])
  <2> DEFINE px == Pow(v, p)
             py == Pow(v, m)
             z == mk * px - mk * py
  <2>1. px \in Int /\ py \in Int
    BY <1>1, ScalarsAreInts, PowFacts
  <2>2. P[v] = px /\ M[v] = py /\ f[v] = z
    BY <1>4
  <2> HIDE DEF px, py
  <2>3. z \in Int /\ mk * px + nk * py = z
    BY <1>2, <2>1
  <2> HIDE DEF z
  <2>4. z - z \in Multiples
    BY <2>3, DifferOnce
  <2> QED BY <2>2, <2>3, <2>4 DEF Mixed
<1>9. IsPoly(f, m, mk * 0 + nk * 1)
  <2> HIDE DEF nk
  <2> QED BY <1>1, <1>2, <1>5, <1>6, <1>7, <1>8, IsCombination
<1>10. mk * 0 + nk * 1 = 0 - mk
  BY <1>2
<1>11. 0 - mk \notin Multiples
  <2>1. mk \notin Multiples
    BY <1>2, ScalarMultiple
  <2> DEFINE z == 0 - mk
  <2>2. mk = 0 - z
    BY <1>2
  <2> HIDE DEF z
  <2>3. z \in Multiples => 0 - z \in Multiples
    BY ZeroIsMultiple, MultiplesClosed
  <2> QED BY <2>1, <2>2, <2>3 DEF z
<1> DEFINE l == 0 - mk
<1>12. IsPoly(f, m, l) /\ l \notin Multiples
  BY <1>9, <1>10, <1>11
<1> HIDE DEF l
<1>13. Cardinality(A) <= m
  BY <1>1, <1>3, <1>12, FewRoots
<1> QED BY <1>13 DEF A, m

\* For another member the equation of keys leads with the difference.
LEMMA SameLengthRefused ==
  ASSUME NEW rg \in KeyRings, RingLog(rg) > 0, NEW idx \in DOMAIN rg, NEW av \in [Bits(rg) -> Scalar],
         NEW ms \in KeyMasks, NEW k0 \in Scalar, NEW theirs \in KeyRings,
         RingLog(theirs) = RingLog(rg), PaddedRing(theirs)[idx] # k0
  PROVE  Cardinality(Accepted(rg, idx, av, ms, k0, theirs)) <= RingLog(rg)
<1> DEFINE m == RingLog(rg)
           d == m - 1
           full == PaddedRing(theirs)
           cs == Coefficients(rg, idx, av)
           P == [v \in Scalar |-> Pow(v, m)]
           H == [v \in Scalar |-> Horner(cs, m, v)]
           W == [v \in Scalar |-> Weighted(full, F1s(idx, av, m, v), v, m)]
           G == [v \in Scalar |-> k0 * P[v] - H[v]]
           f == [v \in Scalar |-> G[v] - W[v]]
           A == Accepted(rg, idx, av, ms, k0, theirs)
           kt == full[idx]
<1>1. m \in Nat /\ m > 0 /\ Bits(rg) = 0 .. m - 1 /\ m <= m
  BY PaddedFacts
<1>2. d \in Nat /\ d + 1 = m /\ 0 .. d = 0 .. m - 1
  <2> HIDE DEF m
  <2> QED BY <1>1
<1>3. Ints(full, TwoTo[m]) /\ kt \in Scalar /\ kt \in Int /\ idx \in Nat /\ idx \in 0 .. TwoTo[m] - 1
  <2>1. idx \in 0 .. TwoTo[m] - 1
    BY PaddedFacts
  <2>2. full \in [0 .. TwoTo[m] - 1 -> Scalar] /\ Ints(full, TwoTo[m])
    BY PaddedFacts
  <2> HIDE DEF m, full
  <2> QED BY <2>1, <2>2, ScalarsAreInts
<1>4. k0 \in Int /\ kt # k0
  BY ScalarsAreInts
<1>5. Ints(av, m)
  BY <1>1, ScalarsAreInts DEF Ints
<1>6. Ints(cs, m) /\ cs \in [0 .. m - 1 -> Scalar]
  BY <1>5, CoefficientsType
<1>7. ASSUME NEW v \in Scalar
      PROVE  /\ P[v] = Pow(v, m) /\ H[v] = Horner(cs, m, v) /\ W[v] = Weighted(full, F1s(idx, av, m, v), v, m)
             /\ G[v] = k0 * P[v] - H[v] /\ f[v] = G[v] - W[v]
  OBVIOUS
<1>8. ASSUME NEW v \in A
      PROVE  v \in Scalar /\ KeyPart(k0, cs, m, v, m, Weighted(full, F1s(idx, av, m, v), v, m))
  <2>1. v \in Scalar /\ VerdictOf(rg, idx, av, ms, k0, v, theirs) = "ok"
    BY DEF Accepted
  <2>2. KeyPart(k0, cs, m, v, RingLog(theirs), Total(F1s(idx, av, m, v), v, RingLog(theirs), full))
    BY <1>1, <2>1, VerdictMeans
  <2>3. RingLog(theirs) = m
    OBVIOUS
  <2> HIDE DEF m, cs, full, A
  <2> QED BY <2>1, <2>2, <2>3, TotalIsWeighted
<1> HIDE DEF P, H, W, G, f, A, cs, full, m, d, kt
<1>9. ASSUME NEW v \in Scalar
      PROVE  v \in Int /\ P[v] \in Int /\ H[v] \in Int /\ W[v] \in Int
  <2>1. v \in Int
    BY ScalarsAreInts
  <2>2. Pow(v, m) \in Int
    BY <1>1, <2>1, PowFacts
  <2>3. Horner(cs, m, v) \in Int
    BY <1>1, <1>6, <2>1, CommittedSum
  <2> DEFINE fi == F1s(idx, av, m, v)
  <2>4. Ints(fi, m)
    BY <1>1, <1>3, <1>5, <2>1, AnswersInts
  <2>5. W[v] = Weighted(full, fi, v, m)
    BY <1>7
  <2> HIDE DEF fi
  <2>6. W[v] \in Int
    BY <1>1, <1>3, <2>1, <2>4, <2>5, WeightedInts
  <2> QED BY <1>7, <2>1, <2>2, <2>3, <2>6
<1>10. A \subseteq Roots(f)
  <2> SUFFICES ASSUME NEW v \in A PROVE v \in Scalar /\ f[v] \in Multiples
    BY DEF Roots
  <2>1. v \in Scalar
    BY <1>8
  <2> DEFINE px == P[v]
             py == H[v]
             z == W[v]
  <2>2. KeyPart(k0, cs, m, v, m, z)
    BY <1>7, <1>8, <2>1
  <2>3. Pow(v, m) = px /\ Horner(cs, m, v) = py
    BY <1>7, <2>1
  <2>4. f[v] = (k0 * px - py) - z
    BY <1>7, <2>1
  <2>5. px \in Int /\ py \in Int /\ z \in Int
    BY <1>9, <2>1
  <2> HIDE DEF px, py, z
  <2>6. (px * k0 + -py) + -z \in Multiples
    BY <2>2, <2>3 DEF KeyPart
  <2>7. (px * k0 + -py) + -z = (k0 * px - py) - z
    BY <1>4, <2>5
  <2> QED BY <2>1, <2>4, <2>6, <2>7
<1>11. IsPoly(P, m, 1)
  BY <1>1, <1>7, PowIsPoly
<1>12. IsPoly(H, m, 0)
  <2>1. cs \in [0 .. d -> Int]
    BY <1>2, <1>6, ScalarsAreInts
  <2>2. \A v \in Scalar : H[v] = Horner(cs, d + 1, v)
    BY <1>2, <1>7
  <2>3. IsPoly(H, d, cs[d])
    BY <1>2, <2>1, <2>2, HornerIsPoly
  <2>4. IsPoly(H, d + 1, 0)
    BY <1>2, <2>3, Raised
  <2> QED BY <1>2, <2>4
<1>13. IsPoly(W, m, kt)
  BY <1>1, <1>3, <1>5, <1>7, WeightedPoly DEF kt
<1> DEFINE no == -1
<1>14. no \in Int /\ 1 \in Int /\ 0 \in Int
  OBVIOUS
<1>15. ASSUME NEW v \in Scalar
       PROVE  /\ G[v] \in Int /\ Mixed(G[v], k0, P[v], no, H[v])
              /\ f[v] \in Int /\ Mixed(f[v], 1, G[v], no, W[v])
  <2> DEFINE px == P[v]
             py == H[v]
             z == W[v]
             g == k0 * px - py
             q == g - z
  <2>1. px \in Int /\ py \in Int /\ z \in Int
    BY <1>9
  <2>2. G[v] = g /\ f[v] = q
    BY <1>7
  <2> HIDE DEF px, py, z
  <2>3. g \in Int /\ k0 * px + no * py = g
    BY <1>4, <2>1
  <2> HIDE DEF g
  <2>4. q \in Int /\ 1 * g + no * z = q
    BY <2>1, <2>3
  <2> HIDE DEF q
  <2>5. g - g \in Multiples /\ q - q \in Multiples
    BY <2>3, <2>4, DifferOnce
  <2>6. Mixed(g, k0, px, no, py)
    BY <2>3, <2>5 DEF Mixed
  <2>7. Mixed(q, 1, g, no, z)
    BY <2>4, <2>5 DEF Mixed
  <2> QED BY <2>2, <2>3, <2>4, <2>6, <2>7 DEF px, py, z
<1> HIDE DEF no
<1> DEFINE l1 == k0 * 1 + no * 0
           l2 == 1 * l1 + no * kt
<1>16. IsPoly(G, m, l1)
  BY <1>1, <1>4, <1>11, <1>12, <1>14, <1>15, IsCombination
<1>17. l1 \in Int
  BY <1>4, <1>14
<1> HIDE DEF l1
<1>18. IsPoly(f, m, l2)
  BY <1>1, <1>3, <1>13, <1>14, <1>15, <1>16, <1>17, IsCombination
<1>19. l2 = k0 - kt
  BY <1>3, <1>4 DEF l1, no
<1>20. k0 - kt \notin Multiples
  BY <1>3, <1>4, ScalarsSame
<1> HIDE DEF l2
<1>21. l2 \notin Multiples
  BY <1>19, <1>20
<1>22. Cardinality(A) <= m
  BY <1>1, <1>10, <1>18, <1>21, FewRoots
<1> QED BY <1>22 DEF A, m

-----------------------------------------------------------------------------
(* membership as a state machine. *)

\* What construct publishes is what it computes from the prover's arguments, which
\* it does not change afterwards.
Constructed ==
  /\ index \in DOMAIN keyRing /\ RingLog(keyRing) > 0 /\ a \in [Bits(keyRing) -> Scalar]
  /\ commitments = Commitments(keyRing, index, a, masks)

\* The strengthened invariant of Membership.
MemberIInv ==
  /\ keyRing \in KeyRings /\ theirKeyRing \in TheirRings /\ key \in Keys /\ masks \in KeyMasks
  /\ hashed \in Scalar /\ index \in 0 .. MaxMembers
  /\ stage \in {"start", "committed", "proved", "verified", "end"}
  /\ answer \in {"none", "ok", "err", "panic"}
  /\ stage \in {"committed", "proved", "verified"} => Constructed
  /\ stage = "verified" => answer = Verdict(hashed, theirKeyRing)

\* Answers are what VerdictOf says.
LEMMA VerdictIs ==
  ASSUME Constructed, NEW c, NEW rg
  PROVE  Verdict(c, rg) = VerdictOf(keyRing, index, a, masks, key, c, rg)
BY DEF Constructed, Verdict, VerdictOf

LEMMA VerdictType ==
  ASSUME NEW c, NEW rg
  PROVE  Verdict(c, rg) \in {"ok", "err", "panic"}
BY DEF Verdict, Answer

\* The invariant holds initially and every step keeps it.
LEMMA MemberInitInv ==
  ASSUME MemberInit
  PROVE  MemberIInv
<1>1. MaxMembers \in Nat
  BY MaxMembersAssumption, OrderFacts
<1> QED BY <1>1, OrderFacts DEF MemberInit, MemberIInv, TheirRings

LEMMA MemberStepInv ==
  ASSUME MemberIInv, [MemberNext]_memberVars
  PROVE  MemberIInv'
<1>1. ASSUME NEW idx \in 0 .. MaxMembers, NEW av \in [Bits(keyRing) -> Scalar], ConstructMembership(idx, av)
      PROVE  MemberIInv'
  <2>1. /\ keyRing' = keyRing /\ key' = key /\ masks' = masks /\ hashed' = hashed
        /\ theirKeyRing' = theirKeyRing /\ index' = idx /\ a' = av
    BY <1>1 DEF ConstructMembership
  <2>2. CASE idx \notin DOMAIN keyRing
    <3>1. answer' = "err" /\ stage' = "end"
      BY <1>1, <2>2 DEF ConstructMembership
    <3> QED BY <2>1, <3>1 DEF MemberIInv
  <2>3. CASE idx \in DOMAIN keyRing /\ RingLog(keyRing) = 0
    <3>1. answer' = "panic" /\ stage' = "end"
      BY <1>1, <2>3 DEF ConstructMembership
    <3> QED BY <2>1, <3>1 DEF MemberIInv
  <2>4. CASE idx \in DOMAIN keyRing /\ RingLog(keyRing) # 0
    <3>1. answer' = answer /\ stage' = "committed" /\ commitments' = Commitments(keyRing, idx, av, masks)
      BY <1>1, <2>4 DEF ConstructMembership
    <3>2. RingLog(keyRing) > 0
      <4>1. RingLog(keyRing) \in Nat
        BY PaddedFacts DEF MemberIInv
      <4> QED BY <2>4, <4>1
    <3>3. Constructed'
      BY <2>1, <2>4, <3>1, <3>2 DEF Constructed
    <3> QED BY <2>1, <3>1, <3>3 DEF MemberIInv
  <2> QED BY <2>2, <2>3, <2>4
<1>2. ASSUME NEW c \in Scalar, HashMembership(c)
      PROVE  MemberIInv'
  BY <1>2 DEF HashMembership, MemberIInv, Constructed
<1>3. ASSUME NEW rg \in TheirRings, ChangeKeyRing(rg)
      PROVE  MemberIInv'
  BY <1>3 DEF ChangeKeyRing, MemberIInv, Constructed
<1>4. ASSUME VerifyMembership
      PROVE  MemberIInv'
  <2>1. /\ stage = "proved" /\ stage' = "verified" /\ answer' = Verdict(hashed, theirKeyRing)
        /\ UNCHANGED <<keyRing, index, key, a, masks, commitments, hashed, theirKeyRing>>
    BY <1>4 DEF VerifyMembership
  <2>2. Constructed'
    BY <2>1 DEF MemberIInv, Constructed
  <2>3. answer' = Verdict(hashed, theirKeyRing)'
    BY <2>1 DEF Verdict
  <2>4. answer' \in {"none", "ok", "err", "panic"}
    BY <2>1, VerdictType
  <2> QED BY <2>1, <2>2, <2>3, <2>4 DEF MemberIInv
<1>5. CASE UNCHANGED memberVars
  <2>1. Verdict(hashed, theirKeyRing)' = Verdict(hashed, theirKeyRing)
    BY <1>5 DEF memberVars, Verdict
  <2> QED BY <1>5, <2>1 DEF memberVars, MemberIInv, Constructed
<1> QED BY <1>1, <1>2, <1>3, <1>4, <1>5 DEF MemberNext

LEMMA MemberInv == MemberSpec => []MemberIInv
<1>1. MemberInit => MemberIInv
  BY MemberInitInv
<1>2. MemberIInv /\ [MemberNext]_memberVars => MemberIInv'
  BY MemberStepInv
<1> QED BY <1>1, <1>2, PTL DEF MemberSpec

LEMMA CommitmentType ==
  ASSUME NEW u \in Int, NEW v \in Int
  PROVE  CommitWith(u, v) \in Scalar \X Scalar
BY OrderFacts DEF CommitWith

LEMMA ConstructedType ==
  ASSUME MemberIInv, Constructed
  PROVE  \A v \in {commitments.cl, commitments.ca, commitments.cb, commitments.cd} :
           v \in [Bits(keyRing) -> Scalar \X Scalar]
<1> DEFINE m == RingLog(keyRing)
           cs == Coefficients(keyRing, index, a)
<1>1. m \in Nat /\ m <= MaxMembers /\ Bits(keyRing) = 0 .. m - 1 /\ masks \in KeyMasks /\ index \in Nat
  <2>1. MaxMembers \in Nat
    BY MaxMembersAssumption, OrderFacts
  <2> QED BY <2>1, PaddedFacts DEF MemberIInv
<1>2. \A j \in 0 .. m - 1 : a[j] \in Int
  BY <1>1, ScalarsAreInts DEF Constructed
<1>3. Ints(cs, m)
  <2>1. Ints(a, m)
    BY <1>2 DEF Ints
  <2> QED BY <2>1, CoefficientsType DEF MemberIInv, Constructed
<1>4. Ints(masks.rho, m) /\ \A j \in 0 .. m - 1 : masks.r[j] \in Int /\ masks.s[j] \in Int /\ masks.t[j] \in Int
  <2> HIDE DEF m
  <2> QED BY <1>1, MaskFacts, ScalarsAreInts
<1>5. /\ commitments.cl = [j \in 0 .. m - 1 |-> CommitWith(Bit(index, j), masks.r[j])]
      /\ commitments.ca = [j \in 0 .. m - 1 |-> CommitWith(a[j], masks.s[j])]
      /\ commitments.cb = [j \in 0 .. m - 1 |-> CommitWith(Bit(index, j) * a[j], masks.t[j])]
      /\ commitments.cd = [j \in 0 .. m - 1 |-> CommitWith(cs[j], masks.rho[j])]
  BY <1>1 DEF Constructed, Commitments
<1> HIDE DEF m, cs
<1>6. ASSUME NEW j \in 0 .. m - 1
      PROVE  /\ CommitWith(Bit(index, j), masks.r[j]) \in Scalar \X Scalar
             /\ CommitWith(a[j], masks.s[j]) \in Scalar \X Scalar
             /\ CommitWith(Bit(index, j) * a[j], masks.t[j]) \in Scalar \X Scalar
             /\ CommitWith(cs[j], masks.rho[j]) \in Scalar \X Scalar
  <2> DEFINE l == Bit(index, j)
             aj == a[j]
             la == l * aj
  <2>1. l \in {0, 1}
    BY <1>1, BitFacts
  <2>2. aj \in Int /\ masks.r[j] \in Int /\ masks.s[j] \in Int /\ masks.t[j] \in Int
    BY <1>2, <1>4
  <2>3. cs[j] \in Int /\ masks.rho[j] \in Int
    BY <1>3, <1>4 DEF Ints
  <2> HIDE DEF l, aj
  <2>4. l \in Int /\ la \in Int
    BY <2>1, <2>2
  <2> HIDE DEF la
  <2>5. CommitWith(la, masks.t[j]) \in Scalar \X Scalar
    BY <2>2, <2>4, CommitmentType
  <2>6. CommitWith(l, masks.r[j]) \in Scalar \X Scalar /\ CommitWith(aj, masks.s[j]) \in Scalar \X Scalar
    BY <2>2, <2>4, CommitmentType
  <2>7. CommitWith(cs[j], masks.rho[j]) \in Scalar \X Scalar
    BY <2>3, CommitmentType
  <2> QED BY <2>5, <2>6, <2>7 DEF la, l, aj
<1>7. /\ commitments.cl \in [0 .. m - 1 -> Scalar \X Scalar] /\ commitments.ca \in [0 .. m - 1 -> Scalar \X Scalar]
      /\ commitments.cb \in [0 .. m - 1 -> Scalar \X Scalar] /\ commitments.cd \in [0 .. m - 1 -> Scalar \X Scalar]
  BY <1>5, <1>6
<1> QED BY <1>1, <1>7

LEMMA HonestFromInv ==
  ASSUME MemberIInv
  PROVE  HonestMembersVerify
<1> SUFFICES ASSUME stage = "verified", key = keyRing[index], theirKeyRing = keyRing, NoZeroFactor
             PROVE  answer = "ok"
  BY DEF HonestMembersVerify
<1>1. Constructed /\ answer = Verdict(hashed, keyRing) /\ keyRing \in KeyRings /\ masks \in KeyMasks /\ hashed \in Scalar
  BY DEF MemberIInv
<1>2. answer = VerdictOf(keyRing, index, a, masks, keyRing[index], hashed, keyRing)
  BY <1>1, VerdictIs
<1>3. \A v \in Bits(keyRing) : NotZeroAt(index, a, RingLog(keyRing), v)
  BY DEF NoZeroFactor, NotZeroAt, Bits
<1>4. index \in DOMAIN keyRing /\ RingLog(keyRing) > 0 /\ a \in [Bits(keyRing) -> Scalar]
  BY <1>1 DEF Constructed
<1> QED BY <1>1, <1>2, <1>3, <1>4, HonestVerdict

LEMMA RefusedFromInv ==
  ASSUME MemberIInv
  PROVE  OtherRingsRefused
<1> SUFFICES ASSUME stage = "committed", NEW rg \in TheirRings,
                    ~(rg # EmptyRing /\ RingLog(rg) = RingLog(keyRing) /\ PaddedRing(rg)[index] = key),
                    ~(rg # EmptyRing /\ RingLog(rg) < RingLog(keyRing) /\ masks.key = 0)
             PROVE  Cardinality({c \in Scalar : Verdict(c, rg) = "ok"}) <= RingLog(keyRing)
  BY DEF OtherRingsRefused
<1>1. Constructed /\ keyRing \in KeyRings /\ masks \in KeyMasks /\ key \in Scalar
  BY KeysAssumption DEF MemberIInv
<1>2. {c \in Scalar : Verdict(c, rg) = "ok"} = Accepted(keyRing, index, a, masks, key, rg)
  BY <1>1, VerdictIs DEF Accepted
<1>3. index \in DOMAIN keyRing /\ RingLog(keyRing) > 0 /\ a \in [Bits(keyRing) -> Scalar]
  BY <1>1 DEF Constructed
<1>4. CASE rg = EmptyRing
  BY <1>1, <1>2, <1>4, EmptyRefused
<1>5. CASE rg # EmptyRing
  <2>1. rg \in KeyRings
    BY <1>5 DEF TheirRings
  <2>2. RingLog(rg) \in Nat /\ RingLog(keyRing) \in Nat
    BY <1>1, <2>1, PaddedFacts
  <2>3. CASE RingLog(rg) > RingLog(keyRing)
    BY <1>1, <1>2, <2>1, <2>3, LongerRefused
  <2>4. CASE RingLog(rg) < RingLog(keyRing)
    BY <1>1, <1>2, <1>3, <1>5, <2>1, <2>4, ShorterRefused
  <2>5. CASE RingLog(rg) = RingLog(keyRing)
    BY <1>1, <1>2, <1>3, <1>5, <2>1, <2>5, SameLengthRefused
  <2> QED BY <2>2, <2>3, <2>4, <2>5
<1> QED BY <1>4, <1>5

\* A member's proof verifies against the ring it was made for, for any prime order,
\* ring, position, masks and hash, unless one of the factors construct divides by
\* is zero (membership.rs:27-130, 162-231).
THEOREM MembersAreProved == MemberSpec => []MembersProve
<1>1. MemberIInv => MembersProve
  <2> SUFFICES ASSUME MemberIInv PROVE MembersProve
    OBVIOUS
  <2>1. stage \in {"committed", "proved", "verified"} =>
          \A v \in {commitments.cl, commitments.ca, commitments.cb, commitments.cd} :
            v \in [Bits(keyRing) -> Scalar \X Scalar]
    BY ConstructedType DEF MemberIInv
  <2>2. MemberTypeOK
    BY <2>1 DEF MemberIInv, MemberTypeOK
  <2> QED BY <2>2, HonestFromInv DEF MembersProve
<1> QED BY <1>1, MemberInv, PTL

\* With a ring that has another key at the position, or another padded length, at
\* most log2(ring.len()) of all hashes let verify accept, but for a shorter ring
\* and a commitment to the key without a mask (membership.rs:162-231).
THEOREM OtherRingsAreRefused == MemberSpec => []OtherRingsRefused
<1>1. MemberIInv => OtherRingsRefused
  BY RefusedFromInv
<1> QED BY <1>1, MemberInv, PTL

=============================================================================

------------------------------ MODULE TomProofs ------------------------------
(***************************************************************************)
(* For every curve of the kind CurveGroup describes, whatever the bounds:  *)
(* what an attestation (ZkAttest) that verifies shows, and that honest     *)
(* ones verify, for every set of keys, guilds and hashes; that the proofs  *)
(* tom256 makes of commitments (CommitmentProofs) and of an exponent       *)
(* (ExpProof) verify where they are honest, and what one that verifies     *)
(* shows.                                                                  *)
(***************************************************************************)
EXTENDS ZkAttest, ExpProof, CommitmentProofs, NatTheorems

AttestAssumption == OrderIsPrime /\ MembersAssumption /\ GuildAssumption /\ RingAssumption

-----------------------------------------------------------------------------
(* The curve: all that is used of it is that its points have coordinates. *)

Group == (Field \X Field) \cup {Infinity}

LEMMA PrimeFacts == Prime \in Nat \ {0} /\ Prime > 3 /\ NoDivisor(Prime)
BY PrimeAssumption DEF NoDivisor

LEMMA InverseType == \A a \in Field : Inverse(a) \in Field
<1> SUFFICES ASSUME NEW a \in Field PROVE Inverse(a) \in Field
  OBVIOUS
<1>1. Prime \in Nat \ {0} /\ Prime > 3
  BY PrimeFacts
<1>2. CASE a = 0
  BY <1>1, <1>2 DEF Inverse, Field
<1>3. CASE a # 0
  <2>1. a \in 1 .. Prime - 1
    BY <1>1, <1>3 DEF Field
  <2>2. PICK b \in Int : Same(Prime, b * a, 1)
    BY <2>1, PrimeFacts, PrimeInverse
  <2> DEFINE c == b % Prime
             o == 1
  <2>3. c \in Field
    BY <1>1, ModRange DEF Field
  <2>4. Same(Prime, c, b)
    BY <1>1, SameRefl
  <2> HIDE DEF c
  <2>5. c \in Int /\ a \in Int
    BY <1>1, <2>1, <2>3 DEF Field
  <2>6. Same(Prime, c * a, b * a)
    BY <1>1, <2>4, <2>5, SameTimes
  <2>7. o \in 0 .. Prime - 1 /\ o = 1
    BY <1>1
  <2>8. 1 % Prime = 1
    <3> HIDE DEF o
    <3>1. o % Prime = o
      BY <1>1, <2>7, ModSmall
    <3> QED BY <2>7, <3>1
  <2>9. (c * a) % Prime = 1
    BY <2>2, <2>6, <2>8 DEF Same
  <2>10. a * c = c * a
    BY <2>5
  <2>11. \E d \in Field : (a * d) % Prime = 1
    BY <2>3, <2>9, <2>10
  <2> QED BY <1>3, <2>11 DEF Inverse
<1> QED BY <1>2, <1>3

LEMMA FieldMod == \A a \in Int : a % Prime \in Field
BY PrimeFacts, ModRange DEF Field

LEMMA ChordTangentType == \A p, g \in Group : ChordTangent(p, g) \in Group
<1> SUFFICES ASSUME NEW p \in Group, NEW g \in Group PROVE ChordTangent(p, g) \in Group
  OBVIOUS
<1>1. CASE p = Infinity \/ g = Infinity
  BY <1>1 DEF ChordTangent, Group
<1>2. CASE p # Infinity /\ g # Infinity
  <2>1. p[1] \in Int /\ p[2] \in Int /\ g[1] \in Int /\ g[2] \in Int
    BY <1>2 DEF Group, Field
  <2>2. Field \subseteq Int /\ CoeffA \in Int
    BY PrimeFacts, CoeffAssumption DEF Field
  <2> DEFINE u == 3 * p[1] * p[1] + CoeffA
             v == 2 * p[2]
             s == p[2] - g[2]
             t == p[1] - g[1]
  <2>3. u \in Int /\ v \in Int /\ s \in Int /\ t \in Int
    BY <2>1, <2>2
  <2> HIDE DEF u, v, s, t
  <2> DEFINE i == Inverse(v % Prime)
             j == Inverse(t % Prime)
  <2>4. i \in Int /\ j \in Int
    BY <2>2, <2>3, FieldMod, InverseType
  <2> HIDE DEF i, j
  <2> DEFINE k == u * i
             l == s * j
  <2>5. k \in Int /\ l \in Int
    BY <2>3, <2>4
  <2> HIDE DEF k, l
  <2> DEFINE slope == IF p = g THEN k % Prime ELSE l % Prime
  <2>6. slope \in Int
    BY <2>2, <2>5, FieldMod
  <2> HIDE DEF slope
  <2> DEFINE a == slope * slope - p[1] - g[1]
  <2>7. a \in Int
    BY <2>1, <2>6
  <2> HIDE DEF a
  <2> DEFINE x == a % Prime
  <2>8. x \in Field /\ x \in Int
    BY <2>2, <2>7, FieldMod
  <2> HIDE DEF x
  <2> DEFINE b == slope * (p[1] - x) - p[2]
  <2>9. b \in Int
    BY <2>1, <2>6, <2>8
  <2> HIDE DEF b
  <2>10. b % Prime \in Field
    BY <2>9, FieldMod
  <2>11. ChordTangent(p, g) \in {Infinity, <<x, b % Prime>>}
    BY <1>2 DEF ChordTangent, x, slope, a, b, k, l, i, j, u, v, s, t
  <2> QED BY <2>8, <2>10, <2>11 DEF Group
<1> QED BY <1>1, <1>2

LEMMA MultipleType == Multiple[0] = Infinity /\ \A k \in Nat : Multiple[k] \in Group
<1> DEFINE S == Group
           c == Infinity
           G == [n \in Nat |-> [v \in S |-> ChordTangent(v, Generator)]]
<1>1. c \in S /\ Generator \in S
  BY GeneratorAssumption DEF Group
<1>2. \A n \in Nat, v \in S : G[n][v] = ChordTangent(v, Generator) /\ G[n][v] \in S
  BY <1>1, ChordTangentType
<1> HIDE DEF S, c, G
<1>3. PICK s : s = [n \in Nat |-> s[n]] /\ Follows(s, c, G)
  BY FreeRecursion, Zenon
<1>4. ASSUME NEW n \in Nat PROVE s[n] \in S
  <2>1. Stays(S, G, n)
    BY <1>2 DEF Stays
  <2>2. Within(S, s, n)
    BY <1>1, <1>3, <2>1, FollowsType, Zenon
  <2> QED BY <2>2 DEF Within
<1>5. s[0] = c /\ \A n \in Nat : s[n + 1] = ChordTangent(s[n], Generator)
  BY <1>2, <1>3, <1>4 DEF Follows
<1>6. s = [k \in Nat |-> IF k = 0 THEN Infinity ELSE ChordTangent(s[k - 1], Generator)]
  <2>1. ASSUME NEW k \in Nat \ {0} PROVE s[k] = ChordTangent(s[k - 1], Generator)
    <3>1. k - 1 \in Nat /\ (k - 1) + 1 = k
      OBVIOUS
    <3>2. s[(k - 1) + 1] = ChordTangent(s[k - 1], Generator)
      BY <1>5, <3>1
    <3> QED BY <3>1, <3>2
  <2> QED BY <1>3, <1>5, <2>1 DEF c
<1>7. Multiple = [k \in Nat |-> IF k = 0 THEN Infinity ELSE ChordTangent(Multiple[k - 1], Generator)]
  BY <1>6 DEF Multiple
<1> DEFINE m == Multiple
<1> HIDE DEF m
<1>8. m = [k \in Nat |-> IF k = 0 THEN Infinity ELSE ChordTangent(m[k - 1], Generator)]
  BY <1>7 DEF m
<1>9. m[0] = c /\ \A n \in Nat : m[n + 1] = G[n + 1][m[n]] \/ m[n] \notin S
  BY <1>2, <1>8 DEF c
<1> DEFINE T == {n \in Nat : m[n] \in S}
<1>10. 0 \in T
  BY <1>1, <1>9
<1>11. \A n \in T : n + 1 \in T
  BY <1>2, <1>9
<1>12. T = Nat
  <2> HIDE DEF T
  <2>1. T \in SUBSET Nat
    BY DEF T
  <2> QED BY <1>10, <1>11, <2>1, NatSetInduction
<1> QED BY <1>9, <1>12 DEF m, S, c

LEMMA XOfType == \A k \in Nat : XOf(k) \in Nat
<1> SUFFICES ASSUME NEW k \in Nat PROVE XOf(k) \in Nat
  OBVIOUS
<1>1. Prime \in Nat \ {0} /\ Prime > 3
  BY PrimeFacts
<1>2. 0 \in Field /\ 1 \in Field /\ Field \subseteq Nat /\ Field \subseteq Int
  BY <1>1 DEF Field
<1>3. PointOf(k).x \in Field /\ PointOf(k).z \in {0, 1}
  BY <1>2, MultipleType DEF PointOf, IDENTITY, Group
<1>4. Inverse(PointOf(k).z) \in Field
  BY <1>2, <1>3, InverseType
<1> DEFINE x == PointOf(k).x
           w == Inverse(PointOf(k).z)
<1>5. XOf(k) = (x * w) % Prime
  BY DEF XOf, ToAffine
<1> HIDE DEF x, w
<1>6. x \in Int /\ w \in Int
  BY <1>2, <1>3, <1>4 DEF x, w
<1>7. x * w \in Int
  BY <1>6
<1> QED BY <1>2, <1>5, <1>7, FieldMod

-----------------------------------------------------------------------------
(* The scalars. *)

LEMMA OrderFacts ==
  ASSUME AttestAssumption
  PROVE  /\ Order \in Nat \ {0} /\ NoDivisor(Order)
         /\ Scalar = 0 .. Order - 1 /\ NonZero = 1 .. Order - 1
         /\ Scalar \subseteq Int /\ Scalar \subseteq Nat /\ NonZero = Scalar \ {0} /\ 0 \in Scalar
<1>1. Order \in Nat \ {0}
  <2>1. Order \in Nat /\ Order % 2 = 1
    BY GeneratorAssumption
  <2>2. Order # 0
    <3> SUFFICES ASSUME Order = 0 PROVE FALSE
      OBVIOUS
    <3>1. 0 % 2 = 0
      OBVIOUS
    <3> QED BY <2>1, <3>1
  <2> QED BY <2>1, <2>2
<1>2. NoDivisor(Order)
  BY DEF AttestAssumption, OrderIsPrime, NoDivisor
<1> QED BY <1>1, <1>2 DEF Scalar, NonZero

\* A scalar is its own residue.
LEMMA ScalarResidue ==
  ASSUME AttestAssumption, NEW a \in Scalar
  PROVE  a % Order = a
<1>1. Order \in Nat \ {0} /\ a \in 0 .. Order - 1
  BY OrderFacts
<1> QED BY <1>1, ModSmall

LEMMA ScalarMod ==
  ASSUME AttestAssumption, NEW a \in Int
  PROVE  a % Order \in Scalar /\ Same(Order, a % Order, a)
BY OrderFacts, ModRange, SameRefl

LEMMA SameScalar ==
  ASSUME AttestAssumption, NEW a \in Scalar, NEW b \in Scalar, Same(Order, a, b)
  PROVE  a = b
BY ScalarResidue DEF Same

\* What a division returns.
LEMMA DivFacts ==
  ASSUME AttestAssumption, NEW x \in Scalar, NEW y \in Scalar
  PROVE  /\ Div(x, y) \in Scalar
         /\ y = 0 => Div(x, y) = 0
         /\ y # 0 => Same(Order, Div(x, y) * y, x)
<1>1. CASE y = 0
  BY <1>1, OrderFacts DEF Div
<1>2. CASE y # 0
  <2>1. Order \in Nat \ {0} /\ NoDivisor(Order) /\ y \in 1 .. Order - 1 /\ x \in Int /\ y \in Int
    BY <1>2, OrderFacts
  <2>2. PICK b \in Int : Same(Order, b * y, 1)
    BY <2>1, PrimeInverse
  <2> DEFINE c == b * x
             v == c % Order
             o == 1
             u == b * y
  <2>3. c \in Int /\ u \in Int /\ o \in Int /\ Same(Order, u, o)
    BY <2>1, <2>2
  <2>4. c * y = u * x /\ o * x = x
    BY <2>1
  <2> HIDE DEF c, u, o
  <2>5. v \in Scalar /\ Same(Order, v, c)
    BY <2>3, ScalarMod
  <2>6. v \in Int
    BY <2>5, OrderFacts
  <2> HIDE DEF v
  <2>7. Same(Order, v * y, c * y)
    BY <2>1, <2>3, <2>5, <2>6, SameTimes
  <2>8. Same(Order, u * x, o * x)
    BY <2>1, <2>3, SameTimes
  <2>9. Same(Order, v * y, x)
    BY <2>4, <2>7, <2>8 DEF Same
  <2>10. \E w \in Scalar : (w * y) % Order = x % Order
    BY <2>5, <2>9 DEF Same
  <2> QED BY <1>2, <2>10 DEF Div, Same
<1> QED BY <1>1, <1>2

\* A scalar that is not zero can be taken off.
LEMMA CancelScalar ==
  ASSUME AttestAssumption, NEW a \in Scalar, a # 0, NEW x \in Scalar, NEW y \in Scalar,
         Same(Order, x * a, y * a)
  PROVE  x = y
<1>1. Order \in Nat \ {0} /\ NoDivisor(Order) /\ a \in 1 .. Order - 1 /\ x \in Int /\ y \in Int
  BY OrderFacts
<1>2. Same(Order, x, y)
  BY <1>1, PrimeCancel
<1> QED BY <1>2, SameScalar

LEMMA RScalarType ==
  ASSUME AttestAssumption, NEW p \in Scalar
  PROVE  RScalar(p) \in Scalar
<1>1. XOf(p) \in Int
  BY XOfType, OrderFacts
<1> QED BY <1>1, ScalarMod DEF RScalar

-----------------------------------------------------------------------------
(* The signature equation. *)

\* The point that construct makes out of a hash, a key and a signature.
SignaturePoint(z, k, r, s) == (Div(z, s) + U2(r, s) * k) % Order

LEMMA PointFacts ==
  ASSUME AttestAssumption, NEW z \in Scalar, NEW k \in NonZero, NEW r \in Scalar, NEW s \in Scalar
  PROVE  /\ SignaturePoint(z, k, r, s) \in Scalar
         /\ s = 0 => SignaturePoint(z, k, r, s) = 0
         /\ s # 0 => Same(Order, s * SignaturePoint(z, k, r, s), z + r * k)
<1>1. Order \in Nat \ {0} /\ z \in Int /\ k \in Int /\ r \in Int /\ s \in Int
  BY OrderFacts
<1> DEFINE u1 == Div(z, s)
           u2 == Div(r, s)
           m == u2 * k
           n == u1 + m
           p == n % Order
<1>2. u1 \in Int /\ u2 \in Int
  BY DivFacts, OrderFacts
<1>3. s = 0 => u1 = 0 /\ u2 = 0
  BY DivFacts
<1>4. s # 0 => Same(Order, u1 * s, z) /\ Same(Order, u2 * s, r)
  BY DivFacts
<1> HIDE DEF u1, u2
<1>5. m \in Int /\ n \in Int
  BY <1>1, <1>2
<1>6. p \in Scalar /\ Same(Order, p, n)
  <2> HIDE DEF n
  <2> QED BY <1>5, ScalarMod
<1>7. s = 0 => p = 0
  <2> SUFFICES ASSUME s = 0 PROVE p = 0
    OBVIOUS
  <2>1. n = 0
    BY <1>1, <1>3
  <2> HIDE DEF n
  <2> QED BY <2>1, OrderFacts, ScalarResidue
<1>8. s # 0 => Same(Order, s * p, z + r * k)
  <2> SUFFICES ASSUME s # 0 PROVE Same(Order, s * p, z + r * k)
    OBVIOUS
  <2> DEFINE a == u1 * s
             b == u2 * s
             c == r * k
             d == b * k
  <2>1. a \in Int /\ b \in Int /\ c \in Int /\ d \in Int
    BY <1>1, <1>2
  <2>2. n * s = a + d
    <3>1. m * s = d
      BY <1>1, <1>2
    <3>2. n * s = a + m * s
      BY <1>1, <1>2, <1>5
    <3> QED BY <3>1, <3>2
  <2>3. Same(Order, a, z) /\ Same(Order, b, r)
    BY <1>4
  <2> HIDE DEF a, b, n, p
  <2>4. Same(Order, d, c)
    BY <1>1, <2>1, <2>3, SameTimes
  <2> HIDE DEF c, d
  <2>5. Same(Order, a + d, z + c)
    BY <1>1, <2>1, <2>3, <2>4, SamePlus
  <2>6. p \in Int
    BY <1>6, OrderFacts
  <2>7. Same(Order, p * s, n * s)
    BY <1>1, <1>5, <1>6, <2>6, SameTimes
  <2>8. p * s = s * p
    BY <1>1, <2>6
  <2> QED BY <2>2, <2>5, <2>7, <2>8 DEF Same, c
<1>9. SignaturePoint(z, k, r, s) = p
  BY DEF SignaturePoint, U2, u1, u2
<1> QED BY <1>6, <1>7, <1>8, <1>9

\* What the exponentiation proof shows of what construct put in.
Accepted(z, k, r, s) ==
  LET p == SignaturePoint(z, k, r, s)
  IN  ExpAccepts(p, Div(s, r), k, Z1(r, z), Z1(RScalar(p), z))

\* The signature equation holds of the scalars that are compared.
Equation(z, k, r, s) ==
  LET p == SignaturePoint(z, k, r, s)
  IN  p # 0 /\ Same(Order, Div(s, r) * p, k + Div(z, r)) /\ Div(z, r) = Div(z, RScalar(p))

LEMMA AcceptedEquation == \A z, k, r, s : Accepted(z, k, r, s) <=> Equation(z, k, r, s)
BY DEF Accepted, Equation, ExpAccepts, Z1, Same

\* Of a hash that is not zero, only a valid signature is accepted: the two q are
\* equal only if r is the x coordinate of the point.
LEMMA OnlyValidAccepted ==
  ASSUME AttestAssumption, NEW z \in Scalar, NEW k \in NonZero, NEW r \in Scalar, NEW s \in Scalar,
         Equation(z, k, r, s), z # 0
  PROVE  ValidSignature(z, k, r, s)
<1> DEFINE p == SignaturePoint(z, k, r, s)
           w == RScalar(p)
<1>1. p \in Scalar /\ p # 0 /\ s # 0 /\ Same(Order, s * p, z + r * k)
  BY PointFacts DEF Equation
<1>2. w \in Scalar
  BY <1>1, RScalarType
<1>3. Div(z, r) = Div(z, w) /\ Same(Order, Div(s, r) * p, k + Div(z, r))
  BY DEF Equation
<1> HIDE DEF p, w
<1>4. Order \in Nat \ {0} /\ z \in Int /\ k \in Int /\ k \in Scalar /\ k # 0 /\ r \in Int /\ w \in Int /\ p \in Int
      /\ 0 \in Scalar
  BY <1>1, <1>2, OrderFacts
<1>5. r # 0
  <2> SUFFICES ASSUME r = 0 PROVE FALSE
    OBVIOUS
  <2>1. Div(z, r) = 0 /\ Div(s, r) = 0
    BY DivFacts
  <2>2. 0 * p = 0 /\ k + 0 = k
    BY <1>4
  <2>3. Same(Order, 0, k)
    BY <1>3, <2>1, <2>2
  <2> QED BY <1>4, <2>3, SameScalar
<1>6. Same(Order, Div(z, r) * r, z)
  BY <1>5, DivFacts
<1> DEFINE v == Div(z, r)
<1>7. v \in Scalar /\ v \in Int
  BY DivFacts, OrderFacts
<1>8. v # 0
  <2> SUFFICES ASSUME v = 0 PROVE FALSE
    OBVIOUS
  <2>1. 0 * r = 0
    BY <1>4
  <2>2. Same(Order, 0, z)
    BY <1>6, <2>1
  <2> QED BY <1>4, <2>2, SameScalar
<1>9. w # 0
  BY <1>2, <1>3, <1>8, DivFacts
<1>10. Same(Order, v * w, z)
  BY <1>2, <1>3, <1>9, DivFacts
<1> HIDE DEF v
<1>11. r = w
  <2>1. Same(Order, v * r, z)
    BY <1>6 DEF v
  <2>2. v * r = r * v /\ v * w = w * v
    BY <1>4, <1>7
  <2>3. Same(Order, r * v, w * v)
    BY <1>10, <2>1, <2>2 DEF Same
  <2> QED BY <1>2, <1>7, <1>8, <2>3, CancelScalar
<1>12. XOf(p) % Order = r /\ p \in NonZero
  BY <1>1, <1>11, OrderFacts DEF w, RScalar
<1> QED BY <1>1, <1>5, <1>12 DEF ValidSignature, Same

\* Every valid signature is.
LEMMA ValidAccepted ==
  ASSUME AttestAssumption, NEW z \in Scalar, NEW k \in NonZero, NEW r \in Scalar, NEW s \in Scalar,
         ValidSignature(z, k, r, s)
  PROVE  Equation(z, k, r, s)
<1> DEFINE p == SignaturePoint(z, k, r, s)
<1>1. PICK nonce \in NonZero : XOf(nonce) % Order = r /\ Same(Order, s * nonce, z + r * k)
  BY DEF ValidSignature, Same
<1>2. r # 0 /\ s # 0
  BY DEF ValidSignature
<1>3. p \in Scalar /\ Same(Order, s * p, z + r * k)
  BY <1>2, PointFacts
<1>4. RScalar(nonce) = r
  BY <1>1 DEF RScalar
<1> HIDE DEF p
<1>5. /\ Order \in Nat \ {0} /\ z \in Int /\ k \in Int /\ r \in Int /\ s \in Int /\ p \in Int
      /\ nonce \in Int /\ nonce \in Scalar /\ nonce # 0
  BY <1>3, OrderFacts
<1>6. p = nonce
  <2>1. s * p = p * s /\ s * nonce = nonce * s
    BY <1>5
  <2>2. Same(Order, p * s, nonce * s)
    BY <1>1, <1>3, <2>1 DEF Same
  <2> QED BY <1>2, <1>3, <1>5, <2>2, CancelScalar
<1> DEFINE a == Div(s, r)
           v == Div(z, r)
<1>7. a \in Int /\ v \in Int /\ Same(Order, a * r, s) /\ Same(Order, v * r, z)
  BY <1>2, DivFacts, OrderFacts
<1> HIDE DEF a, v
<1>8. Same(Order, a * p, k + v)
  <2> DEFINE x == a * p
             y == k + v
             b == a * r
             c == v * r
             d == r * k
  <2>1. x \in Int /\ y \in Int /\ b \in Int /\ c \in Int /\ d \in Int
    BY <1>5, <1>7
  <2>2. x * r = b * p /\ y * r = c + d
    BY <1>5, <1>7
  <2>3. Same(Order, b, s) /\ Same(Order, c, z) /\ Same(Order, d, d)
    BY <1>7 DEF Same
  <2>4. Same(Order, s * p, z + d)
    BY <1>3
  <2> HIDE DEF x, y, b, c, d
  <2>5. Same(Order, b * p, s * p)
    BY <1>5, <2>1, <2>3, SameTimes
  <2>6. Same(Order, c + d, z + d)
    BY <1>5, <2>1, <2>3, SamePlus
  <2>7. Same(Order, x * r, y * r)
    BY <2>2, <2>4, <2>5, <2>6 DEF Same
  <2>8. NoDivisor(Order) /\ r \in 1 .. Order - 1
    BY <1>2, OrderFacts
  <2>9. Same(Order, x, y)
    BY <1>5, <2>1, <2>7, <2>8, PrimeCancel
  <2> QED BY <2>9 DEF x, y
<1>9. p # 0 /\ RScalar(p) = r
  BY <1>4, <1>5, <1>6
<1> QED BY <1>8, <1>9 DEF Equation, p, a, v

-----------------------------------------------------------------------------
(* Rings. *)

\* The logarithm of a padded ring is the least that fits.
LEMMA PadLogFacts ==
  ASSUME NEW rg, Len(rg) \in Nat
  PROVE  /\ PadLog(rg) \in Nat /\ Len(rg) <= TwoTo[PadLog(rg)] /\ TwoTo[PadLog(rg)] \in Nat
         /\ \A m \in 0 .. PadLog(rg) - 1 : Len(rg) > TwoTo[m]
<1> DEFINE n == Len(rg)
           Fits(l) == n <= TwoTo[l] /\ \A m \in 0 .. l - 1 : n > TwoTo[m]
<1>1. \A l \in Nat : TwoTo[l] \in Nat /\ l < TwoTo[l]
  BY TwoToFacts
<1>2. n \in Nat
  OBVIOUS
<1>3. PadLog(rg) = CHOOSE l \in 0 .. n : Fits(l)
  BY DEF PadLog
<1> HIDE DEF n
<1>4. \E l \in Nat : Fits(l)
  <2> SUFFICES ASSUME \A l \in Nat : ~Fits(l) PROVE FALSE
    OBVIOUS
  <2> DEFINE U == {l \in Nat : \A m \in 0 .. l : n > TwoTo[m]}
  <2>1. 0 \in U
    <3>1. ~Fits(0)
      OBVIOUS
    <3>2. ~(n <= TwoTo[0]) /\ TwoTo[0] \in Nat
      BY <1>1, <3>1
    <3> QED BY <1>2, <3>2
  <2>2. ASSUME NEW l \in U PROVE l + 1 \in U
    <3>1. ~Fits(l + 1) /\ \A m \in 0 .. l : n > TwoTo[m]
      OBVIOUS
    <3>2. ~(n <= TwoTo[l + 1]) /\ TwoTo[l + 1] \in Nat
      BY <1>1, <3>1
    <3>3. n > TwoTo[l + 1]
      BY <1>2, <3>2
    <3> QED BY <3>1, <3>3
  <2>3. U = Nat
    <3> HIDE DEF U
    <3>1. U \in SUBSET Nat
      BY DEF U
    <3> QED BY <2>1, <2>2, <3>1, NatSetInduction
  <2>4. n > TwoTo[n]
    <3>1. \A m \in 0 .. n : n > TwoTo[m]
      BY <1>2, <2>3
    <3>2. n \in 0 .. n
      BY <1>2
    <3> QED BY <3>1, <3>2
  <2> QED BY <1>1, <1>2, <2>4
<1>5. PICK l \in Nat : Fits(l)
  BY <1>4
<1>6. l \in 0 .. n
  <2>1. ~(n \in 0 .. l - 1)
    BY <1>1, <1>2, <1>5
  <2> QED BY <1>2, <2>1
<1>7. PadLog(rg) \in 0 .. n /\ Fits(PadLog(rg))
  BY <1>3, <1>5, <1>6
<1> QED BY <1>1, <1>2, <1>7 DEF n

Xs == {XOf(k) : k \in Members}

LEMMA RingType ==
  ASSUME NEW rg \in Rings
  PROVE  rg \in Seq(Xs) /\ Len(rg) \in Nat
<1>1. PICK n \in 0 .. MaxRing : rg \in [1 .. n -> Xs]
  BY DEF Rings, Xs
<1>2. n \in Nat
  OBVIOUS
<1> QED BY <1>1, <1>2

LEMMA RingFacts ==
  ASSUME NEW rg \in Rings, rg # <<>>
  PROVE  /\ rg \in Seq(Xs) /\ Len(rg) \in Nat /\ Len(rg) >= 1
         /\ DOMAIN Padded(rg) = 1 .. TwoTo[PadLog(rg)]
         /\ \A i \in DOMAIN Padded(rg) : \E j \in 1 .. Len(rg) : Padded(rg)[i] = rg[j]
         /\ \A i \in 1 .. Len(rg) : i \in DOMAIN Padded(rg) /\ Padded(rg)[i] = rg[i]
<1> DEFINE n == Len(rg)
<1>1. rg \in Seq(Xs) /\ n \in Nat
  BY RingType
<1>2. n \in Nat /\ n >= 1
  BY <1>1
<1>3. rg \in Seq(Xs) /\ Len(rg) = n
  BY <1>1
<1>4. PadLog(rg) \in Nat /\ Len(rg) <= TwoTo[PadLog(rg)] /\ TwoTo[PadLog(rg)] \in Nat
  BY <1>2, <1>3, PadLogFacts
<1>5. DOMAIN Padded(rg) = 1 .. TwoTo[PadLog(rg)]
  BY DEF Padded
<1>6. \A i \in 1 .. TwoTo[PadLog(rg)] : Padded(rg)[i] = IF i <= Len(rg) THEN rg[i] ELSE rg[1]
  BY DEF Padded
<1> QED BY <1>2, <1>3, <1>4, <1>5, <1>6

\* Rings that are equal when padded are padded to one logarithm.
LEMMA SamePadding ==
  ASSUME NEW rg \in Rings, NEW other \in Rings, rg # <<>>, other # <<>>,
         Padded(rg) = Padded(other)
  PROVE  PadLog(rg) = PadLog(other)
<1> DEFINE a == PadLog(rg)
           b == PadLog(other)
<1>1. a \in Nat /\ b \in Nat
  BY RingFacts, PadLogFacts
<1>2. 1 .. TwoTo[a] = 1 .. TwoTo[b]
  BY RingFacts
<1> HIDE DEF a, b
<1>3. TwoTo[a] \in Nat /\ TwoTo[b] \in Nat /\ TwoTo[a] > 0 /\ TwoTo[b] > 0
  <2>1. \A m \in Nat : TwoTo[m] \in Nat /\ m < TwoTo[m]
    BY TwoToFacts
  <2>2. TwoTo[a] \in Nat /\ a < TwoTo[a]
    BY <1>1, <2>1
  <2>3. TwoTo[b] \in Nat /\ b < TwoTo[b]
    BY <1>1, <2>1
  <2> QED BY <1>1, <2>2, <2>3
<1>4. TwoTo[a] = TwoTo[b]
  <2> DEFINE x == TwoTo[a]
             y == TwoTo[b]
  <2>1. x \in 1 .. x /\ y \in 1 .. y
    BY <1>3
  <2>2. x \in 1 .. y /\ y \in 1 .. x
    BY <1>2, <2>1
  <2> QED BY <1>3, <2>2
<1>5. ~(a < b) /\ ~(b < a)
  <2>1. a < b => TwoTo[a] < TwoTo[b]
    BY <1>1, TwoToFacts
  <2>2. b < a => TwoTo[b] < TwoTo[a]
    BY <1>1, TwoToFacts
  <2> QED BY <1>3, <1>4, <2>1, <2>2
<1> QED BY <1>1, <1>5 DEF a, b

-----------------------------------------------------------------------------
\* The proof is what construct makes of the input, and the outcome one that
\* verify can come to with the rings as they are.
Inputs == [msgHash : Hashes, pubkey : Members, r : Scalar, s : Scalar,
           index : 1 .. MaxRing + 1, guildId : Guilds]
Constructible == input.index <= Len(ring) /\ PadLog(ring) # 0
Made == [guildId |-> input.guildId, msgHash |-> input.msgHash,
         rPoint |-> SignaturePoint(input.msgHash, input.pubkey, input.r, input.s),
         s1 |-> Div(input.s, input.r), q |-> Z1(input.r, input.msgHash)]
Signature == IF Accepted(input.msgHash, input.pubkey, input.r, input.s) THEN "ok" ELSE "err"
Outcomes ==
  IF GuildHash[input.guildId] # input.msgHash THEN {"err"}
  ELSE {IF m = "ok" THEN Signature ELSE m :
          m \in MembershipOutcomes(XOf(input.pubkey), ring, input.index, theirRing)}

IInv ==
  /\ input \in Inputs /\ ring \in Rings /\ theirRing \in Rings
  /\ pc \in {"construct", "proved", "end"}
  /\ pc = "construct" => proof = NoProof /\ outcome = "none"
  /\ pc = "proved" => Constructible /\ proof = Made /\ outcome = "none"
  /\ pc = "end" => \/ ~Constructible /\ proof = NoProof /\ outcome \in {"err", "panic"}
                   \/ Constructible /\ proof = Made /\ outcome \in Outcomes

THEOREM Initial == Init => IInv
BY DEF Init, IInv, Inputs

LEMMA InputFacts ==
  ASSUME AttestAssumption, IInv
  PROVE  /\ input.msgHash \in Scalar /\ input.pubkey \in Members /\ input.pubkey \in NonZero
         /\ input.r \in Scalar /\ input.s \in Scalar /\ input.guildId \in Guilds
         /\ input.index \in Nat /\ input.index >= 1
<1>1. input \in Inputs /\ MaxRing \in Nat
  BY DEF IInv, AttestAssumption, RingAssumption
<1> QED BY <1>1 DEF Inputs, AttestAssumption, MembersAssumption, GuildAssumption

THEOREM Inductive == AttestAssumption /\ IInv /\ [Next]_vars => IInv'
<1> SUFFICES ASSUME AttestAssumption, IInv, [Next]_vars PROVE IInv'
  OBVIOUS
<1>1. CASE Construct
  <2>1. pc = "construct" /\ proof = NoProof /\ outcome = "none"
        /\ input' = input /\ ring' = ring /\ theirRing' = theirRing
    BY <1>1 DEF Construct, IInv
  <2> DEFINE beyond == input.index > Len(ring)
  <2>2. beyond <=> ~(input.index <= Len(ring))
    <3>1. Len(ring) \in Nat
      BY RingType DEF IInv
    <3> QED BY <3>1, InputFacts
  <2> HIDE DEF beyond
  <2>3. \/ beyond /\ pc' = "end" /\ outcome' = "err" /\ proof' = proof
        \/ ~beyond /\ PadLog(ring) = 0 /\ pc' = "end" /\ outcome' = "panic" /\ proof' = proof
        \/ ~beyond /\ PadLog(ring) # 0 /\ proof' = Made /\ pc' = "proved" /\ outcome' = outcome
    BY <1>1 DEF Construct, beyond, Made, SignaturePoint, U2, Z1
  <2>4. CASE Constructible
    <3>1. proof' = Made /\ pc' = "proved" /\ outcome' = "none"
      BY <2>1, <2>4, <2>2, <2>3 DEF Constructible
    <3> QED BY <2>1, <2>4, <3>1 DEF IInv, Constructible, Made
  <2>5. CASE ~Constructible
    <3>1. proof' = NoProof /\ pc' = "end" /\ outcome' \in {"err", "panic"}
      BY <2>1, <2>5, <2>2, <2>3 DEF Constructible
    <3> QED BY <2>1, <2>5, <3>1 DEF IInv, Constructible
  <2> QED BY <2>4, <2>5
<1>2. CASE ChangeRing
  BY <1>2 DEF ChangeRing, IInv, Constructible, Made
<1>3. CASE Verify
  <2>1. pc = "proved" /\ pc' = "end" /\ Constructible /\ proof = Made
        /\ input' = input /\ ring' = ring /\ proof' = proof /\ theirRing' = theirRing
    BY <1>3 DEF Verify, IInv
  <2>2. outcome' \in Outcomes
    <3> DEFINE divided == Z1(RScalar(proof.rPoint), proof.msgHash)
               signature == IF ExpAccepts(proof.rPoint, proof.s1, input.pubkey, proof.q, divided)
                              THEN "ok" ELSE "err"
    <3>1. ~IsIdentity(ToAffine(PointOf(proof.rPoint)))
      BY DEF IsIdentity, ToAffine
    <3>2. /\ proof.guildId = input.guildId /\ proof.msgHash = input.msgHash
          /\ proof.rPoint = SignaturePoint(input.msgHash, input.pubkey, input.r, input.s)
          /\ proof.s1 = Div(input.s, input.r) /\ proof.q = Z1(input.r, input.msgHash)
      BY <2>1 DEF Made
    <3>3. signature = Signature
      BY <3>2 DEF Signature, Accepted
    <3> HIDE DEF signature
    <3>4. CASE GuildHash[proof.guildId] # proof.msgHash
      BY <1>3, <3>2, <3>4 DEF Verify, Outcomes
    <3>5. CASE GuildHash[proof.guildId] = proof.msgHash
      <4>1. PICK m \in MembershipOutcomes(XOf(input.pubkey), ring, input.index, theirRing) :
              outcome' = IF m = "ok" THEN signature ELSE m
        BY <1>3, <3>1, <3>5 DEF Verify, signature
      <4> QED BY <3>2, <3>3, <3>5, <4>1 DEF Outcomes
    <3> QED BY <3>4, <3>5
  <2>3. Constructible' /\ Made' = Made /\ Outcomes' = Outcomes
    BY <2>1 DEF Constructible, Made, Outcomes, Signature
  <2> QED BY <2>1, <2>2, <2>3 DEF IInv
<1>4. CASE UNCHANGED vars
  BY <1>4 DEF vars, IInv, Constructible, Made, Outcomes, Signature
<1> QED BY <1>1, <1>2, <1>3, <1>4 DEF Next

LEMMA TypesHold == AttestAssumption /\ IInv => TypeOK
<1> SUFFICES ASSUME AttestAssumption, IInv PROVE TypeOK
  OBVIOUS
<1>1. /\ input.msgHash \in Scalar /\ input.pubkey \in NonZero
      /\ input.r \in Scalar /\ input.s \in Scalar /\ input.guildId \in Guilds
  BY InputFacts
<1> DEFINE P == [guildId : Guilds, msgHash : Scalar, rPoint : Scalar, s1 : Scalar, q : Scalar]
<1>2. NoProof \in P
  <2>1. (CHOOSE g \in Guilds : TRUE) \in Guilds /\ 0 \in Scalar
    BY <1>1, OrderFacts
  <2> QED BY <2>1 DEF NoProof
<1>3. Made \in P
  <2>1. SignaturePoint(input.msgHash, input.pubkey, input.r, input.s) \in Scalar
    BY <1>1, PointFacts
  <2>2. Div(input.s, input.r) \in Scalar /\ Z1(input.r, input.msgHash) \in Scalar
    BY <1>1, DivFacts DEF Z1
  <2> QED BY <1>1, <2>1, <2>2 DEF Made
<1>4. outcome \in {"none", "ok", "err", "panic"}
  <2>1. Outcomes \subseteq {"ok", "err", "panic"}
    BY DEF Outcomes, Signature, MembershipOutcomes
  <2> QED BY <2>1 DEF IInv
<1>5. {ring, theirRing} \subseteq Seq(Xs)
  BY RingType DEF IInv
<1> HIDE DEF P
<1>6. proof \in P /\ pc \in {"construct", "proved", "end"}
  BY <1>2, <1>3 DEF IInv
<1> QED BY <1>1, <1>4, <1>5, <1>6 DEF TypeOK, Xs, P

\* A membership proof that verifies was made of a key of the verifier's ring.
LEMMA VerifiedMember ==
  ASSUME AttestAssumption, NEW rg \in Rings, NEW other \in Rings, NEW px, NEW i \in Nat,
         i >= 1, i <= Len(rg), "ok" \in MembershipOutcomes(px, rg, i, other)
  PROVE  \E j \in 1 .. Len(other) : other[j] = px
<1>4. other # <<>>
  BY DEF MembershipOutcomes
<1>5. rg # <<>>
  <2>1. rg = <<>> => Len(rg) = 0
    OBVIOUS
  <2> QED BY <2>1
<1>1. PadLog(rg) \in Nat /\ PadLog(other) \in Nat /\ Len(rg) <= TwoTo[PadLog(rg)]
      /\ TwoTo[PadLog(rg)] \in Nat /\ Len(rg) \in Nat
  BY <1>4, <1>5, RingFacts, PadLogFacts
<1>2. PadLog(other) = PadLog(rg) /\ Padded(other)[i] = px
  BY <1>1, <1>4 DEF MembershipOutcomes
<1>3. i \in DOMAIN Padded(other)
  BY <1>1, <1>2, <1>4, <1>5, RingFacts
<1> QED BY <1>2, <1>3, <1>4, RingFacts

LEMMA Attests == AttestAssumption /\ IInv => AttestsSignature
<1> SUFFICES ASSUME AttestAssumption, IInv, pc = "end", outcome = "ok"
             PROVE  /\ \E i \in 1 .. Len(theirRing) : theirRing[i] = XOf(input.pubkey)
                    /\ input.msgHash = GuildHash[input.guildId]
                    /\ input.msgHash # 0 =>
                         ValidSignature(input.msgHash, input.pubkey, input.r, input.s)
  BY DEF AttestsSignature
<1>1. Constructible /\ "ok" \in Outcomes /\ ring \in Rings /\ theirRing \in Rings
  BY DEF IInv
<1>2. input.msgHash = GuildHash[input.guildId]
  BY <1>1 DEF Outcomes
<1>3. PICK m \in MembershipOutcomes(XOf(input.pubkey), ring, input.index, theirRing) :
        "ok" = IF m = "ok" THEN Signature ELSE m
  BY <1>1, <1>2 DEF Outcomes
<1>4. m = "ok" /\ Signature = "ok"
  BY <1>3
<1>5. \E i \in 1 .. Len(theirRing) : theirRing[i] = XOf(input.pubkey)
  BY <1>1, <1>3, <1>4, InputFacts, VerifiedMember DEF Constructible
<1>6. Equation(input.msgHash, input.pubkey, input.r, input.s)
  BY <1>4, AcceptedEquation DEF Signature
<1>7. input.msgHash # 0 => ValidSignature(input.msgHash, input.pubkey, input.r, input.s)
  BY <1>6, InputFacts, OnlyValidAccepted
<1> QED BY <1>2, <1>5, <1>7

LEMMA Accepts == AttestAssumption /\ IInv => MemberAccepted
<1> SUFFICES ASSUME AttestAssumption, IInv,
                    pc = "end", input.index <= Len(ring), Len(ring) > 1,
                    ring[input.index] = XOf(input.pubkey),
                    theirRing # <<>>, Padded(theirRing) = Padded(ring),
                    input.msgHash = GuildHash[input.guildId],
                    ValidSignature(input.msgHash, input.pubkey, input.r, input.s)
             PROVE  outcome = "ok"
  BY DEF MemberAccepted
<1>1. ring \in Rings /\ theirRing \in Rings /\ ring # <<>>
  <2>1. ring = <<>> => Len(ring) = 0
    OBVIOUS
  <2> QED BY <2>1 DEF IInv
<1>2. PadLog(ring) \in Nat /\ Len(ring) <= TwoTo[PadLog(ring)] /\ Len(ring) \in Nat
  BY <1>1, RingFacts, PadLogFacts
<1>3. Constructible
  <2>1. TwoTo[0] = 1
    BY TwoToFacts
  <2>2. PadLog(ring) # 0
    BY <1>2, <2>1
  <2> QED BY <2>2 DEF Constructible
<1>4. outcome \in Outcomes
  BY <1>3 DEF IInv
<1>5. MembershipOutcomes(XOf(input.pubkey), ring, input.index, theirRing) = {"ok"}
  <2>1. PadLog(theirRing) = PadLog(ring)
    BY <1>1, SamePadding
  <2>2. Padded(theirRing)[input.index] = XOf(input.pubkey)
    <3>1. input.index \in 1 .. Len(ring)
      BY <1>2, InputFacts
    <3>2. Padded(ring)[input.index] = ring[input.index]
      BY <1>1, <3>1, RingFacts
    <3> QED BY <3>2
  <2> QED BY <1>2, <2>1, <2>2 DEF MembershipOutcomes
<1>6. Signature = "ok"
  <2>1. Equation(input.msgHash, input.pubkey, input.r, input.s)
    BY InputFacts, ValidAccepted
  <2> QED BY <2>1, AcceptedEquation DEF Signature
<1> QED BY <1>4, <1>5, <1>6 DEF Outcomes

\* Only with a valid signature on the guild's message, by a key in the backend's
\* ring, does an attestation verify, although neither construct nor verify checks
\* the signature (proofs/mod.rs:48-147): for every prime order, all rings, keys,
\* and values of r and s, and every hash of the guild but zero.
THEOREM AttestationSound == ASSUME AttestAssumption PROVE Spec => [](TypeOK /\ AttestsSignature)
<1>1. Init => IInv
  BY Initial
<1>2. IInv /\ [Next]_vars => IInv'
  BY Inductive
<1>3. IInv => TypeOK /\ AttestsSignature
  BY TypesHold, Attests
<1> QED BY <1>1, <1>2, <1>3, PTL DEF Spec

\* Every member with a valid signature is let in, and so when the backend's ring
\* differs only in the padding written out (test zkp_attest_valid).
THEOREM AttestationComplete == ASSUME AttestAssumption PROVE Spec => []MemberAccepted
<1>1. Init => IInv
  BY Initial
<1>2. IInv /\ [Next]_vars => IInv'
  BY Inductive
<1>3. IInv => MemberAccepted
  BY Accepts
<1> QED BY <1>1, <1>2, <1>3, PTL DEF Spec

-----------------------------------------------------------------------------
(* The field. *)

Coords == Field \X Field

LEMMA FieldFacts ==
  /\ Prime \in Nat \ {0} /\ Prime > 3 /\ NoDivisor(Prime)
  /\ Field = 0 .. Prime - 1 /\ Field \subseteq Int /\ 0 \in Field /\ 1 \in Field
BY PrimeFacts DEF Field

LEMMA FieldResidue ==
  ASSUME NEW a \in Field
  PROVE  a % Prime = a
<1>1. Prime \in Nat \ {0} /\ a \in 0 .. Prime - 1
  BY FieldFacts
<1> QED BY <1>1, ModSmall

LEMMA SameField ==
  ASSUME NEW a \in Field, NEW b \in Field, Same(Prime, a, b)
  PROVE  a = b
BY FieldResidue DEF Same

LEMMA Reduced ==
  ASSUME NEW a \in Int
  PROVE  a % Prime \in Field /\ a % Prime \in Int /\ Same(Prime, a % Prime, a)
BY FieldFacts, FieldMod, SameRefl

\* A residue is an element of the field when it is the residue of that element.
LEMMA ResidueIs ==
  ASSUME NEW a \in Int, NEW b \in Field
  PROVE  (a % Prime = b) <=> Same(Prime, a, b)
BY FieldResidue DEF Same

LEMMA SumReduced ==
  ASSUME NEW a \in Int, NEW b \in Int
  PROVE  ((a % Prime) + (b % Prime)) % Prime = (a + b) % Prime
BY FieldFacts, ModSum

\* A multiple of an element that is not zero determines the factor.
LEMMA CancelField ==
  ASSUME NEW a \in Field, a # 0, NEW x \in Int, NEW y \in Int, Same(Prime, x * a, y * a)
  PROVE  Same(Prime, x, y)
<1>1. a \in 1 .. Prime - 1
  BY FieldFacts
<1> QED BY <1>1, FieldFacts, PrimeCancel

\* Two factors that give the same multiple of an element are the same, or it is zero.
LEMMA SameMultiple ==
  ASSUME NEW a \in Field, NEW x \in Field, NEW y \in Field, Same(Prime, a * x, a * y)
  PROVE  a = 0 \/ x = y
<1> SUFFICES ASSUME a # 0 PROVE x = y
  OBVIOUS
<1>1. a \in Int /\ x \in Int /\ y \in Int
  BY FieldFacts
<1>2. a * x = x * a /\ a * y = y * a
  BY <1>1
<1>3. Same(Prime, x, y)
  BY <1>1, <1>2, CancelField
<1> QED BY <1>3, SameField

-----------------------------------------------------------------------------
(* The openings of commitments. *)

LEMMA OpensFacts ==
  ASSUME NEW m \in Int, NEW k \in Int, NEW com \in Coords, NEW c \in Int, NEW a \in Coords
  PROVE  Opens(m, k, com, c, a) <=> /\ Same(Prime, m + com[1] * c, a[1])
                                    /\ Same(Prime, k + com[2] * c, a[2])
<1>1. com[1] \in Int /\ com[2] \in Int /\ a[1] \in Field /\ a[2] \in Field /\ a = <<a[1], a[2]>>
  BY FieldFacts DEF Coords
<1> DEFINE u == com[1] * c
           w == com[2] * c
<1>2. u \in Int /\ w \in Int
  BY <1>1
<1>3. 0 % Prime = 0
  BY FieldFacts, FieldResidue
<1>4. Times(BASE, m) = <<m % Prime, 0>> /\ Times(PEDERSEN, k) = <<0, k % Prime>>
  <2>1. 1 * m = m /\ 0 * m = 0 /\ 0 * k = 0 /\ 1 * k = k
    OBVIOUS
  <2> QED BY <1>3, <2>1 DEF Times, BASE, PEDERSEN
<1>5. Times(com, c) = <<u % Prime, w % Prime>>
  BY DEF Times
<1> HIDE DEF u, w
<1>6. Plus(Times(BASE, m), Times(PEDERSEN, k)) = <<m % Prime, k % Prime>>
  <2> DEFINE r == m % Prime
             s == k % Prime
  <2>1. r \in Field /\ s \in Field
    BY Reduced
  <2>2. r % Prime = r /\ s % Prime = s
    BY <2>1, FieldResidue
  <2> HIDE DEF r, s
  <2>3. r + 0 = r /\ 0 + s = s
    BY <2>1, FieldFacts
  <2>4. Plus(<<r, 0>>, <<0, s>>) = <<r, s>>
    BY <2>2, <2>3 DEF Plus
  <2> QED BY <1>4, <2>4 DEF r, s
<1>7. Opens(m, k, com, c, a) <=>
        <<((m % Prime) + (u % Prime)) % Prime, ((k % Prime) + (w % Prime)) % Prime>> = a
  BY <1>5, <1>6 DEF Opens, Plus
<1>8. Opens(m, k, com, c, a) <=> (m + u) % Prime = a[1] /\ (k + w) % Prime = a[2]
  BY <1>1, <1>2, <1>7, SumReduced
<1>9. m + u \in Int /\ k + w \in Int
  BY <1>2
<1> QED BY <1>1, <1>8, <1>9, ResidueIs DEF u, w

\* A mask with a multiple taken off and another put on is the mask again.
LEMMA MaskKept ==
  ASSUME NEW m \in Int, NEW s \in Int, NEW t \in Int
  PROVE  Same(Prime, (m - s) + t, m % Prime) <=> Same(Prime, t, s)
<1> DEFINE d == m - s
           r == m % Prime
<1>1. d \in Int /\ d + t \in Int /\ r \in Int /\ Prime \in Nat \ {0} /\ Same(Prime, r, m)
  <2>1. d \in Int /\ d + t \in Int
    OBVIOUS
  <2>2. r \in Int /\ Same(Prime, r, m)
    BY Reduced
  <2> QED BY <2>1, <2>2, FieldFacts
<1>2. m - d = s /\ (d + t) - d = t /\ d + s = m
  OBVIOUS
<1> HIDE DEF d, r
<1>3. ASSUME Same(Prime, d + t, r) PROVE Same(Prime, t, s)
  <2>1. Same(Prime, d + t, m) /\ Same(Prime, d, d)
    BY <1>1, <1>3 DEF Same
  <2>2. Same(Prime, (d + t) - d, m - d)
    BY <1>1, <2>1, SameMinus
  <2> QED BY <1>2, <2>2
<1>4. ASSUME Same(Prime, t, s) PROVE Same(Prime, d + t, r)
  <2>1. Same(Prime, d, d)
    BY DEF Same
  <2>2. Same(Prime, d + t, d + s)
    BY <1>1, <1>4, <2>1, SamePlus
  <2> QED BY <1>1, <1>2, <2>2 DEF Same
<1> QED BY <1>3, <1>4 DEF d, r

\* The mask m and the randomness k, with x times the opening <<s, t>> taken off,
\* open com.
Opened(m, k, com, c, x, s, t) == Opens(m - x * s, k - x * t, com, c, Commit(m, k))

\* What an answer to the challenge x, of the opening <<s, t>>, shows of a
\* commitment for the challenge c.
Answers(com, c, x, s, t) == Same(Prime, com[1] * c, x * s) /\ Same(Prime, com[2] * c, x * t)

LEMMA AnswerOpens ==
  ASSUME NEW m \in Int, NEW k \in Int, NEW s \in Int, NEW t \in Int, NEW x \in Int,
         NEW c \in Int, NEW com \in Coords
  PROVE  Opened(m, k, com, c, x, s, t) <=> Answers(com, c, x, s, t)
<1> DEFINE u == x * s
           w == x * t
           v == com[1] * c
           z == com[2] * c
           a == Commit(m, k)
<1>1. u \in Int /\ w \in Int
  OBVIOUS
<1>2. v \in Int /\ z \in Int
  BY FieldFacts DEF Coords
<1>3. a \in Coords /\ a[1] = m % Prime /\ a[2] = k % Prime
  BY Reduced DEF Commit, Coords
<1> HIDE DEF u, w, a
<1>4. m - u \in Int /\ k - w \in Int
  BY <1>1
<1>5. Opens(m - u, k - w, com, c, a) <=> /\ Same(Prime, (m - u) + v, a[1])
                                         /\ Same(Prime, (k - w) + z, a[2])
  BY <1>3, <1>4, OpensFacts
<1> HIDE DEF v, z
<1>6. /\ Same(Prime, (m - u) + v, a[1]) <=> Same(Prime, v, u)
      /\ Same(Prime, (k - w) + z, a[2]) <=> Same(Prime, z, w)
  BY <1>1, <1>2, <1>3, MaskKept
<1> QED BY <1>5, <1>6 DEF u, w, v, z, a, Opened, Answers

\* The owner of a commitment can answer.
LEMMA OwnAnswer ==
  ASSUME NEW com \in Coords, NEW x \in Field
  PROVE  Answers(com, x, x, com[1], com[2])
<1>1. com[1] \in Int /\ com[2] \in Int /\ x \in Int
  BY FieldFacts DEF Coords
<1>2. com[1] * x = x * com[1] /\ com[2] * x = x * com[2]
  BY <1>1
<1> QED BY <1>2 DEF Answers, Same

\* An answer of another value is one to the challenge zero.
LEMMA OtherValue ==
  ASSUME NEW com \in Coords, NEW x \in Field, NEW s \in Field, NEW t, Answers(com, x, x, s, t)
  PROVE  x = 0 \/ com[1] = s
<1>1. com[1] \in Field /\ com[1] \in Int /\ x \in Int /\ s \in Int
  BY FieldFacts DEF Coords
<1>2. Same(Prime, x * com[1], x * s)
  <2>1. com[1] * x = x * com[1]
    BY <1>1
  <2> QED BY <2>1 DEF Answers
<1> QED BY <1>1, <1>2, SameMultiple

\* One answer that fits two challenges is one of a commitment to nothing.
LEMMA TwoChallenges ==
  ASSUME NEW com \in Coords, NEW c \in Field, NEW b \in Field, c # b, NEW x, NEW s, NEW t,
         Answers(com, c, x, s, t), Answers(com, b, x, s, t)
  PROVE  com = NOTHING
<1>1. com[1] \in Field /\ com[2] \in Field /\ com = <<com[1], com[2]>>
  BY DEF Coords
<1>2. Same(Prime, com[1] * c, com[1] * b) /\ Same(Prime, com[2] * c, com[2] * b)
  BY DEF Answers, Same
<1>3. com[1] = 0 /\ com[2] = 0
  BY <1>1, <1>2, SameMultiple
<1> QED BY <1>1, <1>3 DEF NOTHING

-----------------------------------------------------------------------------
(* Equality. *)

Randoms == {d \in Seq(Field) : Len(d) >= 10}

LEMMA RandomFacts == \A d \in Randoms : \A i \in 1 .. 10 : d[i] \in Field /\ d[i] \in Int
BY FieldFacts DEF Randoms

LEMMA CommitFacts ==
  ASSUME NEW s \in Field, NEW t \in Field
  PROVE  Commit(s, t) \in Coords /\ Commit(s, t) = <<s, t>>
BY FieldResidue DEF Commit, Coords

LEMMA EqualityAnswers ==
  ASSUME NEW c1 \in Coords, NEW c2 \in Coords, NEW v \in Field, NEW d \in Randoms, NEW x \in Field,
         NEW cs, cs[1] \in Coords, cs[2] \in Coords, NEW c \in Field
  PROVE  EqualityHolds(Equality(c1, c2, v, d, x), cs, c) <=>
           Answers(cs[1], c, x, v, c1[2]) /\ Answers(cs[2], c, x, v, c2[2])
<1>1. /\ d[1] \in Int /\ d[2] \in Int /\ d[3] \in Int /\ v \in Int /\ x \in Int /\ c \in Int
      /\ c1[2] \in Int /\ c2[2] \in Int
  BY RandomFacts, FieldFacts DEF Coords
<1>2. EqualityHolds(Equality(c1, c2, v, d, x), cs, c) <=> /\ Opened(d[1], d[2], cs[1], c, x, v, c1[2])
                                                         /\ Opened(d[1], d[3], cs[2], c, x, v, c2[2])
  BY DEF EqualityHolds, Equality, Opened
<1> QED BY <1>1, <1>2, AnswerOpens

\* What the relations of a multiplication ask of the answer to x.
MultiplicationRelations(cx, cy, cz, u, v, w, m, x, cs, c) ==
  /\ Answers(cs[1], c, x, u, cx[2]) /\ Answers(cs[2], c, x, v, cy[2])
  /\ Answers(cs[3], c, x, w, cz[2]) /\ Answers(Times(cy, u), c, x, w, cy[2] * u)
  /\ Plus(Times(cs[2], m - x * u), Times(Times(cy, u), c)) = Times(cy, m)

LEMMA MultiplicationAnswers ==
  ASSUME NEW cx \in Coords, NEW cy \in Coords, NEW cz \in Coords,
         NEW u \in Field, NEW v \in Field, NEW w \in Field, NEW d \in Randoms, NEW x \in Field,
         NEW cs, cs[1] \in Coords, cs[2] \in Coords, cs[3] \in Coords, NEW c \in Field
  PROVE  MultiplicationHolds(Multiplication(cx, cy, cz, u, v, w, d, x), cs, c) <=>
           MultiplicationRelations(cx, cy, cz, u, v, w, d[1], x, cs, c)
<1>1. /\ d[1] \in Int /\ d[2] \in Int /\ d[3] \in Int /\ d[4] \in Int
      /\ d[5] \in Int /\ d[6] \in Int /\ d[7] \in Int
      /\ u \in Int /\ v \in Int /\ w \in Int /\ x \in Int /\ c \in Int
      /\ cx[2] \in Int /\ cy[1] \in Int /\ cy[2] \in Int /\ cz[2] \in Int
  BY RandomFacts, FieldFacts DEF Coords
<1> DEFINE t == cy[2] * u
<1>2. t \in Int /\ x * cy[2] * u = x * t
  BY <1>1
<1>3. Times(cy, u) \in Coords
  <2>1. cy[1] * u \in Int /\ t \in Int
    BY <1>1
  <2> QED BY <2>1, Reduced DEF Times, Coords
<1> HIDE DEF t
<1>4. MultiplicationHolds(Multiplication(cx, cy, cz, u, v, w, d, x), cs, c) <=>
        /\ Opened(d[1], d[4], cs[1], c, x, u, cx[2]) /\ Opened(d[2], d[5], cs[2], c, x, v, cy[2])
        /\ Opened(d[3], d[6], cs[3], c, x, w, cz[2]) /\ Opened(d[3], d[7], Times(cy, u), c, x, w, t)
        /\ Plus(Times(cs[2], d[1] - x * u), Times(Times(cy, u), c)) = Times(cy, d[1])
  BY <1>2 DEF MultiplicationHolds, Multiplication, Opened
<1>5. /\ Opened(d[1], d[4], cs[1], c, x, u, cx[2]) <=> Answers(cs[1], c, x, u, cx[2])
      /\ Opened(d[2], d[5], cs[2], c, x, v, cy[2]) <=> Answers(cs[2], c, x, v, cy[2])
      /\ Opened(d[3], d[6], cs[3], c, x, w, cz[2]) <=> Answers(cs[3], c, x, w, cz[2])
  BY <1>1, AnswerOpens
<1>6. Opened(d[3], d[7], Times(cy, u), c, x, w, t) <=> Answers(Times(cy, u), c, x, w, t)
  BY <1>1, <1>2, <1>3, AnswerOpens
<1> QED BY <1>4, <1>5, <1>6 DEF t, MultiplicationRelations

\* The last relation holds for the prover's own commitment and challenge.
LEMMA LastRelation ==
  ASSUME NEW a \in Coords, NEW u \in Field, NEW m \in Field, NEW x \in Field
  PROVE  Plus(Times(a, m - x * u), Times(Times(a, u), x)) = Times(a, m)
<1> SUFFICES ASSUME NEW b \in Field
             PROVE  (((b * (m - x * u)) % Prime) + ((((b * u) % Prime) * x) % Prime)) % Prime
                      = (b * m) % Prime
  BY DEF Plus, Times, Coords
<1>1. b \in Int /\ m \in Int /\ x \in Int /\ u \in Int /\ Prime \in Nat \ {0}
  BY FieldFacts
<1> DEFINE k == b * u
           l == k * x
           n == b * (m - x * u)
<1>2. k \in Int /\ l \in Int /\ n \in Int
  BY <1>1
<1>3. n + l = b * m
  <2>1. n = b * m - b * (x * u)
    BY <1>1
  <2>2. b * (x * u) = l
    BY <1>1
  <2>3. b * m \in Int
    BY <1>1
  <2> HIDE DEF n, l
  <2> QED BY <1>2, <2>1, <2>2, <2>3
<1>4. ((k % Prime) * x) % Prime = l % Prime
  <2> HIDE DEF k
  <2> QED BY <1>1, <1>2, ModTimes
<1>5. ((n % Prime) + (l % Prime)) % Prime = (n + l) % Prime
  <2> HIDE DEF n, l
  <2> QED BY <1>2, SumReduced
<1> QED BY <1>3, <1>4, <1>5

-----------------------------------------------------------------------------
(* Additions. *)

CoordinateFields == {"px", "py", "qx", "qy", "rx", "ry"}

Commitments6 == [px : Coords, py : Coords, qx : Coords, qy : Coords, rx : Coords, ry : Coords]

\* The slope as PointAddProof comes to it.
Slope(p, g) == (Inverse((g[1] - p[1]) % Prime) * ((g[2] - p[2]) % Prime)) % Prime

\* What the parts of an addition proof relate, given that the x coordinates differ.
Adds(p, g, r) == /\ Same(Prime, Slope(p, g) * Slope(p, g), r[1] + p[1] + g[1])
                 /\ Same(Prime, Slope(p, g) * (p[1] - r[1]), r[2] + p[2])

LEMMA InverseFacts ==
  ASSUME NEW a \in Field
  PROVE  Inverse(a) \in Field /\ (a # 0 => Same(Prime, Inverse(a) * a, 1)) /\ (a = 0 => Inverse(a) = 0)
<1>1. Inverse(a) \in Field /\ (a = 0 => Inverse(a) = 0)
  BY InverseType DEF Inverse
<1>2. ASSUME a # 0 PROVE Same(Prime, Inverse(a) * a, 1)
  <2>1. a \in 1 .. Prime - 1 /\ a \in Int
    BY <1>2, FieldFacts
  <2>2. PICK b \in Int : Same(Prime, b * a, 1)
    BY <2>1, FieldFacts, PrimeInverse
  <2> DEFINE c == b % Prime
  <2>3. c \in Field /\ c \in Int /\ Same(Prime, c, b)
    BY Reduced
  <2> HIDE DEF c
  <2>4. Same(Prime, c * a, b * a)
    BY <2>1, <2>3, FieldFacts, SameTimes
  <2>5. 1 % Prime = 1
    BY FieldFacts, FieldResidue
  <2>6. a * c = c * a
    BY <2>1, <2>3
  <2>7. (a * c) % Prime = 1
    BY <2>2, <2>4, <2>5, <2>6 DEF Same
  <2>8. Inverse(a) \in Field /\ (a * Inverse(a)) % Prime = 1
    BY <1>2, <2>3, <2>7 DEF Inverse
  <2>9. a * Inverse(a) = Inverse(a) * a
    BY <2>1, <2>8, FieldFacts
  <2> QED BY <2>5, <2>8, <2>9 DEF Same
<1> QED BY <1>1, <1>2

\* The slope is determined by what it is to the difference of the x coordinates.
LEMMA SlopeFacts ==
  ASSUME NEW p \in Coords, NEW g \in Coords, p[1] # g[1], NEW s \in Field,
         Same(Prime, s * (p[1] - g[1]), p[2] - g[2])
  PROVE  Slope(p, g) = s
<1> DEFINE a == g[1] - p[1]
           b == g[2] - p[2]
           d == a % Prime
           f == b % Prime
           i == Inverse(d)
           k == i * f
           t == k % Prime
<1>1. /\ p[1] \in Field /\ g[1] \in Field /\ p[1] \in Int /\ p[2] \in Int
      /\ g[1] \in Int /\ g[2] \in Int /\ s \in Int
  BY FieldFacts DEF Coords
<1>2. a \in Int /\ b \in Int
  BY <1>1
<1>3. d \in Field /\ d \in Int /\ f \in Field /\ f \in Int
      /\ Same(Prime, d, a) /\ Same(Prime, f, b)
  <2> HIDE DEF a, b
  <2> QED BY <1>2, Reduced
<1>4. d # 0
  <2> SUFFICES ASSUME d = 0 PROVE FALSE
    OBVIOUS
  <2>1. Same(Prime, a, 0)
    BY <1>3, FieldFacts, FieldResidue DEF Same
  <2>2. Same(Prime, p[1], p[1])
    BY DEF Same
  <2>3. a + p[1] = g[1] /\ 0 + p[1] = p[1]
    BY <1>1
  <2> HIDE DEF a
  <2>4. Same(Prime, a + p[1], 0 + p[1])
    BY <1>1, <1>2, <2>1, <2>2, FieldFacts, SamePlus
  <2> QED BY <1>1, <2>3, <2>4, SameField
<1>5. i \in Int /\ Same(Prime, i * d, 1)
  <2> HIDE DEF d
  <2> QED BY <1>3, <1>4, FieldFacts, InverseFacts
<1>6. Same(Prime, s * a, b)
  <2> DEFINE m == s * (p[1] - g[1])
             n == p[2] - g[2]
             o == 0
  <2>1. m \in Int /\ n \in Int /\ o \in Int /\ o - m = s * a /\ o - n = b
    BY <1>1
  <2>2. Same(Prime, m, n) /\ Same(Prime, o, o)
    BY DEF Same
  <2> HIDE DEF m, n, o, a, b
  <2>3. Same(Prime, o - m, o - n)
    BY <2>1, <2>2, FieldFacts, SameMinus
  <2> QED BY <2>1, <2>3
<1> HIDE DEF a, b, d, f, i
<1>7. k \in Int /\ t \in Field /\ t \in Int /\ Same(Prime, t, k)
  <2>1. k \in Int
    BY <1>3, <1>5
  <2> HIDE DEF k
  <2> QED BY <2>1, Reduced
<1>8. Same(Prime, k * d, f)
  <2> DEFINE u == i * d
             o == 1
  <2>1. u \in Int /\ o \in Int /\ Same(Prime, u, o) /\ u * f = k * d /\ o * f = f
    BY <1>3, <1>5
  <2> HIDE DEF u, o, k
  <2>2. Same(Prime, u * f, o * f)
    BY <1>3, <2>1, FieldFacts, SameTimes
  <2> QED BY <2>1, <2>2
<1> HIDE DEF k, t
<1>9. Same(Prime, t * d, f)
  <2>1. Same(Prime, t * d, k * d)
    BY <1>3, <1>7, FieldFacts, SameTimes
  <2> QED BY <1>8, <2>1 DEF Same
<1>10. Same(Prime, s * d, f)
  <2>1. Same(Prime, d * s, a * s)
    BY <1>1, <1>2, <1>3, FieldFacts, SameTimes
  <2>2. d * s = s * d /\ a * s = s * a
    BY <1>1, <1>2, <1>3
  <2> QED BY <1>3, <1>6, <2>1, <2>2 DEF Same
<1>11. Same(Prime, t, s)
  <2>1. Same(Prime, t * d, s * d)
    BY <1>9, <1>10 DEF Same
  <2> QED BY <1>1, <1>3, <1>4, <1>7, <2>1, CancelField
<1>12. t = s
  BY <1>7, <1>11, SameField
<1> QED BY <1>12 DEF Slope, t, k, i, f, d, a, b

LEMMA MoveOver ==
  ASSUME NEW a \in Int, NEW b \in Int, NEW c \in Int
  PROVE  Same(Prime, a - b, c) <=> Same(Prime, a, c + b)
<1> DEFINE u == a - b
           w == c + b
<1>1. u \in Int /\ w \in Int /\ u + b = a /\ w - b = c /\ Prime \in Nat \ {0}
  BY FieldFacts
<1>2. Same(Prime, b, b)
  BY DEF Same
<1> HIDE DEF u, w
<1>3. ASSUME Same(Prime, u, c) PROVE Same(Prime, a, w)
  <2>1. Same(Prime, u + b, c + b)
    BY <1>1, <1>2, <1>3, SamePlus
  <2> QED BY <1>1, <2>1 DEF w
<1>4. ASSUME Same(Prime, a, w) PROVE Same(Prime, u, c)
  <2>1. Same(Prime, a - b, w - b)
    BY <1>1, <1>2, <1>4, SameMinus
  <2> QED BY <1>1, <2>1 DEF u
<1> QED BY <1>3, <1>4 DEF u, w

LEMMA NotInfinity == \A p \in Coords : p # Infinity
<1> SUFFICES ASSUME NEW a \in Field, NEW b \in Field PROVE <<a, b>> # <<>>
  BY DEF Coords, Infinity
<1>1. Len(<<a, b>>) = 2 /\ Len(<<>>) = 0
  OBVIOUS
<1> QED BY <1>1

\* The formulas of PointAddProof are those of the chord.
LEMMA ChordFacts ==
  ASSUME NEW p \in Coords, NEW g \in Coords, p[1] # g[1], NEW r \in Coords
  PROVE  ChordTangent(p, g) = r <=> Adds(p, g, r)
<1> DEFINE d == p[1] - g[1]
           b == p[2] - g[2]
           t == d % Prime
           i == Inverse(t)
           k == b * i
           s == k % Prime
<1>1. /\ p[1] \in Field /\ g[1] \in Field /\ p[1] \in Int /\ p[2] \in Int
      /\ g[1] \in Int /\ g[2] \in Int /\ r[1] \in Field /\ r[2] \in Field
      /\ r[1] \in Int /\ r[2] \in Int /\ r = <<r[1], r[2]>>
  BY FieldFacts DEF Coords
<1>2. d \in Int /\ b \in Int
  BY <1>1
<1>3. t \in Field /\ t \in Int /\ Same(Prime, t, d)
  <2> HIDE DEF d
  <2> QED BY <1>2, Reduced
<1>4. t # 0
  <2> SUFFICES ASSUME t = 0 PROVE FALSE
    OBVIOUS
  <2> DEFINE o == 0
             c == g[1]
  <2>1. Same(Prime, d, o)
    BY <1>3, FieldFacts, FieldResidue DEF Same
  <2>2. c \in Int /\ o \in Int /\ p[1] - c = d /\ o + c = c /\ c \in Field
    BY <1>1
  <2> HIDE DEF d, c, o
  <2>3. Same(Prime, p[1], o + c)
    BY <1>1, <2>1, <2>2, MoveOver
  <2> QED BY <1>1, <2>2, <2>3, SameField DEF c
<1>5. i \in Int /\ Same(Prime, i * t, 1)
  <2> HIDE DEF t
  <2> QED BY <1>3, <1>4, FieldFacts, InverseFacts
<1>6. ChordTangent(p, g) = <<(s * s - p[1] - g[1]) % Prime,
                             (s * (p[1] - ((s * s - p[1] - g[1]) % Prime)) - p[2]) % Prime>>
  <2>1. p # Infinity /\ g # Infinity /\ p # g
    BY NotInfinity
  <2> QED BY <2>1 DEF ChordTangent
<1> HIDE DEF d, b, t, i
<1>7. k \in Int
  BY <1>2, <1>5
<1>8. s \in Field /\ s \in Int /\ Same(Prime, s, k)
  <2> HIDE DEF k
  <2> QED BY <1>7, Reduced
<1>9. Same(Prime, k * t, b)
  <2> DEFINE u == i * t
             o == 1
  <2>1. u \in Int /\ o \in Int /\ Same(Prime, u, o) /\ u * b = k * t /\ o * b = b
    BY <1>2, <1>3, <1>5
  <2> HIDE DEF u, o, k
  <2>2. Same(Prime, u * b, o * b)
    BY <1>2, <2>1, FieldFacts, SameTimes
  <2> QED BY <2>1, <2>2
<1> HIDE DEF k, s
<1>10. Same(Prime, s * d, b)
  <2>1. Same(Prime, s * t, k * t)
    BY <1>3, <1>7, <1>8, FieldFacts, SameTimes
  <2>2. Same(Prime, t * s, d * s)
    BY <1>2, <1>3, <1>8, FieldFacts, SameTimes
  <2>3. t * s = s * t /\ d * s = s * d
    BY <1>2, <1>3, <1>8
  <2> QED BY <1>9, <2>1, <2>2, <2>3 DEF Same
<1>11. Slope(p, g) = s
  BY <1>8, <1>10, SlopeFacts DEF d, b
<1> DEFINE h == s * s
           f == p[1] + g[1]
           y == s * (p[1] - r[1])
<1>12. h \in Int /\ f \in Int /\ y \in Int /\ h - f \in Int /\ y - p[2] \in Int
       /\ s * s - p[1] - g[1] = h - f /\ r[1] + p[1] + g[1] = r[1] + f
  BY <1>1, <1>8
<1>13. ChordTangent(p, g) = r <=> (h - f) % Prime = r[1] /\ (y - p[2]) % Prime = r[2]
  BY <1>1, <1>6, <1>12
<1>14. Adds(p, g, r) <=> Same(Prime, h, r[1] + f) /\ Same(Prime, y, r[2] + p[2])
  BY <1>11, <1>12 DEF Adds
<1> HIDE DEF h, f, y
<1>15. (h - f) % Prime = r[1] <=> Same(Prime, h, r[1] + f)
  <2>1. (h - f) % Prime = r[1] <=> Same(Prime, h - f, r[1])
    BY <1>1, <1>12, ResidueIs
  <2> QED BY <1>1, <1>12, <2>1, MoveOver
<1>16. (y - p[2]) % Prime = r[2] <=> Same(Prime, y, r[2] + p[2])
  <2>1. (y - p[2]) % Prime = r[2] <=> Same(Prime, y - p[2], r[2])
    BY <1>1, <1>12, ResidueIs
  <2>2. Same(Prime, y - p[2], r[2]) <=> Same(Prime, y, r[2] + p[2])
    BY <1>1, <1>12, MoveOver
  <2> QED BY <2>1, <2>2
<1> QED BY <1>13, <1>14, <1>15, <1>16

LEMMA PlusFacts ==
  ASSUME NEW a \in Coords, NEW b \in Coords
  PROVE  /\ Plus(a, b) \in Coords
         /\ Plus(a, b) = <<(a[1] + b[1]) % Prime, (a[2] + b[2]) % Prime>>
<1>1. a[1] \in Int /\ a[2] \in Int /\ b[1] \in Int /\ b[2] \in Int
  BY FieldFacts DEF Coords
<1>2. a[1] + b[1] \in Int /\ a[2] + b[2] \in Int
  BY <1>1
<1> QED BY <1>2, Reduced DEF Plus, Coords

LEMMA MinusFacts ==
  ASSUME NEW a \in Coords, NEW b \in Coords
  PROVE  /\ Minus(a, b) \in Coords
         /\ Minus(a, b) = <<(a[1] - b[1]) % Prime, (a[2] - b[2]) % Prime>>
<1>1. a[1] \in Int /\ a[2] \in Int /\ b[1] \in Int /\ b[2] \in Int
  BY FieldFacts DEF Coords
<1>2. \A x, y \in Int : (x + ((y * (-1)) % Prime)) % Prime = (x - y) % Prime
  <2> SUFFICES ASSUME NEW x \in Int, NEW y \in Int
               PROVE  (x + ((y * (-1)) % Prime)) % Prime = (x - y) % Prime
    OBVIOUS
  <2> DEFINE n == y * (-1)
             m == n % Prime
  <2>1. n \in Int /\ x + n = x - y
    OBVIOUS
  <2> HIDE DEF n
  <2>2. m \in Int /\ Same(Prime, m, n) /\ Same(Prime, x, x)
    BY <2>1, Reduced DEF Same
  <2> HIDE DEF m
  <2>3. Same(Prime, x + m, x + n)
    BY <2>1, <2>2, FieldFacts, SamePlus
  <2> QED BY <2>1, <2>3 DEF Same, m, n
<1>3. Minus(a, b) = <<(a[1] - b[1]) % Prime, (a[2] - b[2]) % Prime>>
  BY <1>1, <1>2 DEF Minus, Plus, Times
<1>4. a[1] - b[1] \in Int /\ a[2] - b[2] \in Int
  BY <1>1
<1> QED BY <1>3, <1>4, Reduced DEF Coords

\* Sums and differences determine their terms.
LEMMA SameTerm ==
  ASSUME NEW a \in Field, NEW b \in Field, NEW c \in Field
  PROVE  /\ (a + c) % Prime = (b + c) % Prime => a = b
         /\ (a - c) % Prime = (b - c) % Prime => a = b
         /\ (c - a) % Prime = (c - b) % Prime => a = b
<1>1. a \in Int /\ b \in Int /\ c \in Int /\ Prime \in Nat \ {0} /\ Same(Prime, c, c)
  BY FieldFacts DEF Same
<1> DEFINE u == a + c
           w == b + c
           f == a - c
           g == b - c
           h == c - a
           k == c - b
<1>2. /\ u \in Int /\ w \in Int /\ f \in Int /\ g \in Int /\ h \in Int /\ k \in Int
      /\ u - c = a /\ w - c = b /\ f + c = a /\ g + c = b /\ c - h = a /\ c - k = b
  BY <1>1
<1> HIDE DEF u, w, f, g, h, k
<1>3. ASSUME Same(Prime, u, w) PROVE a = b
  <2>1. Same(Prime, u - c, w - c)
    BY <1>1, <1>2, <1>3, SameMinus
  <2> QED BY <1>2, <2>1, SameField
<1>4. ASSUME Same(Prime, f, g) PROVE a = b
  <2>1. Same(Prime, f + c, g + c)
    BY <1>1, <1>2, <1>4, SamePlus
  <2> QED BY <1>2, <2>1, SameField
<1>5. ASSUME Same(Prime, h, k) PROVE a = b
  <2>1. Same(Prime, c - h, c - k)
    BY <1>1, <1>2, <1>5, SameMinus
  <2> QED BY <1>2, <2>1, SameField
<1> QED BY <1>3, <1>4, <1>5 DEF u, w, f, g, h, k, Same

LEMMA SamePoint ==
  ASSUME NEW a \in Coords, NEW b \in Coords, NEW c \in Coords
  PROVE  /\ Plus(a, c) = Plus(b, c) => a = b
         /\ Minus(a, c) = Minus(b, c) => a = b
         /\ Minus(c, a) = Minus(c, b) => a = b
<1>1. /\ a = <<a[1], a[2]>> /\ b = <<b[1], b[2]>> /\ a[1] \in Field /\ a[2] \in Field
      /\ b[1] \in Field /\ b[2] \in Field /\ c[1] \in Field /\ c[2] \in Field
  BY DEF Coords
<1>2. ASSUME Plus(a, c) = Plus(b, c) PROVE a = b
  <2>1. (a[1] + c[1]) % Prime = (b[1] + c[1]) % Prime /\ (a[2] + c[2]) % Prime = (b[2] + c[2]) % Prime
    BY <1>2, PlusFacts
  <2>2. a[1] = b[1] /\ a[2] = b[2]
    BY <1>1, <2>1, SameTerm
  <2> QED BY <1>1, <2>2
<1>3. ASSUME Minus(a, c) = Minus(b, c) PROVE a = b
  <2>1. (a[1] - c[1]) % Prime = (b[1] - c[1]) % Prime /\ (a[2] - c[2]) % Prime = (b[2] - c[2]) % Prime
    BY <1>3, MinusFacts
  <2>2. a[1] = b[1] /\ a[2] = b[2]
    BY <1>1, <2>1, SameTerm
  <2> QED BY <1>1, <2>2
<1>4. ASSUME Minus(c, a) = Minus(c, b) PROVE a = b
  <2>1. (c[1] - a[1]) % Prime = (c[1] - b[1]) % Prime /\ (c[2] - a[2]) % Prime = (c[2] - b[2]) % Prime
    BY <1>4, MinusFacts
  <2>2. a[1] = b[1] /\ a[2] = b[2]
    BY <1>1, <2>1, SameTerm
  <2> QED BY <1>1, <2>2
<1> QED BY <1>2, <1>3, <1>4

Altered(a) == {Plus(a, b) : b \in {BASE, PEDERSEN}}

LEMMA AlteredPoint ==
  ASSUME NEW a \in Coords, NEW z \in Altered(a)
  PROVE  z \in Coords /\ z # a
<1>1. a[1] \in Field /\ a[2] \in Field /\ BASE \in Coords /\ PEDERSEN \in Coords
  BY FieldFacts DEF Coords, BASE, PEDERSEN
<1>2. z \in Coords
  BY <1>1, PlusFacts DEF Altered
<1>3. z[1] = (a[1] + 1) % Prime \/ z[2] = (a[2] + 1) % Prime
  <2>1. PICK b \in {BASE, PEDERSEN} : z = Plus(a, b)
    BY DEF Altered
  <2>2. b \in Coords
    BY <1>1
  <2>3. z = <<(a[1] + b[1]) % Prime, (a[2] + b[2]) % Prime>>
    BY <2>1, <2>2, PlusFacts
  <2>4. b[1] = 1 \/ b[2] = 1
    BY DEF BASE, PEDERSEN
  <2> QED BY <2>3, <2>4
<1>4. ASSUME NEW c \in Field PROVE (c + 1) % Prime # c
  <2> SUFFICES ASSUME (c + 1) % Prime = c PROVE FALSE
    OBVIOUS
  <2>1. c \in Int /\ 1 + c = c + 1 /\ 0 + c = c
    BY FieldFacts
  <2>2. (1 + c) % Prime = (0 + c) % Prime
    BY <2>1, FieldResidue
  <2>3. 1 = 0
    BY <2>2, FieldFacts, SameTerm
  <2> QED BY <2>3
<1> QED BY <1>1, <1>2, <1>3, <1>4

\* What both ends derive of the six commitments determines each of them, the
\* others being given.
LEMMA DerivedFacts ==
  ASSUME NEW cs \in Commitments6, NEW i \in CoordinateFields, NEW z \in Altered(cs[i])
  PROVE  Derived([cs EXCEPT ![i] = z]) # Derived(cs)
<1> DEFINE al == [cs EXCEPT ![i] = z]
<1> SUFFICES ASSUME Derived(al) = Derived(cs) PROVE FALSE
  OBVIOUS
<1>1. /\ Minus(al.qx, al.px) = Minus(cs.qx, cs.px) /\ Minus(al.qy, al.py) = Minus(cs.qy, cs.py)
      /\ Minus(al.px, al.rx) = Minus(cs.px, cs.rx) /\ Plus(al.ry, al.py) = Plus(cs.ry, cs.py)
  <2>1. \A b : /\ Derived(b).c7 = Minus(b.qx, b.px) /\ Derived(b).c9 = Minus(b.qy, b.py)
               /\ Derived(b).c12 = Minus(b.px, b.rx) /\ Derived(b).y = Plus(b.ry, b.py)
    BY DEF Derived
  <2> HIDE DEF al
  <2> QED BY <2>1
<1>2. /\ cs.px \in Coords /\ cs.py \in Coords /\ cs.qx \in Coords /\ cs.qy \in Coords
      /\ cs.rx \in Coords /\ cs.ry \in Coords
  BY DEF Commitments6
<1>3. cs[i] \in Coords
  BY DEF Commitments6, CoordinateFields
<1>4. z \in Coords /\ z # cs[i]
  BY <1>3, AlteredPoint
<1>5. /\ al.px = IF i = "px" THEN z ELSE cs.px
      /\ al.py = IF i = "py" THEN z ELSE cs.py
      /\ al.qx = IF i = "qx" THEN z ELSE cs.qx
      /\ al.qy = IF i = "qy" THEN z ELSE cs.qy
      /\ al.rx = IF i = "rx" THEN z ELSE cs.rx
      /\ al.ry = IF i = "ry" THEN z ELSE cs.ry
  BY DEF Commitments6
<1> HIDE DEF al
<1>6. CASE i = "px"
  BY <1>1, <1>2, <1>4, <1>5, <1>6, SamePoint
<1>7. CASE i = "py"
  BY <1>1, <1>2, <1>4, <1>5, <1>7, SamePoint
<1>8. CASE i = "qx"
  BY <1>1, <1>2, <1>4, <1>5, <1>8, SamePoint
<1>9. CASE i = "qy"
  BY <1>1, <1>2, <1>4, <1>5, <1>9, SamePoint
<1>10. CASE i = "rx"
  BY <1>1, <1>2, <1>4, <1>5, <1>10, SamePoint
<1>11. CASE i = "ry"
  BY <1>1, <1>2, <1>4, <1>5, <1>11, SamePoint
<1> QED BY <1>6, <1>7, <1>8, <1>9, <1>10, <1>11 DEF CoordinateFields

LEMMA ProductParts ==
  ASSUME NEW cx, NEW cy, NEW cz, NEW x, NEW y, NEW z
  PROVE  /\ Product(cx, cy, cz, x, y, z).over = <<cx, cy, cz>>
         /\ Product(cx, cy, cz, x, y, z).fits <=>
              x = cx[1] /\ y = cy[1] /\ z = cz[1] /\ (x * y) % Prime = z
BY DEF Product

LEMMA EqualParts ==
  ASSUME NEW c1, NEW c2, NEW s
  PROVE  Equal(c1, c2, s).over = <<c1, c2>> /\ (Equal(c1, c2, s).fits <=> c1[1] = s /\ c2[1] = s)
BY DEF Equal

\* The values in what both ends derive.
LEMMA DerivedValues ==
  ASSUME NEW cs \in Commitments6
  PROVE  /\ Derived(cs).c7[1] = (cs.qx[1] - cs.px[1]) % Prime
         /\ Derived(cs).c9[1] = (cs.qy[1] - cs.py[1]) % Prime
         /\ Derived(cs).c12[1] = (cs.px[1] - cs.rx[1]) % Prime
         /\ Derived(cs).x[1] = (cs.rx[1] + cs.px[1] + cs.qx[1]) % Prime
         /\ Derived(cs).y[1] = (cs.ry[1] + cs.py[1]) % Prime
<1>1. /\ cs.px \in Coords /\ cs.py \in Coords /\ cs.qx \in Coords /\ cs.qy \in Coords
      /\ cs.rx \in Coords /\ cs.ry \in Coords
  BY DEF Commitments6
<1>2. ASSUME NEW a \in Coords, NEW b \in Coords
      PROVE  /\ a[1] \in Int /\ Minus(a, b)[1] = (a[1] - b[1]) % Prime
             /\ Plus(a, b)[1] = (a[1] + b[1]) % Prime /\ Plus(a, b) \in Coords
  <2>1. a[1] \in Int
    BY FieldFacts DEF Coords
  <2>2. Minus(a, b) = <<(a[1] - b[1]) % Prime, (a[2] - b[2]) % Prime>>
    BY MinusFacts
  <2> QED BY <2>1, <2>2, PlusFacts
<1>3. Derived(cs).c7[1] = (cs.qx[1] - cs.px[1]) % Prime
  BY <1>1, <1>2 DEF Derived
<1>4. Derived(cs).c9[1] = (cs.qy[1] - cs.py[1]) % Prime
  BY <1>1, <1>2 DEF Derived
<1>5. Derived(cs).c12[1] = (cs.px[1] - cs.rx[1]) % Prime
  BY <1>1, <1>2 DEF Derived
<1>6. Derived(cs).y[1] = (cs.ry[1] + cs.py[1]) % Prime
  BY <1>1, <1>2 DEF Derived
<1>7. Derived(cs).x[1] = (cs.rx[1] + cs.px[1] + cs.qx[1]) % Prime
  <2> DEFINE s == cs.rx[1] + cs.px[1]
             m == s % Prime
             t == cs.qx[1]
  <2>1. Plus(Plus(cs.rx, cs.px), cs.qx)[1] = (m + t) % Prime
    <3>1. Plus(cs.rx, cs.px) \in Coords /\ Plus(cs.rx, cs.px)[1] = m
      BY <1>1, <1>2
    <3> HIDE DEF m
    <3> QED BY <1>1, <1>2, <3>1
  <2>2. s \in Int /\ t \in Int
    <3>1. cs.rx[1] \in Int /\ cs.px[1] \in Int /\ cs.qx[1] \in Int
      BY <1>1, FieldFacts DEF Coords
    <3> QED BY <3>1
  <2> HIDE DEF s, t
  <2>3. m \in Int /\ Same(Prime, m, s) /\ Same(Prime, t, t)
    BY <2>2, Reduced DEF Same
  <2> HIDE DEF m
  <2>4. Same(Prime, m + t, s + t)
    BY <2>2, <2>3, FieldFacts, SamePlus
  <2>5. Derived(cs).x = Plus(Plus(cs.rx, cs.px), cs.qx)
    BY DEF Derived
  <2>6. Derived(cs).x[1] = (s + t) % Prime
    BY <2>1, <2>4, <2>5 DEF Same
  <2> QED BY <2>6 DEF s, t
<1> QED BY <1>3, <1>4, <1>5, <1>6, <1>7

\* An addition proof verifies when the points add up and what the verifier
\* derives of its commitments is what the prover has derived of its own.
LEMMA AdditionFacts ==
  ASSUME NEW p \in Coords, NEW g \in Coords, NEW r \in Coords, NEW d \in Randoms,
         NEW own \in Commitments6, NEW cs,
         own.px[1] = p[1], own.py[1] = p[2], own.qx[1] = g[1], own.qy[1] = g[2],
         own.rx[1] = r[1], own.ry[1] = r[2]
  PROVE  PointAddHolds(PointAdd(p, g, r, own, d), cs) <=>
           p[1] # g[1] /\ Adds(p, g, r) /\ Derived(cs) = Derived(own)
<1> DEFINE pr == PointAdd(p, g, r, own, d)
           aux7 == (g[1] - p[1]) % Prime
           aux8 == Inverse(aux7)
           aux9 == (g[2] - p[2]) % Prime
           aux10 == (aux8 * aux9) % Prime
           aux11 == (aux10 * aux10) % Prime
           aux12 == (p[1] - r[1]) % Prime
           aux13 == (aux10 * aux12) % Prime
           c == Derived(own)
           b == Derived(cs)
<1>1. /\ p[1] \in Int /\ p[2] \in Int /\ g[1] \in Int /\ g[2] \in Int /\ r[1] \in Int /\ r[2] \in Int
      /\ p[1] \in Field /\ g[1] \in Field /\ Prime \in Nat \ {0}
      /\ own.px \in Coords /\ own.py \in Coords /\ own.qx \in Coords /\ own.qy \in Coords
      /\ own.rx \in Coords /\ own.ry \in Coords
  BY FieldFacts DEF Coords, Commitments6
<1>2. g[1] - p[1] \in Int /\ g[2] - p[2] \in Int /\ p[1] - r[1] \in Int
  BY <1>1
<1>3. aux7 \in Field /\ aux9 \in Field /\ aux12 \in Field /\ Same(Prime, aux12, p[1] - r[1])
  BY <1>2, Reduced
<1>4. c.c7[1] = aux7 /\ c.c9[1] = aux9 /\ c.c12[1] = aux12
  BY DerivedValues
<1>5. c.x[1] = (r[1] + p[1] + g[1]) % Prime /\ c.y[1] = (r[2] + p[2]) % Prime
  BY DerivedValues
<1>6. aux7 = 0 <=> p[1] = g[1]
  <2> DEFINE z == 0
             h == g[1]
             f == p[1]
  <2>1. h \in Int /\ f \in Int /\ z \in Int /\ z + f = f /\ h \in Field /\ f \in Field /\ z \in Field
    BY <1>1, FieldFacts
  <2> HIDE DEF z, h, f
  <2>2. Same(Prime, h - f, z) <=> Same(Prime, h, f)
    BY <2>1, MoveOver
  <2>3. Same(Prime, h, f) <=> h = f
    BY <2>1, SameField DEF Same
  <2>4. h - f \in Int
    BY <2>1
  <2>5. (h - f) % Prime = z <=> Same(Prime, h - f, z)
    BY <2>1, <2>4, ResidueIs
  <2> QED BY <2>2, <2>3, <2>5 DEF z, h, f
<1>7. pr.c8 = Commit(aux8, d[1]) /\ pr.c10 = Commit(aux10, d[2])
      /\ pr.c11 = Commit(aux11, d[3]) /\ pr.c13 = Commit(aux13, d[4])
  BY DEF PointAdd
<1>8. /\ pr.mult8  = Product(c.c7, pr.c8, BASE, aux7, aux8, 1)
      /\ pr.mult10 = Product(pr.c8, c.c9, pr.c10, aux8, aux9, aux10)
      /\ pr.mult11 = Product(pr.c10, pr.c10, pr.c11, aux10, aux10, aux11)
      /\ pr.mult13 = Product(pr.c10, c.c12, pr.c13, aux10, aux12, aux13)
      /\ pr.equalX = Equal(pr.c11, c.x, aux11) /\ pr.equalY = Equal(pr.c13, c.y, aux13)
  BY DEF PointAdd
<1>9. Slope(p, g) = aux10
  BY DEF Slope
<1> HIDE DEF pr, c, b, aux7, aux9, aux12
<1>10. aux8 \in Field /\ aux8 \in Int /\ aux9 \in Int /\ aux12 \in Int
       /\ ((aux7 * aux8) % Prime = 1 <=> aux7 # 0)
  <2>1. aux8 \in Field /\ (aux7 # 0 => Same(Prime, aux8 * aux7, 1)) /\ (aux7 = 0 => aux8 = 0)
    BY <1>3, InverseFacts
  <2>2. aux7 \in Int /\ aux8 \in Int /\ aux9 \in Int /\ aux12 \in Int
    BY <1>3, <2>1, FieldFacts
  <2> HIDE DEF aux8
  <2>3. aux7 * aux8 = aux8 * aux7 /\ (aux7 = 0 => aux7 * aux8 = 0)
    BY <2>2
  <2>4. 0 % Prime = 0 /\ 1 % Prime = 1
    BY FieldFacts, FieldResidue
  <2>5. (aux7 * aux8) % Prime = 1 <=> aux7 # 0
    BY <2>1, <2>3, <2>4 DEF Same
  <2> QED BY <2>1, <2>2, <2>5
<1> HIDE DEF aux8
<1>11. aux10 \in Field /\ aux10 \in Int
  <2>1. aux8 * aux9 \in Int
    BY <1>10
  <2> QED BY <2>1, Reduced
<1> HIDE DEF aux10
<1>12. aux11 \in Field /\ aux13 \in Field
  <2>1. aux10 * aux10 \in Int /\ aux10 * aux12 \in Int
    BY <1>10, <1>11
  <2> QED BY <2>1, Reduced
<1>13. /\ Commit(aux8, d[1])[1] = aux8 /\ Commit(aux10, d[2])[1] = aux10
       /\ Commit(aux11, d[3])[1] = aux11 /\ Commit(aux13, d[4])[1] = aux13
  <2> HIDE DEF aux11, aux13
  <2> QED BY <1>10, <1>11, <1>12, FieldResidue DEF Commit
<1> HIDE DEF aux11, aux13
<1>14. /\ pr.mult8.fits <=> p[1] # g[1]
       /\ pr.mult10.fits /\ pr.mult11.fits /\ pr.mult13.fits
  <2>1. pr.mult8.fits <=> /\ aux7 = c.c7[1] /\ aux8 = pr.c8[1] /\ 1 = BASE[1]
                          /\ (aux7 * aux8) % Prime = 1
    BY <1>8, ProductParts
  <2>2. pr.mult8.fits <=> aux7 # 0
    BY <1>4, <1>7, <1>10, <1>13, <2>1 DEF BASE
  <2>3. pr.mult10.fits
    BY <1>4, <1>7, <1>8, <1>13, ProductParts DEF aux10
  <2>4. pr.mult11.fits
    BY <1>4, <1>7, <1>8, <1>13, ProductParts DEF aux11
  <2>5. pr.mult13.fits
    BY <1>4, <1>7, <1>8, <1>13, ProductParts DEF aux13
  <2> QED BY <1>6, <2>2, <2>3, <2>4, <2>5
<1>15. /\ pr.equalX.fits <=> aux11 = (r[1] + p[1] + g[1]) % Prime
       /\ pr.equalY.fits <=> aux13 = (r[2] + p[2]) % Prime
  <2>1. pr.equalX.fits <=> pr.c11[1] = aux11 /\ c.x[1] = aux11
    BY <1>8, EqualParts
  <2>2. pr.equalY.fits <=> pr.c13[1] = aux13 /\ c.y[1] = aux13
    BY <1>8, EqualParts
  <2> QED BY <1>5, <1>7, <1>13, <2>1, <2>2
<1>16. Adds(p, g, r) <=> pr.equalX.fits /\ pr.equalY.fits
  <2> DEFINE m == aux12 * aux10
             n == (p[1] - r[1]) * aux10
  <2>1. Same(Prime, m, n)
    BY <1>2, <1>3, <1>10, <1>11, <1>1, SameTimes
  <2>2. aux10 * aux12 = m /\ aux10 * (p[1] - r[1]) = n
    BY <1>1, <1>10, <1>11
  <2> HIDE DEF m, n
  <2> QED BY <1>9, <1>15, <2>1, <2>2 DEF Adds, Same, aux11, aux13
<1>17. /\ pr.mult8.over = <<c.c7, pr.c8, BASE>> /\ pr.mult10.over = <<pr.c8, c.c9, pr.c10>>
       /\ pr.mult11.over = <<pr.c10, pr.c10, pr.c11>> /\ pr.mult13.over = <<pr.c10, c.c12, pr.c13>>
       /\ pr.equalX.over = <<pr.c11, c.x>> /\ pr.equalY.over = <<pr.c13, c.y>>
  BY <1>8, ProductParts, EqualParts
<1>18. b = c <=> b.c7 = c.c7 /\ b.c9 = c.c9 /\ b.c12 = c.c12 /\ b.x = c.x /\ b.y = c.y
  BY DEF Derived, b, c
<1>19. PointAddHolds(pr, cs) <=>
         /\ pr.mult8.fits /\ pr.mult8.over = <<b.c7, pr.c8, BASE>>
         /\ pr.mult10.fits /\ pr.mult10.over = <<pr.c8, b.c9, pr.c10>>
         /\ pr.mult11.fits /\ pr.mult11.over = <<pr.c10, pr.c10, pr.c11>>
         /\ pr.mult13.fits /\ pr.mult13.over = <<pr.c10, b.c12, pr.c13>>
         /\ pr.equalX.fits /\ pr.equalX.over = <<pr.c11, b.x>>
         /\ pr.equalY.fits /\ pr.equalY.over = <<pr.c13, b.y>>
  BY DEF PointAddHolds, b
<1>20. PointAddHolds(pr, cs) <=> p[1] # g[1] /\ Adds(p, g, r) /\ b = c
  BY <1>14, <1>16, <1>17, <1>18, <1>19
<1> QED BY <1>20 DEF pr, b, c

-----------------------------------------------------------------------------
(* The invariant of CommitmentProofs: which values the proof shown is made of, *)
(* and that a verdict is that of the relations.                                *)

EqualityMade ==
  \E v, w \in Values, d \in Draws :
    /\ over = <<Commit(v, d[8]), Commit(w, d[9])>> /\ truth = (v = w)
    /\ shown = Equality(Commit(v, d[8]), Commit(w, d[9]), v, d, e)

MultiplicationMade ==
  \E x, y, z \in Values, d \in Draws :
    /\ over = <<Commit(x, d[8]), Commit(y, d[9]), Commit(z, d[10])>>
    /\ truth = ((x * y) % Prime = z)
    /\ shown = Multiplication(Commit(x, d[8]), Commit(y, d[9]), Commit(z, d[10]), x, y, z, d, e)

AdditionMade ==
  \E s \in Sums, d \in Draws :
    /\ over = Coordinates(s[1], s[2], s[3], SubSeq(d, 5, 10))
    /\ truth = (s[1][1] # s[2][1] /\ ChordTangent(s[1], s[2]) = s[3])
    /\ shown = PointAdd(s[1], s[2], s[3], over, d)

Judged ==
  /\ checked.over \in Neighbours /\ checked.e \in Field
  /\ checked.over = over \/ kind = "addition" => checked.e = e
  /\ checked.outcome = IF Holds(kind, shown, checked.over, checked.e) THEN "ok" ELSE "refused"

CommitIInv ==
  /\ kind \in {"none", "equality", "multiplication", "addition"} /\ e \in Field
  /\ kind = "none" => checked.outcome = "none"
  /\ kind = "equality" => EqualityMade
  /\ kind = "multiplication" => MultiplicationMade
  /\ kind = "addition" => AdditionMade
  /\ checked.outcome # "none" => Judged

LEMMA CommitInitial == CommitInit => CommitIInv
BY FieldFacts DEF CommitInit, CommitIInv

LEMMA CommitInductive == CommitIInv /\ [CommitNext]_commitVars => CommitIInv'
<1> SUFFICES ASSUME CommitIInv, [CommitNext]_commitVars PROVE CommitIInv'
  OBVIOUS
<1>1. CASE EqualityConstruct
  <2>1. /\ kind = "none" /\ kind' = "equality" /\ checked' = checked /\ e' \in Field /\ EqualityMade'
    BY <1>1 DEF EqualityConstruct, Constructed, EqualityMade
  <2> QED BY <2>1 DEF CommitIInv
<1>2. CASE MultiplicationConstruct
  <2>1. /\ kind = "none" /\ kind' = "multiplication" /\ checked' = checked /\ e' \in Field
        /\ MultiplicationMade'
    BY <1>2 DEF MultiplicationConstruct, Constructed, MultiplicationMade
  <2> QED BY <2>1 DEF CommitIInv
<1>3. CASE PointAddConstruct
  <2>1. /\ kind = "none" /\ kind' = "addition" /\ checked' = checked /\ e' = 0 /\ AdditionMade'
    BY <1>3 DEF PointAddConstruct, Constructed, AdditionMade
  <2> QED BY <2>1, FieldFacts DEF CommitIInv
<1>4. CASE CommitVerify
  <2>1. /\ kind # "none" /\ kind' = kind /\ over' = over /\ truth' = truth /\ shown' = shown /\ e' = e
    BY <1>4 DEF CommitVerify
  <2>2. PICK cs \in Neighbours : \E c \in IF cs = over \/ kind = "addition" THEN {e} ELSE Field :
          checked' = [over |-> cs, e |-> c,
                      outcome |-> IF Holds(kind, shown, cs, c) THEN "ok" ELSE "refused"]
    BY <1>4 DEF CommitVerify
  <2>3. PICK c \in IF cs = over \/ kind = "addition" THEN {e} ELSE Field :
          checked' = [over |-> cs, e |-> c,
                      outcome |-> IF Holds(kind, shown, cs, c) THEN "ok" ELSE "refused"]
    BY <2>2
  <2>4. /\ checked'.over = cs /\ checked'.e = c
        /\ checked'.outcome = IF Holds(kind, shown, cs, c) THEN "ok" ELSE "refused"
    BY <2>3
  <2>5. c \in Field /\ (cs = over \/ kind = "addition" => c = e)
    BY DEF CommitIInv
  <2>6. Neighbours' = Neighbours /\ Holds(kind', shown', cs, c) = Holds(kind, shown, cs, c)
    BY <2>1 DEF Neighbours
  <2>7. Judged'
    BY <2>1, <2>4, <2>5, <2>6 DEF Judged
  <2>8. /\ kind = "equality" => EqualityMade'
        /\ kind = "multiplication" => MultiplicationMade'
        /\ kind = "addition" => AdditionMade'
    BY <2>1 DEF CommitIInv, EqualityMade, MultiplicationMade, AdditionMade
  <2> QED BY <2>1, <2>7, <2>8 DEF CommitIInv
<1>5. CASE UNCHANGED commitVars
  BY <1>5 DEF commitVars, CommitIInv, EqualityMade, MultiplicationMade, AdditionMade, Judged, Neighbours
<1> QED BY <1>1, <1>2, <1>3, <1>4, <1>5 DEF CommitNext

LEMMA DrawFacts ==
  ASSUME CommitAssumption
  PROVE  /\ Values \subseteq Field /\ Draws \subseteq Randoms
         /\ \A d \in Draws : d[8] \in Field /\ d[9] \in Field /\ d[10] \in Field
<1>1. Values \subseteq Field /\ Draws \subseteq Randoms
  BY DEF CommitAssumption, Randoms
<1> QED BY <1>1, RandomFacts

LEMMA PairNeighbours ==
  ASSUME NEW a \in Coords, NEW b \in Coords, over = <<a, b>>, NEW cs \in Neighbours
  PROVE  cs[1] \in Coords /\ cs[2] \in Coords /\ DOMAIN cs = 1 .. 2
<1>1. CASE cs = over
  BY <1>1
<1>2. CASE cs # over
  <2>1. PICK i \in DOMAIN over, z \in {BASE, PEDERSEN} : cs = [over EXCEPT ![i] = Plus(@, z)]
    BY <1>2 DEF Neighbours
  <2>2. Plus(a, z) \in Coords /\ Plus(b, z) \in Coords
    BY AlteredPoint DEF Altered
  <2>3. i \in {1, 2} /\ cs = <<IF i = 1 THEN Plus(a, z) ELSE a, IF i = 2 THEN Plus(b, z) ELSE b>>
    BY <2>1
  <2> QED BY <2>2, <2>3
<1> QED BY <1>1, <1>2

LEMMA TripleNeighbours ==
  ASSUME NEW a \in Coords, NEW b \in Coords, NEW c \in Coords, over = <<a, b, c>>, NEW cs \in Neighbours
  PROVE  cs[1] \in Coords /\ cs[2] \in Coords /\ cs[3] \in Coords /\ DOMAIN cs = 1 .. 3
<1>1. CASE cs = over
  BY <1>1
<1>2. CASE cs # over
  <2>1. PICK i \in DOMAIN over, z \in {BASE, PEDERSEN} : cs = [over EXCEPT ![i] = Plus(@, z)]
    BY <1>2 DEF Neighbours
  <2>2. Plus(a, z) \in Coords /\ Plus(b, z) \in Coords /\ Plus(c, z) \in Coords
    BY AlteredPoint DEF Altered
  <2>3. i \in {1, 2, 3} /\ cs = <<IF i = 1 THEN Plus(a, z) ELSE a, IF i = 2 THEN Plus(b, z) ELSE b,
                                   IF i = 3 THEN Plus(c, z) ELSE c>>
    BY <2>1
  <2> QED BY <2>2, <2>3
<1> QED BY <1>1, <1>2

\* What CommitmentProofsDecide says of a verdict.
Decides == /\ checked.over = over /\ truth => checked.outcome = "ok"
           /\ checked.outcome = "ok" =>
                \/ truth /\ checked.over = over
                \/ /\ kind # "addition"
                   /\ IF checked.over = over
                        THEN e = 0
                        ELSE \/ \A i \in DOMAIN checked.over : checked.over[i] = NOTHING
                             \/ \A c \in Field : Holds(kind, shown, checked.over, c) => c = checked.e

LEMMA EqualityDecides ==
  ASSUME CommitAssumption, CommitIInv, kind = "equality", checked.outcome # "none"
  PROVE  Decides
<1>1. PICK v, w \in Values, d \in Draws :
        /\ over = <<Commit(v, d[8]), Commit(w, d[9])>> /\ truth = (v = w)
        /\ shown = Equality(Commit(v, d[8]), Commit(w, d[9]), v, d, e)
  BY DEF CommitIInv, EqualityMade
<1> DEFINE a == <<v, d[8]>>
           b == <<w, d[9]>>
           cs == checked.over
<1>2. /\ v \in Field /\ w \in Field /\ d \in Randoms /\ e \in Field
      /\ d[8] \in Field /\ d[9] \in Field /\ Judged
  BY DrawFacts DEF CommitIInv
<1>3. /\ Commit(v, d[8]) = a /\ Commit(w, d[9]) = b /\ a \in Coords /\ b \in Coords
      /\ a[1] = v /\ a[2] = d[8] /\ b[1] = w /\ b[2] = d[9]
  BY <1>2, CommitFacts
<1>4. over = <<a, b>> /\ shown = Equality(a, b, v, d, e) /\ (truth <=> v = w)
  BY <1>1, <1>3
<1> HIDE DEF a, b, cs
<1>5. cs \in Neighbours /\ checked.e \in Field /\ (cs = over => checked.e = e)
      /\ (checked.outcome = "ok" <=> Holds(kind, shown, cs, checked.e))
  BY <1>2 DEF Judged, cs
<1>6. cs[1] \in Coords /\ cs[2] \in Coords /\ DOMAIN cs = 1 .. 2
  BY <1>3, <1>4, <1>5, PairNeighbours
<1>7. \A c \in Field : Holds(kind, shown, cs, c) <=>
        Answers(cs[1], c, e, v, a[2]) /\ Answers(cs[2], c, e, v, b[2])
  BY <1>2, <1>3, <1>4, <1>6, EqualityAnswers DEF Holds
<1>8. ASSUME cs = over, truth PROVE checked.outcome = "ok"
  <2>1. cs[1] = a /\ cs[2] = b /\ v = w /\ checked.e = e
    BY <1>4, <1>5, <1>8
  <2>2. Answers(cs[1], e, e, v, a[2]) /\ Answers(cs[2], e, e, v, b[2])
    BY <1>2, <1>3, <2>1, OwnAnswer
  <2> QED BY <1>2, <1>5, <1>7, <2>1, <2>2
<1>9. ASSUME cs = over, ~truth, checked.outcome = "ok" PROVE e = 0
  <2>1. cs[2] = b /\ v # w /\ checked.e = e
    BY <1>4, <1>5, <1>9
  <2>2. Answers(b, e, e, v, b[2])
    BY <1>2, <1>5, <1>7, <1>9, <2>1
  <2>3. e = 0 \/ b[1] = v
    BY <1>2, <1>3, <2>2, OtherValue
  <2> QED BY <1>3, <2>1, <2>3
<1>10. ASSUME checked.outcome = "ok", NEW c \in Field, Holds(kind, shown, cs, c), c # checked.e
       PROVE  \A i \in DOMAIN cs : cs[i] = NOTHING
  <2>1. /\ Answers(cs[1], c, e, v, a[2]) /\ Answers(cs[2], c, e, v, b[2])
        /\ Answers(cs[1], checked.e, e, v, a[2]) /\ Answers(cs[2], checked.e, e, v, b[2])
    BY <1>5, <1>7, <1>10
  <2>2. cs[1] = NOTHING /\ cs[2] = NOTHING
    BY <1>5, <1>6, <1>10, <2>1, TwoChallenges
  <2> QED BY <1>6, <2>2
<1> QED BY <1>8, <1>9, <1>10 DEF Decides, cs

LEMMA MultiplicationDecides ==
  ASSUME CommitAssumption, CommitIInv, kind = "multiplication", checked.outcome # "none"
  PROVE  Decides
<1>1. PICK x, y, z \in Values, d \in Draws :
        /\ over = <<Commit(x, d[8]), Commit(y, d[9]), Commit(z, d[10])>>
        /\ truth = ((x * y) % Prime = z)
        /\ shown = Multiplication(Commit(x, d[8]), Commit(y, d[9]), Commit(z, d[10]), x, y, z, d, e)
  BY DEF CommitIInv, MultiplicationMade
<1> DEFINE cx == <<x, d[8]>>
           cy == <<y, d[9]>>
           cz == <<z, d[10]>>
           cs == checked.over
           c4 == Times(cy, x)
           t  == cy[2] * x
           m  == d[1]
<1>2. /\ x \in Field /\ y \in Field /\ z \in Field /\ d \in Randoms /\ e \in Field /\ m \in Field
      /\ d[8] \in Field /\ d[9] \in Field /\ d[10] \in Field /\ Judged
  BY DrawFacts, RandomFacts DEF CommitIInv
<1>3. /\ Commit(x, d[8]) = cx /\ Commit(y, d[9]) = cy /\ Commit(z, d[10]) = cz
      /\ cx \in Coords /\ cy \in Coords /\ cz \in Coords
      /\ cx[1] = x /\ cx[2] = d[8] /\ cy[1] = y /\ cy[2] = d[9] /\ cz[1] = z /\ cz[2] = d[10]
  BY <1>2, CommitFacts
<1>4. over = <<cx, cy, cz>> /\ shown = Multiplication(cx, cy, cz, x, y, z, d, e)
      /\ (truth <=> (x * y) % Prime = z)
  BY <1>1, <1>3
<1> HIDE DEF cx, cy, cz, cs
<1>5. cs \in Neighbours /\ checked.e \in Field /\ (cs = over => checked.e = e)
      /\ (checked.outcome = "ok" <=> Holds(kind, shown, cs, checked.e))
  BY <1>2 DEF Judged, cs
<1>6. cs[1] \in Coords /\ cs[2] \in Coords /\ cs[3] \in Coords /\ DOMAIN cs = 1 .. 3
  BY <1>3, <1>4, <1>5, TripleNeighbours
<1>7. \A c \in Field : Holds(kind, shown, cs, c) <=>
        /\ Answers(cs[1], c, e, x, cx[2]) /\ Answers(cs[2], c, e, y, cy[2])
        /\ Answers(cs[3], c, e, z, cz[2]) /\ Answers(c4, c, e, z, t)
        /\ Plus(Times(cs[2], m - e * x), Times(c4, c)) = Times(cy, m)
  <2>1. \A c \in Field : MultiplicationHolds(Multiplication(cx, cy, cz, x, y, z, d, e), cs, c) <=>
          MultiplicationRelations(cx, cy, cz, x, y, z, m, e, cs, c)
    BY <1>2, <1>3, <1>6, MultiplicationAnswers
  <2>2. \A c : Holds(kind, shown, cs, c) <=>
                 MultiplicationHolds(Multiplication(cx, cy, cz, x, y, z, d, e), cs, c)
    BY <1>4 DEF Holds
  <2> QED BY <2>1, <2>2 DEF MultiplicationRelations
<1>8. c4 \in Coords /\ c4[1] = (x * y) % Prime /\ c4[2] = t % Prime /\ t \in Int
  <2>1. cy[1] * x \in Int /\ cy[2] * x \in Int /\ cy[1] * x = x * y
    BY <1>2, <1>3, FieldFacts
  <2> QED BY <2>1, Reduced DEF Times, Coords
<1> HIDE DEF c4, t, m
<1>9. ASSUME cs = over, truth PROVE checked.outcome = "ok"
  <2>1. cs[1] = cx /\ cs[2] = cy /\ cs[3] = cz /\ c4[1] = z /\ checked.e = e
    BY <1>4, <1>5, <1>8, <1>9
  <2>2. /\ Answers(cs[1], e, e, x, cx[2]) /\ Answers(cs[2], e, e, y, cy[2])
        /\ Answers(cs[3], e, e, z, cz[2])
    BY <1>2, <1>3, <2>1, OwnAnswer
  <2>3. Answers(c4, e, e, z, t)
    <3> DEFINE u == t % Prime
    <3>1. Answers(c4, e, e, z, u)
      BY <1>2, <1>8, <2>1, OwnAnswer
    <3>2. u \in Int /\ Same(Prime, u, t) /\ e \in Int
      BY <1>2, <1>8, Reduced, FieldFacts
    <3> HIDE DEF u
    <3>3. Same(Prime, u * e, t * e)
      BY <1>8, <3>2, FieldFacts, SameTimes
    <3>4. u * e = e * u /\ t * e = e * t
      BY <1>8, <3>2
    <3> QED BY <3>1, <3>3, <3>4 DEF Answers, Same
  <2>4. Plus(Times(cs[2], m - e * x), Times(c4, e)) = Times(cy, m)
    BY <1>2, <1>3, <2>1, LastRelation DEF c4
  <2> QED BY <1>2, <1>5, <1>7, <2>1, <2>2, <2>3, <2>4
<1>10. ASSUME cs = over, ~truth, checked.outcome = "ok" PROVE e = 0
  <2>1. Answers(c4, e, e, z, t)
    BY <1>2, <1>5, <1>7, <1>10
  <2>2. e = 0 \/ c4[1] = z
    BY <1>2, <1>8, <2>1, OtherValue
  <2> QED BY <1>4, <1>8, <1>10, <2>2
<1>11. ASSUME checked.outcome = "ok", NEW c \in Field, Holds(kind, shown, cs, c), c # checked.e
       PROVE  \A i \in DOMAIN cs : cs[i] = NOTHING
  <2>1. /\ Answers(cs[1], c, e, x, cx[2]) /\ Answers(cs[1], checked.e, e, x, cx[2])
        /\ Answers(cs[2], c, e, y, cy[2]) /\ Answers(cs[2], checked.e, e, y, cy[2])
        /\ Answers(cs[3], c, e, z, cz[2]) /\ Answers(cs[3], checked.e, e, z, cz[2])
    BY <1>5, <1>7, <1>11
  <2>2. cs[1] = NOTHING /\ cs[2] = NOTHING /\ cs[3] = NOTHING
    BY <1>5, <1>6, <1>11, <2>1, TwoChallenges
  <2> QED BY <1>6, <2>2
<1> QED BY <1>9, <1>10, <1>11 DEF Decides, cs

LEMMA CoordinatesFacts ==
  ASSUME NEW p \in Coords, NEW g \in Coords, NEW r \in Coords, NEW d \in Randoms
  PROVE  LET cs == Coordinates(p, g, r, SubSeq(d, 5, 10))
         IN  /\ cs \in Commitments6
             /\ cs.px[1] = p[1] /\ cs.py[1] = p[2] /\ cs.qx[1] = g[1] /\ cs.qy[1] = g[2]
             /\ cs.rx[1] = r[1] /\ cs.ry[1] = r[2]
<1> DEFINE f == SubSeq(d, 5, 10)
           cs == Coordinates(p, g, r, f)
<1>1. \A i \in 1 .. 6 : f[i] \in Field
  BY DEF Randoms
<1>2. /\ f[1] \in Field /\ f[2] \in Field /\ f[3] \in Field /\ f[4] \in Field /\ f[5] \in Field
      /\ f[6] \in Field /\ p[1] \in Field /\ p[2] \in Field /\ g[1] \in Field /\ g[2] \in Field
      /\ r[1] \in Field /\ r[2] \in Field
  BY <1>1 DEF Coords
<1> HIDE DEF f
<1>3. \A a, b \in Field : Commit(a, b) \in Coords /\ Commit(a, b)[1] = a
  <2> SUFFICES ASSUME NEW a \in Field, NEW b \in Field
               PROVE  Commit(a, b) \in Coords /\ Commit(a, b)[1] = a
    OBVIOUS
  <2>1. Commit(a, b) \in Coords /\ Commit(a, b) = <<a, b>>
    BY CommitFacts
  <2> QED BY <2>1
<1>4. cs = [px |-> Commit(p[1], f[1]), py |-> Commit(p[2], f[2]), qx |-> Commit(g[1], f[3]),
            qy |-> Commit(g[2], f[4]), rx |-> Commit(r[1], f[5]), ry |-> Commit(r[2], f[6])]
  BY DEF Coordinates
<1> HIDE DEF cs
<1>5. cs \in Commitments6
  BY <1>2, <1>3, <1>4 DEF Commitments6
<1>6. /\ cs.px[1] = p[1] /\ cs.py[1] = p[2] /\ cs.qx[1] = g[1] /\ cs.qy[1] = g[2]
      /\ cs.rx[1] = r[1] /\ cs.ry[1] = r[2]
  BY <1>2, <1>3, <1>4
<1> QED BY <1>5, <1>6 DEF cs, f

LEMMA AdditionDecides ==
  ASSUME CommitAssumption, CommitIInv, kind = "addition", checked.outcome # "none"
  PROVE  Decides
<1>1. PICK s \in Sums, d \in Draws :
        /\ over = Coordinates(s[1], s[2], s[3], SubSeq(d, 5, 10))
        /\ truth = (s[1][1] # s[2][1] /\ ChordTangent(s[1], s[2]) = s[3])
        /\ shown = PointAdd(s[1], s[2], s[3], over, d)
  BY DEF CommitIInv, AdditionMade
<1> DEFINE p == s[1]
           g == s[2]
           r == s[3]
           cs == checked.over
<1>2. p \in Coords /\ g \in Coords /\ r \in Coords /\ d \in Randoms /\ Judged
  <2>1. s \in Coords \X Coords \X Coords
    BY DEF CommitAssumption, Coords
  <2> QED BY <2>1, DrawFacts DEF CommitIInv
<1>3. shown = PointAdd(p, g, r, over, d)
  BY <1>1
<1>4. truth <=> p[1] # g[1] /\ ChordTangent(p, g) = r
  BY <1>1
<1>5. over = Coordinates(p, g, r, SubSeq(d, 5, 10))
  BY <1>1
<1> HIDE DEF p, g, r, cs
<1>6. /\ over \in Commitments6
      /\ over.px[1] = p[1] /\ over.py[1] = p[2] /\ over.qx[1] = g[1] /\ over.qy[1] = g[2]
      /\ over.rx[1] = r[1] /\ over.ry[1] = r[2]
  BY <1>2, <1>5, CoordinatesFacts
<1>7. cs \in Neighbours /\ (checked.outcome = "ok" <=> Holds(kind, shown, cs, checked.e))
  BY <1>2 DEF Judged, cs
<1>8. Holds(kind, shown, cs, checked.e) <=>
        p[1] # g[1] /\ Adds(p, g, r) /\ Derived(cs) = Derived(over)
  <2>1. Holds(kind, shown, cs, checked.e) <=> PointAddHolds(PointAdd(p, g, r, over, d), cs)
    BY <1>3 DEF Holds
  <2>2. PointAddHolds(PointAdd(p, g, r, over, d), cs) <=>
          p[1] # g[1] /\ Adds(p, g, r) /\ Derived(cs) = Derived(over)
    BY <1>2, <1>6, AdditionFacts
  <2> QED BY <2>1, <2>2
<1>9. truth <=> p[1] # g[1] /\ Adds(p, g, r)
  BY <1>2, <1>4, ChordFacts
<1>10. Derived(cs) = Derived(over) => cs = over
  <2> SUFFICES ASSUME cs # over PROVE Derived(cs) # Derived(over)
    OBVIOUS
  <2>1. PICK i \in DOMAIN over, z \in {BASE, PEDERSEN} : cs = [over EXCEPT ![i] = Plus(@, z)]
    BY <1>7 DEF Neighbours
  <2>2. i \in CoordinateFields
    BY <1>6 DEF Commitments6, CoordinateFields
  <2>3. cs = [over EXCEPT ![i] = Plus(over[i], z)]
    BY <2>1
  <2>4. Plus(over[i], z) \in Altered(over[i])
    BY DEF Altered
  <2> QED BY <1>6, <2>2, <2>3, <2>4, DerivedFacts
<1> QED BY <1>7, <1>8, <1>9, <1>10 DEF Decides, cs

LEMMA CommitmentsDecided == CommitAssumption /\ CommitIInv => CommitmentProofsDecide
<1> SUFFICES ASSUME CommitAssumption, CommitIInv PROVE CommitmentProofsDecide
  OBVIOUS
<1>1. ASSUME checked.outcome # "none" PROVE Decides
  <2>1. kind \in {"equality", "multiplication", "addition"}
    BY <1>1 DEF CommitIInv
  <2> QED BY <1>1, <2>1, EqualityDecides, MultiplicationDecides, AdditionDecides
<1>2. TrueProofsVerify
  BY <1>1 DEF TrueProofsVerify, Decides
<1>3. OthersRefused
  BY <1>1 DEF OthersRefused, Decides
<1> QED BY <1>2, <1>3 DEF CommitmentProofsDecide

\* Proofs that commitments hide equal values, a product, or the coordinates of
\* three points that add up verify when that is so, prover and verifier deriving
\* the same commitments; otherwise, and for altered commitments, they are refused
\* but by one challenge, and additions always (equality.rs, multiplication.rs,
\* point_add.rs): over every prime field, for all values, randomness and points.
THEOREM CommitmentsDecide == ASSUME CommitAssumption PROVE CommitSpec => []CommitmentProofsDecide
<1>1. CommitInit => CommitIInv
  BY CommitInitial
<1>2. CommitIInv /\ [CommitNext]_commitVars => CommitIInv'
  BY CommitInductive
<1>3. CommitIInv => CommitmentProofsDecide
  BY CommitmentsDecided
<1> QED BY <1>1, <1>2, <1>3, PTL DEF CommitSpec

-----------------------------------------------------------------------------
(* The multiples of the generator. *)

LEMMA OddOrder ==
  /\ Order \in Nat \ {0} /\ Order % 2 = 1 /\ Scalar = 0 .. Order - 1 /\ 0 \in Scalar
  /\ Scalar \subseteq Int /\ Scalar \subseteq Nat
<1>1. Order \in Nat /\ Order % 2 = 1
  BY GeneratorAssumption
<1>2. Order # 0
  <2> SUFFICES ASSUME Order = 0 PROVE FALSE
    OBVIOUS
  <2>1. 0 % 2 = 0
    OBVIOUS
  <2> QED BY <1>1, <2>1
<1> QED BY <1>1, <1>2 DEF Scalar

LEMMA ToScalar ==
  ASSUME NEW a \in Int
  PROVE  a % Order \in Scalar /\ a % Order \in Int /\ Same(Order, a % Order, a)
BY OddOrder, ModRange, SameRefl

LEMMA ScalarIs ==
  ASSUME NEW a \in Scalar
  PROVE  a % Order = a
<1>1. Order \in Nat \ {0} /\ a \in 0 .. Order - 1
  BY OddOrder
<1> QED BY <1>1, ModSmall

LEMMA EqualScalars ==
  ASSUME NEW a \in Scalar, NEW b \in Scalar, Same(Order, a, b)
  PROVE  a = b
BY ScalarIs DEF Same

\* Coordinates as an affine point.
AsPoint(p) == [x |-> p[1], y |-> p[2], z |-> 1]

LEMMA MultipleFacts ==
  /\ Multiple[0] = Infinity
  /\ \A k \in Scalar : k # 0 => Multiple[k] \in Coords /\ Multiple[k] # Infinity
<1>1. ASSUME NEW k \in Scalar, k # 0 PROVE Multiple[k] \in Coords /\ Multiple[k] # Infinity
  <2>1. k \in 1 .. Order - 1 /\ k \in Nat
    BY <1>1, OddOrder
  <2>2. Multiple[k] # Infinity
    BY <2>1, GeneratorAssumption
  <2> QED BY <2>1, <2>2, MultipleType DEF Group, Coords
<1> QED BY <1>1, MultipleType

\* Coordinates of a multiple; those to_affine makes up for the identity are zero.
LEMMA AffineFacts ==
  ASSUME NEW k \in Scalar
  PROVE  /\ k # 0 => Affine(k) = AsPoint(Multiple[k])
         /\ k = 0 => Affine(k) = AsPoint(<<0, 0>>)
         /\ Affine(k) \in Point /\ ~IsIdentity(Affine(k))
<1>1. /\ 0 \in Field /\ 1 \in Field /\ 0 % Prime = 0 /\ 1 % Prime = 1 /\ Field \subseteq Int
  BY FieldFacts, FieldResidue
<1>2. Inverse(0) = 0 /\ Inverse(1) = 1
  <2> DEFINE o == 1
             i == Inverse(o)
  <2>1. i \in Field /\ Same(Prime, i * o, 1)
    <3>1. o \in Field /\ o # 0
      BY <1>1
    <3> HIDE DEF o
    <3> QED BY <3>1, InverseFacts
  <2> HIDE DEF i
  <2>2. i * o = i
    BY <1>1, <2>1
  <2>3. i = 1
    BY <1>1, <2>1, <2>2, SameField
  <2> QED BY <1>1, <2>3, InverseFacts DEF i
<1>3. CASE k = 0
  <2>1. PointOf(k) = IDENTITY
    BY <1>3, MultipleFacts DEF PointOf
  <2>2. ToAffine(IDENTITY) = AsPoint(<<0, 0>>)
    <3>1. 0 * 0 = 0 /\ 1 * 0 = 0
      OBVIOUS
    <3> QED BY <1>1, <1>2, <3>1 DEF ToAffine, IDENTITY, AsPoint
  <2>3. AsPoint(<<0, 0>>) \in Point /\ AsPoint(<<0, 0>>).z = 1
    BY <1>1 DEF AsPoint, Point
  <2> QED BY <1>3, <2>1, <2>2, <2>3 DEF Affine, IsIdentity
<1>4. CASE k # 0
  <2> DEFINE p == Multiple[k]
  <2>1. p \in Coords /\ p # Infinity
    BY <1>4, MultipleFacts
  <2>2. PointOf(k) = AsPoint(p)
    BY <2>1 DEF PointOf, AsPoint
  <2> HIDE DEF p
  <2>3. p[1] \in Field /\ p[2] \in Field
    BY <2>1 DEF Coords
  <2>4. ToAffine(AsPoint(p)) = AsPoint(p)
    <3>1. p[1] \in Int /\ p[2] \in Int
      BY <1>1, <2>3
    <3>2. p[1] * 1 = p[1] /\ p[2] * 1 = p[2]
      BY <3>1
    <3>3. p[1] % Prime = p[1] /\ p[2] % Prime = p[2]
      BY <2>3, FieldResidue
    <3> QED BY <1>2, <3>2, <3>3 DEF ToAffine, AsPoint
  <2>5. AsPoint(p) \in Point /\ AsPoint(p).z = 1
    BY <1>1, <2>3 DEF AsPoint, Point
  <2> QED BY <1>4, <2>2, <2>4, <2>5 DEF Affine, IsIdentity, p
<1> QED BY <1>3, <1>4

LEMMA IdentityFacts ==
  ASSUME NEW k \in Scalar
  PROVE  IsIdentity(PointOf(k)) <=> k = 0
<1>1. CASE k = 0
  BY <1>1, MultipleFacts DEF PointOf, IDENTITY, IsIdentity
<1>2. CASE k # 0
  BY <1>2, MultipleFacts DEF PointOf, IsIdentity
<1> QED BY <1>1, <1>2

\* No two scalars have one multiple.
LEMMA MultiplesDiffer ==
  ASSUME GroupLaw, NEW i \in Scalar, NEW j \in Scalar, Multiple[i] = Multiple[j]
  PROVE  i = j
<1> DEFINE m == -j
           n == m % Order
           a == i + n
           b == j + n
<1>1. /\ m \in Int /\ i \in Int /\ j \in Int /\ j + m = 0 /\ (i + m) + j = i /\ 0 + j = j
      /\ i + m \in Int /\ Order \in Nat \ {0}
  BY OddOrder
<1> HIDE DEF m
<1>2. n \in Scalar /\ n \in Int /\ Same(Order, n, m)
  BY <1>1, ToScalar
<1> HIDE DEF n
<1>3. a \in Int /\ b \in Int
  BY <1>1, <1>2
<1>4. Same(Order, b, 0)
  <2>1. Same(Order, j, j)
    BY DEF Same
  <2>2. Same(Order, j + n, j + m)
    BY <1>1, <1>2, <2>1, SamePlus
  <2> QED BY <1>1, <2>2
<1>5. Multiple[a % Order] = Multiple[b % Order]
  <2>1. ChordTangent(Multiple[i], Multiple[n]) = Multiple[(i + n) % Order]
    BY <1>2 DEF GroupLaw
  <2>2. ChordTangent(Multiple[j], Multiple[n]) = Multiple[(j + n) % Order]
    BY <1>2 DEF GroupLaw
  <2> QED BY <2>1, <2>2
<1> HIDE DEF a, b
<1>6. b % Order = 0
  BY <1>4, OddOrder, ScalarIs DEF Same
<1>7. a % Order = 0
  <2>1. a % Order \in Scalar
    BY <1>3, ToScalar
  <2> QED BY <1>5, <1>6, <2>1, MultipleFacts
<1>8. Same(Order, i + m, 0)
  <2>1. Same(Order, a, 0)
    BY <1>7, OddOrder, ScalarIs DEF Same
  <2>2. Same(Order, i, i)
    BY DEF Same
  <2>3. Same(Order, i + n, i + m)
    BY <1>1, <1>2, <2>2, SamePlus
  <2> QED BY <2>1, <2>3 DEF a, Same
<1>9. Same(Order, i, j)
  <2> DEFINE u == i + m
             o == 0
  <2>1. u \in Int /\ o \in Int /\ u + j = i /\ o + j = j /\ Same(Order, u, o) /\ Same(Order, j, j)
    BY <1>1, <1>8 DEF Same
  <2> HIDE DEF u, o
  <2>2. Same(Order, u + j, o + j)
    BY <1>1, <2>1, SamePlus
  <2> QED BY <2>1, <2>2
<1> QED BY <1>9, EqualScalars

\* The zero coordinates are not those of a multiple, which would be its own
\* negative, the order being odd.
LEMMA ZeroIsNoMultiple ==
  ASSUME GroupLaw, NEW k \in Scalar
  PROVE  Multiple[k] # <<0, 0>>
<1> SUFFICES ASSUME Multiple[k] = <<0, 0>> PROVE FALSE
  OBVIOUS
<1> DEFINE zero == <<0, 0>>
           s == k + k
<1>1. zero \in Coords /\ zero # Infinity /\ zero[1] = 0 /\ zero[2] = 0
  BY FieldFacts, NotInfinity DEF Coords
<1>2. ChordTangent(zero, zero) = Infinity
  <2>1. (zero[2] + zero[2]) % Prime = 0
    BY <1>1, FieldFacts, FieldResidue
  <2> QED BY <1>1, <2>1 DEF ChordTangent
<1>3. Multiple[s % Order] = Infinity
  BY <1>2 DEF GroupLaw
<1>4. s \in Int /\ k \in Nat /\ k < Order /\ Order \in Nat \ {0} /\ Order % 2 = 1
  BY OddOrder
<1>5. s % Order = 0
  <2> HIDE DEF s
  <2>1. s % Order \in Scalar
    BY <1>4, ToScalar
  <2> QED BY <1>3, <2>1, MultipleFacts
<1>6. s = 0 \/ s = Order
  <2>1. PICK n \in Int : s = n * Order + (s % Order)
    <3> HIDE DEF s
    <3> QED BY <1>4, ModRange
  <2> DEFINE m == n * Order
  <2>2. s = m /\ s >= 0 /\ s < 2 * Order /\ 0 * Order = 0 /\ 1 * Order = Order
    BY <1>4, <1>5, <2>1
  <2>3. (n < 0 => m < 0) /\ (n >= 2 => m >= 2 * Order)
    BY <1>4, <2>1
  <2>4. n = 0 \/ n = 1
    <3> HIDE DEF m, s
    <3> QED BY <1>4, <2>1, <2>2, <2>3
  <2> QED BY <2>2, <2>4
<1>7. s # Order
  <2> SUFFICES ASSUME s = Order PROVE FALSE
    OBVIOUS
  <2>1. Order = 2 * k
    BY <1>4
  <2> QED BY <1>4, <2>1
<1>8. k = 0
  BY <1>4, <1>6, <1>7
<1> QED BY <1>1, <1>8, MultipleFacts

\* Additions are shown of points with different x coordinates, by the slope.
LEMMA AddHoldsFacts ==
  ASSUME NEW p \in Coords, NEW g \in Coords, NEW r \in Coords
  PROVE  AddHolds(AsPoint(p), AsPoint(g), AsPoint(r)) <=> p[1] # g[1] /\ Adds(p, g, r)
<1> DEFINE a == g[1] - p[1]
           b == g[2] - p[2]
           t == a % Prime
           i == Inverse(t)
           s == (i * b) % Prime
<1>1. /\ p[1] \in Field /\ g[1] \in Field /\ p[1] \in Int /\ p[2] \in Int
      /\ g[1] \in Int /\ g[2] \in Int /\ Prime \in Nat \ {0}
  BY FieldFacts DEF Coords
<1>2. a \in Int /\ b \in Int
  BY <1>1
<1>3. t \in Field /\ i \in Field /\ i \in Int /\ b % Prime \in Int
  <2>1. t \in Field /\ b % Prime \in Int
    <3> HIDE DEF a, b
    <3> QED BY <1>2, Reduced
  <2> HIDE DEF t
  <2> QED BY <2>1, InverseFacts, FieldFacts
<1>4. t # 0 <=> p[1] # g[1]
  <2>1. ASSUME p[1] = g[1] PROVE t = 0
    <3>1. a = 0
      BY <1>1, <2>1
    <3> QED BY <3>1, FieldFacts, FieldResidue
  <2>2. ASSUME t = 0 PROVE p[1] = g[1]
    <3> DEFINE o == 0
    <3>1. Same(Prime, a, o)
      BY <2>2, FieldFacts, FieldResidue DEF Same
    <3>2. o \in Int /\ o + p[1] = p[1]
      BY <1>1
    <3> HIDE DEF o
    <3>3. Same(Prime, g[1], o + p[1])
      BY <1>1, <3>1, <3>2, MoveOver
    <3> QED BY <1>1, <3>2, <3>3, SameField
  <2> QED BY <2>1, <2>2
<1>5. Slope(p, g) = s
  <2> HIDE DEF i, b
  <2>1. ((b % Prime) * i) % Prime = (b * i) % Prime
    BY <1>1, <1>2, <1>3, ModTimes
  <2>2. (b % Prime) * i = i * (b % Prime) /\ b * i = i * b
    BY <1>2, <1>3
  <2>3. (i * (b % Prime)) % Prime = s
    BY <2>1, <2>2
  <2> QED BY <2>3 DEF Slope, i, b
<1> HIDE DEF t
<1>6. AddHolds(AsPoint(p), AsPoint(g), AsPoint(r)) <=>
        /\ t # 0 /\ (s * s) % Prime = (r[1] + p[1] + g[1]) % Prime
        /\ (s * (p[1] - r[1])) % Prime = (r[2] + p[2]) % Prime
  BY DEF AddHolds, AsPoint, t
<1> QED BY <1>4, <1>5, <1>6 DEF Adds, Same

\* One x coordinate, two points at most, each the negative of the other.
LEMMA OppositePoints ==
  ASSUME NEW x \in Field, NEW y \in Field, NEW w \in Field,
         OnAffineCurve(x, y), OnAffineCurve(x, w)
  PROVE  y = w \/ (y + w) % Prime = 0
<1> DEFINE h == y * y
           l == w * w
           k == x * x * x + CoeffA * x + CoeffB
           o == 0
           d == y - w
           s == y + w
           t == s % Prime
<1>1. x \in Int /\ y \in Int /\ w \in Int /\ Prime \in Nat \ {0}
  BY FieldFacts
<1>2. CoeffA \in Int /\ CoeffB \in Int
  BY FieldFacts, CoeffAssumption
<1>3. h \in Int /\ l \in Int /\ k \in Int /\ o \in Int /\ d \in Int /\ s \in Int
  <2>1. x * x \in Int /\ CoeffA * x \in Int
    BY <1>1, <1>2
  <2>2. x * x * x \in Int
    BY <1>1, <2>1
  <2> QED BY <1>1, <1>2, <2>1, <2>2
<1>4. y * y - x * x * x - CoeffA * x - CoeffB = h - k
  <2> DEFINE c == x * x * x
             f == CoeffA * x
  <2>1. c \in Int /\ f \in Int
    <3>1. x * x \in Int
      BY <1>1
    <3> QED BY <1>1, <1>2, <3>1
  <2> HIDE DEF c, f
  <2>2. h - c - f - CoeffB = h - (c + f + CoeffB)
    BY <1>2, <1>3, <2>1
  <2> QED BY <2>2 DEF c, f
<1>5. w * w - x * x * x - CoeffA * x - CoeffB = l - k
  <2> DEFINE c == x * x * x
             f == CoeffA * x
  <2>1. c \in Int /\ f \in Int
    <3>1. x * x \in Int
      BY <1>1
    <3> QED BY <1>1, <1>2, <3>1
  <2> HIDE DEF c, f
  <2>2. l - c - f - CoeffB = l - (c + f + CoeffB)
    BY <1>2, <1>3, <2>1
  <2> QED BY <2>2 DEF c, f
<1>6. (h - k) % Prime = 0 /\ (l - k) % Prime = 0
  BY <1>4, <1>5 DEF OnAffineCurve
<1>7. h - l = d * s
  BY <1>1
<1> HIDE DEF h, l, k
<1>8. Same(Prime, h - k, o) /\ Same(Prime, l - k, o)
  BY <1>6, FieldFacts, FieldResidue DEF Same
<1>9. Same(Prime, h, l)
  <2> HIDE DEF o
  <2>1. Same(Prime, h, o + k) /\ Same(Prime, l, o + k)
    BY <1>3, <1>8, MoveOver
  <2> QED BY <2>1 DEF Same
<1>10. Same(Prime, d * s, o)
  <2>1. Same(Prime, l, l) /\ l - l = o
    BY <1>3 DEF Same
  <2>2. Same(Prime, h - l, l - l)
    BY <1>1, <1>3, <1>9, <2>1, SameMinus
  <2> QED BY <1>7, <2>1, <2>2
<1> SUFFICES ASSUME t # 0 PROVE y = w
  OBVIOUS
<1>11. t \in Field /\ t \in Int /\ Same(Prime, t, s)
  <2> HIDE DEF s
  <2> QED BY <1>3, Reduced
<1> HIDE DEF t, s
<1>12. Same(Prime, d * t, o * t)
  <2>1. Same(Prime, t * d, s * d)
    BY <1>1, <1>3, <1>11, SameTimes
  <2>2. t * d = d * t /\ s * d = d * s /\ o * t = o
    BY <1>3, <1>11
  <2> QED BY <1>10, <2>1, <2>2 DEF Same
<1>13. o + w = w
  BY <1>1
<1> HIDE DEF o
<1>14. Same(Prime, d, o)
  BY <1>3, <1>11, <1>12, CancelField
<1>15. Same(Prime, y, o + w)
  BY <1>1, <1>3, <1>14, MoveOver
<1> QED BY <1>13, <1>15, SameField

\* A sum is shown where its terms are neither the identity nor equal nor opposite.
LEMMA SumShown ==
  ASSUME GroupLaw, NEW u \in Scalar, u # 0, NEW k \in Scalar, k # 0,
         u # k, u # (-k) % Order
  PROVE  AddHolds(Affine(u), Affine(k), Affine((u + k) % Order))
<1> DEFINE p == Multiple[u]
           g == Multiple[k]
           n == -k
           s == u + k
           r == Multiple[s % Order]
<1>1. u \in Int /\ k \in Int /\ n \in Int /\ s \in Int /\ Order \in Nat \ {0} /\ n + k = 0
  BY OddOrder
<1>2. s % Order \in Scalar
  <2> HIDE DEF s
  <2> QED BY <1>1, ToScalar
<1>3. s % Order # 0
  <2> SUFFICES ASSUME s % Order = 0 PROVE FALSE
    OBVIOUS
  <2> DEFINE o == 0
  <2>1. Same(Order, s, o)
    BY OddOrder, ScalarIs DEF Same
  <2>2. o \in Int /\ s - k = u /\ o - k = n /\ Same(Order, k, k)
    BY <1>1 DEF Same
  <2> HIDE DEF s, o, n
  <2>3. Same(Order, s - k, o - k)
    BY <1>1, <2>1, <2>2, SameMinus
  <2>4. Same(Order, u, n)
    BY <2>2, <2>3
  <2> QED BY <2>4, ScalarIs DEF Same, n
<1>4. p \in Coords /\ g \in Coords /\ r \in Coords
  <2> HIDE DEF s
  <2> QED BY <1>2, <1>3, MultipleFacts
<1>5. ChordTangent(p, g) = r /\ r # Infinity
  <2>1. ChordTangent(p, g) = r
    BY DEF GroupLaw
  <2> HIDE DEF s
  <2> QED BY <1>2, <1>3, <2>1, MultipleFacts
<1>6. Affine(u) = AsPoint(p) /\ Affine(k) = AsPoint(g) /\ Affine(s % Order) = AsPoint(r)
  <2> HIDE DEF s
  <2> QED BY <1>2, <1>3, AffineFacts
<1>7. p # g
  BY MultiplesDiffer
<1>8. OnAffineCurve(p[1], p[2]) /\ OnAffineCurve(g[1], g[2])
  <2>1. u \in 1 .. Order - 1 /\ k \in 1 .. Order - 1
    BY OddOrder
  <2> QED BY <2>1 DEF GroupLaw
<1> HIDE DEF p, g, r, s
<1>9. /\ p[1] \in Field /\ p[2] \in Field /\ g[1] \in Field /\ g[2] \in Field
      /\ p = <<p[1], p[2]>> /\ g = <<g[1], g[2]>>
  BY <1>4 DEF Coords
<1>10. p[1] # g[1]
  <2> SUFFICES ASSUME p[1] = g[1] PROVE FALSE
    OBVIOUS
  <2>1. p[2] = g[2] \/ (p[2] + g[2]) % Prime = 0
    BY <1>8, <1>9, OppositePoints
  <2>2. (p[2] + g[2]) % Prime = 0
    BY <1>7, <1>9, <2>1
  <2>3. p # Infinity /\ g # Infinity
    BY <1>4, NotInfinity
  <2>4. ChordTangent(p, g) = Infinity
    BY <2>2, <2>3 DEF ChordTangent
  <2> QED BY <1>5, <2>4
<1>11. Adds(p, g, r)
  BY <1>4, <1>5, <1>10, ChordFacts
<1>12. AddHolds(AsPoint(p), AsPoint(g), AsPoint(r))
  BY <1>4, <1>10, <1>11, AddHoldsFacts
<1> QED BY <1>6, <1>12 DEF s

\* And what is shown is the sum: to_affine's zero coordinates are never one.
LEMMA OnlySumsShown ==
  ASSUME GroupLaw, NEW u \in Scalar, u # 0, NEW k \in Scalar, k # 0, NEW w \in Scalar,
         AddHolds(Affine(u), Affine(k), Affine(w))
  PROVE  w = (u + k) % Order
<1> DEFINE p == Multiple[u]
           g == Multiple[k]
           s == u + k
           r == IF w = 0 THEN <<0, 0>> ELSE Multiple[w]
<1>1. s \in Int
  BY OddOrder
<1>2. s % Order \in Scalar
  <2> HIDE DEF s
  <2> QED BY <1>1, ToScalar
<1>3. p \in Coords /\ g \in Coords /\ r \in Coords
  <2>1. <<0, 0>> \in Coords
    BY FieldFacts DEF Coords
  <2> QED BY <2>1, MultipleFacts
<1>4. Affine(u) = AsPoint(p) /\ Affine(k) = AsPoint(g) /\ Affine(w) = AsPoint(r)
  BY AffineFacts
<1>5. ChordTangent(p, g) = Multiple[s % Order]
  BY DEF GroupLaw
<1> HIDE DEF p, g
<1>6. ChordTangent(p, g) = r
  <2> HIDE DEF r
  <2>1. p[1] # g[1] /\ Adds(p, g, r)
    BY <1>3, <1>4, AddHoldsFacts
  <2> QED BY <1>3, <2>1, ChordFacts
<1> HIDE DEF s
<1>7. w # 0
  BY <1>2, <1>5, <1>6, ZeroIsNoMultiple
<1>8. Multiple[w] = Multiple[s % Order]
  BY <1>5, <1>6, <1>7
<1> QED BY <1>2, <1>8, MultiplesDiffer DEF s

-----------------------------------------------------------------------------
(* The invariant of ExpProof: what each repetition is made of, and that the    *)
(* verdict is that of the repetitions opened.                                  *)

\* Repetition i, as construct has made it.
Repetition(i) ==
  LET pr == proofs[i]
  IN  /\ pr.odd = challenge[i]
      /\ pr.a = CommitOnBase(alphas[i], Masks[i]) /\ pr.t = Affine(alphas[i])
      /\ IF challenge[i] THEN pr.z = alphas[i] /\ pr.r = Masks[i]
                         ELSE /\ pr.z = (alphas[i] - exp) % Order /\ pr.r = EvenMask(i)
                              /\ (pr.z + q) % Order # 0

\* What verify finds when it opens repetition i.
Right(i)  == proofs[i].odd = bits[i]
Proves(i) == IF proofs[i].odd THEN OddHolds(proofs[i]) ELSE EvenHolds(proofs[i])

Secrets == /\ exp \in Scalar /\ q \in Scalar /\ point \in Scalar /\ point # 0
           /\ level \in Nat /\ level <= Len(Masks)

Constructing ==
  /\ alphas \in Seq(Scalar) /\ Len(alphas) <= level
  /\ proofs \in Seq([odd : BOOLEAN, a : Scalar \X Scalar, t : Point, z : Scalar, r : Scalar])
  /\ Len(proofs) <= level /\ (\A i \in 1 .. Len(proofs) : Repetition(i))
  /\ IF step = "commit" THEN challenge = <<>> /\ proofs = <<>>
                        ELSE challenge \in [1 .. level -> BOOLEAN] /\ Len(alphas) = level
  /\ step \in {"proved", "verify"} => Len(proofs) = level

Opening ==
  /\ step \in {"commit", "respond", "proved"} =>
       bits = <<>> /\ indices = <<>> /\ opened = 0 /\ valid = TRUE
  /\ indices \in Seq(DOMAIN proofs) /\ opened \in 0 .. Len(indices) /\ valid \in BOOLEAN
  /\ bits # <<>> => bits \in [1 .. level -> BOOLEAN] /\ level >= 2 /\ Len(proofs) = level
  /\ step = "verify" => /\ bits # <<>>
                        /\ \A j \in 1 .. opened : Right(indices[j])
                        /\ valid <=> \A j \in 1 .. opened : Proves(indices[j])

Ending ==
  /\ step \in {"commit", "respond", "proved", "verify", "end"}
  /\ IF step = "end" THEN verdict \in {"ok", "err", "panic"} ELSE verdict = "none"
  /\ verdict = "err" /\ Len(proofs) < level =>
       ~challenge[Len(proofs) + 1] /\ (alphas[Len(proofs) + 1] - exp + q) % Order = 0
  /\ verdict = "ok" => bits # <<>> /\ opened = Len(indices)
  /\ step = "end" /\ bits # <<>> =>
       (verdict = "ok" <=> \A j \in 1 .. Len(indices) : Right(indices[j]) /\ Proves(indices[j]))

ExpIInv == Secrets /\ Constructing /\ Opening /\ Ending

LEMMA MaskFacts ==
  ASSUME ExpAssumption
  PROVE  /\ Exps \subseteq Scalar /\ Qs \subseteq Scalar /\ Alphas \subseteq Scalar
         /\ Offsets \subseteq Scalar /\ Len(Masks) \in Nat /\ Levels \subseteq 0 .. Len(Masks)
         /\ \A i \in 1 .. Len(Masks) : Masks[i] \in Scalar /\ EvenMask(i) \in Scalar
<1>1. ASSUME NEW i \in 1 .. Len(Masks) PROVE Masks[i] \in Scalar /\ EvenMask(i) \in Scalar
  <2>1. Masks[i] \in Scalar /\ ExpMask \in Scalar
    BY DEF ExpAssumption
  <2> DEFINE d == Masks[i] - ExpMask
  <2>2. d \in Int
    BY <2>1, OddOrder
  <2> HIDE DEF d
  <2>3. d % Order \in Scalar
    BY <2>2, ToScalar
  <2> QED BY <2>1, <2>3 DEF EvenMask, d
<1> QED BY <1>1 DEF ExpAssumption

LEMMA CommitOnBaseType ==
  ASSUME NEW v \in Int, NEW w \in Int
  PROVE  CommitOnBase(v, w) \in Scalar \X Scalar
BY ToScalar DEF CommitOnBase

\* What verify may open are repetitions.
LEMMA IndexVectorsType ==
  ASSUME NEW limit \in Nat, limit >= 2, NEW n \in Nat, n <= limit, NEW s \in IndexVectors(n, limit)
  PROVE  s \in Seq(1 .. limit)
<1> DEFINE Vector == [1 .. limit -> 1 .. limit]
           S == SUBSET Vector
           c == {[i \in 1 .. limit |-> i]}
           G == [i \in Nat |-> [vs \in SUBSET Vector |->
                   {Swapped(v, i, k) : v \in vs, k \in i .. limit}]]
           m == limit - 2
           shuffled == Iterate(c, G)
<1>1. c \in S /\ m \in Nat
  OBVIOUS
<1>2. Stays(S, G, m)
  <2>1. ASSUME NEW i \in 1 .. m, NEW vs \in S PROVE G[i][vs] \in S
    <3>1. i \in Nat /\ i \in 1 .. limit
      OBVIOUS
    <3>2. ASSUME NEW v \in vs, NEW k \in i .. limit PROVE Swapped(v, i, k) \in Vector
      <4>1. v \in Vector /\ k \in 1 .. limit
        BY <3>1
      <4> QED BY <3>1, <4>1 DEF Swapped
    <3>3. G[i][vs] = {Swapped(v, i, k) : v \in vs, k \in i .. limit}
      BY <3>1
    <3> HIDE DEF G, Vector
    <3> QED BY <3>2, <3>3
  <2> HIDE DEF G, S, m
  <2> QED BY <2>1 DEF Stays
<1> HIDE DEF c, G
<1>3. shuffled[m] \in S
  <2> HIDE DEF S, m
  <2>1. Within(S, Iterate(c, G), m)
    BY <1>1, <1>2, IterateType, Zenon
  <2> QED BY <1>1, <2>1 DEF Within
<1>4. IndexVectors(n, limit) = {SubSeq(v, 1, n) : v \in shuffled[m]}
  BY DEF IndexVectors, c, G
<1> HIDE DEF shuffled, m
<1>5. PICK v \in Vector : s = SubSeq(v, 1, n)
  BY <1>3, <1>4
<1>6. v \in Seq(1 .. limit) /\ Len(v) = limit
  BY <1>5
<1> QED BY <1>5, <1>6

LEMMA ExpInitial == ASSUME ExpAssumption PROVE ExpInit => ExpIInv
<1> SUFFICES ASSUME ExpInit PROVE ExpIInv
  OBVIOUS
<1>1. Secrets
  <2>1. exp \in Scalar /\ q \in Scalar /\ level \in Nat /\ level <= Len(Masks) /\ point # 0
    BY MaskFacts DEF ExpInit
  <2>2. PICK off \in Scalar : point = (exp - q + off) % Order
    BY MaskFacts DEF ExpInit
  <2> DEFINE a == exp - q + off
  <2>3. a \in Int
    BY <2>1, <2>2, OddOrder
  <2> HIDE DEF a
  <2>4. a % Order \in Scalar
    BY <2>3, ToScalar
  <2> QED BY <2>1, <2>2, <2>4 DEF Secrets, a
<1>2. /\ alphas = <<>> /\ challenge = <<>> /\ proofs = <<>> /\ step = "commit"
      /\ indices = <<>> /\ bits = <<>> /\ opened = 0 /\ valid = TRUE /\ verdict = "none"
  BY DEF ExpInit
<1>3. Constructing /\ Opening /\ Ending
  <2>1. level \in Nat
    BY <1>1 DEF Secrets
  <2> QED BY <1>2, <2>1 DEF Constructing, Opening, Ending
<1> QED BY <1>1, <1>3 DEF ExpIInv

\* A step that leaves the secrets alone, and what the repetitions are made from.
LEMMA SecretsStay ==
  ASSUME Secrets, UNCHANGED <<exp, q, point, level>>
  PROVE  Secrets'
BY DEF Secrets

LEMMA RepetitionsStay ==
  ASSUME \A i \in 1 .. Len(proofs) : Repetition(i), UNCHANGED <<exp, q, alphas, challenge, proofs>>
  PROVE  \A i \in 1 .. Len(proofs') : Repetition(i)'
BY DEF Repetition

LEMMA RepetitionAdded ==
  ASSUME NEW S, proofs \in Seq(S), \A i \in 1 .. Len(proofs) : Repetition(i),
         NEW pr \in S, proofs' = Append(proofs, pr), UNCHANGED <<exp, q, alphas, challenge>>,
         NEW n, n = Len(proofs) + 1, Repetition(n)'
  PROVE  /\ proofs' \in Seq(S) /\ Len(proofs') = Len(proofs) + 1
         /\ \A i \in 1 .. Len(proofs') : Repetition(i)'
<1>1. /\ proofs' \in Seq(S) /\ Len(proofs) \in Nat /\ Len(proofs') = Len(proofs) + 1
      /\ \A i \in 1 .. Len(proofs) : proofs'[i] = proofs[i]
  OBVIOUS
<1>2. ASSUME NEW i \in 1 .. Len(proofs) PROVE Repetition(i)'
  BY <1>1 DEF Repetition
<1>3. \A i \in 1 .. Len(proofs') : i \in 1 .. Len(proofs) \/ i = n
  BY <1>1
<1> QED BY <1>1, <1>2, <1>3

LEMMA DrawAlphaKeeps ==
  ASSUME ExpAssumption, ExpIInv, NEW alpha \in Alphas, DrawAlpha(alpha)
  PROVE  ExpIInv'
<1>1. alpha \in Scalar
  BY MaskFacts
<1>2. /\ step = "commit" /\ Len(alphas) < level /\ alphas' = Append(alphas, alpha)
      /\ UNCHANGED <<step, verdict>>
      /\ UNCHANGED <<exp, q, point, level, challenge, proofs, indices, bits, opened, valid>>
  BY <1>1, AffineFacts DEF DrawAlpha
<1>3. Secrets'
  BY <1>2, SecretsStay DEF ExpIInv
<1>4. level \in Nat /\ alphas \in Seq(Scalar) /\ proofs = <<>> /\ challenge = <<>>
  BY <1>2 DEF ExpIInv, Secrets, Constructing
<1>5. Constructing'
  BY <1>1, <1>2, <1>4 DEF Constructing
<1>6. Opening'
  BY <1>2 DEF ExpIInv, Opening
<1>7. Ending'
  BY <1>2 DEF ExpIInv, Ending
<1> QED BY <1>3, <1>5, <1>6, <1>7 DEF ExpIInv

LEMMA HashKeeps ==
  ASSUME ExpIInv, NEW cs \in [1 .. level -> BOOLEAN], Hash(cs)
  PROVE  ExpIInv'
<1>1. /\ step = "commit" /\ Len(alphas) = level /\ challenge' = cs /\ step' = "respond"
      /\ UNCHANGED <<exp, q, point, level, alphas, proofs, indices, bits, opened, valid, verdict>>
  BY DEF Hash
<1>2. Secrets'
  BY <1>1, SecretsStay DEF ExpIInv
<1>3. level \in Nat /\ alphas \in Seq(Scalar) /\ proofs = <<>>
  BY <1>1 DEF ExpIInv, Secrets, Constructing
<1>4. Constructing'
  BY <1>1, <1>3 DEF Constructing
<1>5. Opening'
  BY <1>1, <1>3 DEF ExpIInv, Opening
<1>6. Ending'
  BY <1>1 DEF ExpIInv, Ending
<1> QED BY <1>2, <1>4, <1>5, <1>6 DEF ExpIInv

\* A repetition as construct returns it.
ExpEntry == [odd : BOOLEAN, a : Scalar \X Scalar, t : Point, z : Scalar, r : Scalar]

\* What construct knows of the repetition it is about to make.
LEMMA RespondFacts ==
  ASSUME ExpAssumption, ExpIInv, step = "respond", NEW i, i = Len(proofs) + 1, i <= level
  PROVE  /\ exp \in Scalar /\ q \in Scalar /\ level \in Nat /\ Len(alphas) = level
         /\ challenge \in [1 .. level -> BOOLEAN] /\ challenge[i] \in BOOLEAN
         /\ proofs \in Seq(ExpEntry) /\ Len(proofs) \in Nat /\ i \in 1 .. level
         /\ \A j \in 1 .. Len(proofs) : Repetition(j)
         /\ alphas[i] \in Scalar /\ Masks[i] \in Scalar /\ EvenMask(i) \in Scalar
         /\ CommitOnBase(alphas[i], Masks[i]) \in Scalar \X Scalar
         /\ Affine(alphas[i]) \in Point
<1>1. /\ exp \in Scalar /\ q \in Scalar /\ level \in Nat /\ level <= Len(Masks)
      /\ alphas \in Seq(Scalar) /\ Len(alphas) = level
      /\ challenge \in [1 .. level -> BOOLEAN]
      /\ \A j \in 1 .. Len(proofs) : Repetition(j)
  BY DEF ExpIInv, Secrets, Constructing
<1>2. proofs \in Seq(ExpEntry)
  BY DEF ExpIInv, Constructing, ExpEntry
<1>3. Len(proofs) \in Nat /\ i \in 1 .. level /\ i \in 1 .. Len(Masks)
  BY <1>1, <1>2, MaskFacts
<1>4. alphas[i] \in Scalar /\ Masks[i] \in Scalar /\ EvenMask(i) \in Scalar
  BY <1>1, <1>3, MaskFacts
<1>5. alphas[i] \in Int /\ Masks[i] \in Int
  BY <1>4, OddOrder
<1> QED BY <1>1, <1>2, <1>3, <1>4, <1>5, CommitOnBaseType, AffineFacts

LEMMA RespondOddKeeps ==
  ASSUME ExpAssumption, ExpIInv, RespondOdd
  PROVE  ExpIInv'
<1>1. PICK i : i = Len(proofs) + 1
  OBVIOUS
<1> DEFINE pr == [odd |-> TRUE, a |-> CommitOnBase(alphas[i], Masks[i]),
                  t |-> Affine(alphas[i]), z |-> alphas[i], r |-> Masks[i]]
<1>2. /\ step = "respond" /\ i <= level /\ challenge[i] /\ proofs' = Append(proofs, pr)
      /\ UNCHANGED <<exp, q, point, level, alphas, challenge, step, indices, bits,
                     opened, valid, verdict>>
  BY <1>1 DEF RespondOdd
<1>3. /\ challenge \in [1 .. level -> BOOLEAN] /\ proofs \in Seq(ExpEntry)
      /\ i \in 1 .. level /\ level \in Nat /\ Len(proofs) \in Nat
      /\ \A j \in 1 .. Len(proofs) : Repetition(j)
  BY <1>1, <1>2, RespondFacts
<1>4. pr \in ExpEntry
  <2>1. /\ alphas[i] \in Scalar /\ Masks[i] \in Scalar
        /\ CommitOnBase(alphas[i], Masks[i]) \in Scalar \X Scalar /\ Affine(alphas[i]) \in Point
    BY <1>1, <1>2, RespondFacts
  <2> QED BY <2>1 DEF ExpEntry
<1>5. Repetition(i)'
  <2>1. proofs'[i] = pr
    BY <1>1, <1>2, <1>3
  <2>2. /\ proofs'[i].odd = TRUE /\ proofs'[i].t = Affine(alphas[i])
        /\ proofs'[i].a = CommitOnBase(alphas[i], Masks[i])
        /\ proofs'[i].z = alphas[i] /\ proofs'[i].r = Masks[i]
    BY <2>1
  <2>3. challenge[i] = TRUE /\ UNCHANGED <<alphas, challenge>>
    BY <1>2, <1>3
  <2> QED BY <2>2, <2>3 DEF Repetition
<1> HIDE DEF pr
<1>6. /\ proofs' \in Seq(ExpEntry) /\ Len(proofs') = Len(proofs) + 1
      /\ \A j \in 1 .. Len(proofs') : Repetition(j)'
  BY <1>1, <1>2, <1>3, <1>4, <1>5, RepetitionAdded, Zenon
<1>7. Secrets'
  BY <1>2, SecretsStay DEF ExpIInv
<1>8. Constructing'
  BY <1>1, <1>2, <1>3, <1>6 DEF ExpIInv, Constructing, ExpEntry
<1>9. Opening'
  BY <1>2 DEF ExpIInv, Opening
<1>10. Ending'
  BY <1>2 DEF ExpIInv, Ending
<1> QED BY <1>7, <1>8, <1>9, <1>10 DEF ExpIInv

LEMMA RespondEvenKeeps ==
  ASSUME ExpAssumption, ExpIInv, RespondEven
  PROVE  ExpIInv'
<1>1. PICK i : i = Len(proofs) + 1
  OBVIOUS
<1> DEFINE d == alphas[i] - exp
           z == d % Order
           pr == [odd |-> FALSE, a |-> CommitOnBase(alphas[i], Masks[i]),
                  t |-> Affine(alphas[i]), z |-> z, r |-> EvenMask(i)]
<1>2. /\ step = "respond" /\ i <= level /\ ~ challenge[i]
      /\ UNCHANGED <<exp, q, point, level, alphas, challenge, indices, bits, opened, valid>>
      /\ IF IsIdentity(PointOf((z + q) % Order))
           THEN step' = "end" /\ verdict' = "err" /\ UNCHANGED proofs
           ELSE proofs' = Append(proofs, pr) /\ UNCHANGED <<step, verdict>>
  BY <1>1 DEF RespondEven
<1>3. /\ challenge \in [1 .. level -> BOOLEAN] /\ proofs \in Seq(ExpEntry)
      /\ i \in 1 .. level /\ level \in Nat /\ Len(proofs) \in Nat
      /\ \A j \in 1 .. Len(proofs) : Repetition(j)
      /\ exp \in Scalar /\ q \in Scalar /\ alphas[i] \in Scalar
  BY <1>1, <1>2, RespondFacts
<1>4. d \in Int /\ q \in Int
  BY <1>3, OddOrder
<1>5. z \in Scalar /\ z \in Int
  <2> HIDE DEF d
  <2> QED BY <1>4, ToScalar
<1>6. IsIdentity(PointOf((z + q) % Order)) <=> (z + q) % Order = 0
  <2> HIDE DEF z
  <2>1. z + q \in Int
    BY <1>4, <1>5
  <2> QED BY <2>1, ToScalar, IdentityFacts
<1>7. Secrets'
  BY <1>2, SecretsStay DEF ExpIInv
<1>8. Opening'
  BY <1>2 DEF ExpIInv, Opening
<1>9. CASE (z + q) % Order = 0
  <2>1. step' = "end" /\ verdict' = "err" /\ proofs' = proofs
    BY <1>2, <1>6, <1>9
  <2>2. (d + q) % Order = 0
    <3> HIDE DEF d
    <3> QED BY <1>4, <1>9, OddOrder, ModPlus
  <2>3. \A j \in 1 .. Len(proofs') : Repetition(j)'
    BY <1>2, <1>3, <2>1, RepetitionsStay
  <2>4. Constructing'
    BY <1>2, <2>1, <2>3 DEF ExpIInv, Constructing
  <2>5. Ending'
    <3>1. bits = <<>>
      BY <1>2 DEF ExpIInv, Opening
    <3>2. ~ challenge[Len(proofs) + 1] /\ (alphas[Len(proofs) + 1] - exp + q) % Order = 0
      BY <1>1, <1>2, <2>2
    <3> QED BY <1>2, <2>1, <3>1, <3>2 DEF Ending
  <2> QED BY <1>7, <1>8, <2>4, <2>5 DEF ExpIInv
<1>10. CASE (z + q) % Order # 0
  <2>1. proofs' = Append(proofs, pr) /\ step' = "respond" /\ UNCHANGED <<step, verdict>>
    BY <1>2, <1>6, <1>10
  <2>2. pr \in ExpEntry
    <3>1. /\ EvenMask(i) \in Scalar
          /\ CommitOnBase(alphas[i], Masks[i]) \in Scalar \X Scalar /\ Affine(alphas[i]) \in Point
      BY <1>1, <1>2, RespondFacts
    <3> HIDE DEF z
    <3> QED BY <1>5, <3>1 DEF ExpEntry
  <2>3. Repetition(i)'
    <3>1. proofs'[i] = pr
      BY <1>1, <1>3, <2>1
    <3>2. /\ proofs'[i].odd = FALSE /\ proofs'[i].t = Affine(alphas[i])
          /\ proofs'[i].a = CommitOnBase(alphas[i], Masks[i])
          /\ proofs'[i].z = z /\ proofs'[i].r = EvenMask(i)
      BY <3>1
    <3>3. challenge[i] = FALSE /\ UNCHANGED <<exp, q, alphas, challenge>>
      BY <1>2, <1>3
    <3> QED BY <1>10, <3>2, <3>3 DEF Repetition
  <2> HIDE DEF pr
  <2>4. /\ proofs' \in Seq(ExpEntry) /\ Len(proofs') = Len(proofs) + 1
        /\ \A j \in 1 .. Len(proofs') : Repetition(j)'
    <3>1. UNCHANGED <<exp, q, alphas, challenge>>
      BY <1>2
    <3> QED BY <1>1, <1>3, <2>1, <2>2, <2>3, <3>1, RepetitionAdded, Zenon
  <2>5. Constructing'
    BY <1>1, <1>2, <1>3, <2>1, <2>4 DEF ExpIInv, Constructing, ExpEntry
  <2>6. Ending'
    BY <1>2, <2>1 DEF ExpIInv, Ending
  <2> QED BY <1>7, <1>8, <2>5, <2>6 DEF ExpIInv
<1> QED BY <1>9, <1>10

LEMMA ReturnProofKeeps ==
  ASSUME ExpIInv, ReturnProof
  PROVE  ExpIInv'
<1>1. /\ step = "respond" /\ Len(proofs) = level /\ step' = "proved"
      /\ UNCHANGED <<exp, q, point, level, alphas, challenge, proofs, indices, bits,
                     opened, valid, verdict>>
  BY DEF ReturnProof
<1>2. Secrets'
  BY <1>1, SecretsStay DEF ExpIInv
<1>3. \A i \in 1 .. Len(proofs') : Repetition(i)'
  BY <1>1, RepetitionsStay DEF ExpIInv, Constructing
<1>4. Constructing'
  BY <1>1, <1>3 DEF ExpIInv, Constructing
<1>5. Opening'
  BY <1>1 DEF ExpIInv, Opening
<1>6. Ending'
  BY <1>1 DEF ExpIInv, Ending
<1> QED BY <1>2, <1>4, <1>5, <1>6 DEF ExpIInv

LEMMA ExpVerifyKeeps ==
  ASSUME ExpIInv, NEW securityParam \in level - 1 .. level + 1, ExpVerify(securityParam)
  PROVE  ExpIInv'
<1>1. /\ step = "proved"
      /\ UNCHANGED <<exp, q, point, level, alphas, challenge, proofs, opened, valid>>
  BY DEF ExpVerify
<1>2. Secrets'
  BY <1>1, SecretsStay DEF ExpIInv
<1>3. \A i \in 1 .. Len(proofs') : Repetition(i)'
  BY <1>1, RepetitionsStay DEF ExpIInv, Constructing
<1>4. /\ level \in Nat /\ Len(proofs) = level /\ challenge \in [1 .. level -> BOOLEAN]
      /\ DOMAIN proofs = 1 .. level
  BY <1>1 DEF ExpIInv, Secrets, Constructing
<1>5. bits = <<>> /\ indices = <<>> /\ opened = 0 /\ valid = TRUE /\ verdict = "none"
  BY <1>1 DEF ExpIInv, Opening, Ending
<1>6. CASE UNCHANGED <<indices, bits>> /\ step' = "end" /\ verdict' \in {"err", "panic"}
  <2>1. Constructing'
    BY <1>1, <1>3, <1>6 DEF ExpIInv, Constructing
  <2>2. Opening'
    BY <1>1, <1>6 DEF ExpIInv, Opening
  <2>3. Ending'
    BY <1>1, <1>4, <1>5, <1>6 DEF Ending
  <2> QED BY <1>2, <2>1, <2>2, <2>3 DEF ExpIInv
<1>7. CASE /\ securityParam <= Len(proofs) /\ Len(proofs) >= 2
           /\ indices' \in IndexVectors(securityParam, Len(proofs))
           /\ bits' \in [1 .. level -> BOOLEAN] /\ step' = "verify" /\ UNCHANGED verdict
  <2>1. indices' \in Seq(DOMAIN proofs)
    <3>1. securityParam \in Nat /\ securityParam <= level /\ level >= 2
      BY <1>4, <1>7
    <3> QED BY <1>4, <1>7, <3>1, IndexVectorsType
  <2>2. bits' # <<>> /\ level >= 2
    <3>1. Len(bits') = level /\ level >= 2
      BY <1>4, <1>7
    <3>2. Len(<<>>) = 0
      OBVIOUS
    <3> QED BY <3>1, <3>2
  <2>3. Constructing'
    BY <1>1, <1>3, <1>4, <1>7 DEF ExpIInv, Constructing
  <2>4. Opening'
    <3>1. opened' = 0 /\ valid' = TRUE
      BY <1>1, <1>5
    <3>2. proofs' = proofs /\ level' = level /\ Len(indices') \in Nat
      BY <1>1, <2>1
    <3> QED BY <1>4, <1>7, <2>1, <2>2, <3>1, <3>2 DEF Opening
  <2>5. Ending'
    BY <1>5, <1>7 DEF Ending
  <2> QED BY <1>2, <2>3, <2>4, <2>5 DEF ExpIInv
<1>8. securityParam > Len(proofs) \/ Len(proofs) < 2 \/ (securityParam <= Len(proofs) /\ Len(proofs) >= 2)
  BY <1>4
<1> QED BY <1>4, <1>6, <1>7, <1>8 DEF ExpVerify

\* What verify has before it opens a repetition, and before it evaluates.
LEMMA VerifyFacts ==
  ASSUME ExpIInv, step = "verify"
  PROVE  /\ level \in Nat /\ Len(proofs) = level /\ proofs \in Seq(ExpEntry)
         /\ indices \in Seq(DOMAIN proofs) /\ opened \in 0 .. Len(indices) /\ valid \in BOOLEAN
         /\ bits \in [1 .. level -> BOOLEAN] /\ bits # <<>> /\ verdict = "none"
         /\ \A j \in 1 .. opened : Right(indices[j])
         /\ valid <=> \A j \in 1 .. opened : Proves(indices[j])
BY DEF ExpIInv, Secrets, Constructing, Opening, Ending, ExpEntry

LEMMA OpenKeeps ==
  ASSUME ExpIInv, Open
  PROVE  ExpIInv'
<1>1. PICK n : n = opened + 1
  OBVIOUS
<1>2. PICK i : i = indices[n]
  OBVIOUS
<1> DEFINE pr == proofs[i]
           t == (pr.z + q) % Order
           sum == IF pr.odd THEN pr.z ELSE t
<1>3. /\ step = "verify" /\ opened < Len(indices) /\ opened' = n
      /\ UNCHANGED <<exp, q, point, level, alphas, challenge, proofs, indices, bits>>
      /\ IF pr.odd # bits[i] \/ IsIdentity(Affine(sum))
           THEN step' = "end" /\ verdict' = "err" /\ UNCHANGED valid
           ELSE /\ valid' = (valid /\ IF pr.odd THEN OddHolds(pr) ELSE EvenHolds(pr))
                /\ UNCHANGED <<step, verdict>>
  BY <1>1, <1>2 DEF Open
<1>4. /\ level \in Nat /\ Len(proofs) = level /\ proofs \in Seq(ExpEntry)
      /\ indices \in Seq(DOMAIN proofs) /\ opened \in 0 .. Len(indices) /\ valid \in BOOLEAN
      /\ bits \in [1 .. level -> BOOLEAN] /\ bits # <<>> /\ verdict = "none"
  BY <1>3, VerifyFacts
<1>5. n \in 1 .. Len(indices) /\ i \in DOMAIN proofs /\ pr \in ExpEntry
  BY <1>1, <1>2, <1>3, <1>4
<1>6. ~ IsIdentity(Affine(sum))
  <2>1. pr.z \in Scalar /\ q \in Scalar
    BY <1>5 DEF ExpEntry, ExpIInv, Secrets
  <2> DEFINE s == pr.z + q
  <2>2. s \in Int
    BY <2>1, OddOrder
  <2> HIDE DEF s
  <2>3. s % Order \in Scalar
    BY <2>2, ToScalar
  <2>4. sum \in Scalar
    BY <2>1, <2>3 DEF s
  <2> QED BY <2>4, AffineFacts
<1>7. Secrets'
  BY <1>3, SecretsStay DEF ExpIInv
<1>8. Constructing'
  <2>1. \A j \in 1 .. Len(proofs') : Repetition(j)'
    BY <1>3, RepetitionsStay DEF ExpIInv, Constructing
  <2>2. step' \in {"verify", "end"}
    BY <1>3
  <2> QED BY <1>3, <1>4, <2>1, <2>2 DEF ExpIInv, Constructing
<1>9. (Right(i) <=> pr.odd = bits[i]) /\ (Proves(i) <=> IF pr.odd THEN OddHolds(pr) ELSE EvenHolds(pr))
  BY DEF Right, Proves
<1>10. (\A j : Right(j)' <=> Right(j)) /\ (\A j : Proves(j)' <=> Proves(j))
  <2>1. proofs' = proofs /\ bits' = bits /\ exp' = exp /\ q' = q /\ point' = point
    BY <1>3
  <2>2. \A j : Right(j)' <=> Right(j)
    BY <2>1 DEF Right
  <2>3. \A j : Proves(j)' <=> Proves(j)
    BY <2>1 DEF Proves, OddHolds, EvenHolds
  <2> QED BY <2>2, <2>3
<1>11. CASE pr.odd # bits[i]
  <2>1. step' = "end" /\ verdict' = "err" /\ valid' = valid
    BY <1>3, <1>11
  <2>2. ~ Right(i)
    BY <1>9, <1>11
  <2>3. Opening'
    BY <1>1, <1>3, <1>4, <1>5, <2>1 DEF ExpIInv, Opening
  <2>4. ~ Right(indices[n])'
    BY <1>2, <1>3, <1>10, <2>2
  <2>5. Ending'
    BY <1>3, <1>4, <1>5, <2>1, <2>4 DEF Ending
  <2> QED BY <1>7, <1>8, <2>3, <2>5 DEF ExpIInv
<1>12. CASE pr.odd = bits[i]
  <2>1. valid' = (valid /\ IF pr.odd THEN OddHolds(pr) ELSE EvenHolds(pr)) /\ UNCHANGED <<step, verdict>>
    BY <1>3, <1>6, <1>12
  <2> DEFINE Shown(j) == Proves(indices[j])
             Fits(j)  == Right(indices[j])
  <2>2. Fits(n) /\ (valid' <=> valid /\ Shown(n)) /\ valid' \in BOOLEAN
    BY <1>2, <1>9, <1>12, <2>1
  <2>3. (\A j \in 1 .. opened : Fits(j)) /\ (valid <=> \A j \in 1 .. opened : Shown(j))
    BY <1>3, VerifyFacts
  <2> HIDE DEF Shown, Fits
  <2>4. \A j \in 1 .. n : j \in 1 .. opened \/ j = n
    BY <1>1, <1>4
  <2>5. \A j \in 1 .. opened : j \in 1 .. n
    BY <1>1, <1>4
  <2>6. n \in 1 .. n
    BY <1>1, <1>4
  <2>7. (\A j \in 1 .. n : Fits(j)) /\ (valid' <=> \A j \in 1 .. n : Shown(j))
    BY <2>2, <2>3, <2>4, <2>5, <2>6, Zenon
  <2>8. /\ \A j \in 1 .. opened' : Right(indices[j])'
        /\ valid' <=> \A j \in 1 .. opened' : Proves(indices[j])'
    <3>1. indices' = indices /\ opened' = n
      BY <1>3
    <3>2. \A j : (Right(indices[j])' <=> Fits(j)) /\ (Proves(indices[j])' <=> Shown(j))
      BY <1>10, <3>1 DEF Shown, Fits
    <3> QED BY <2>7, <3>1, <3>2
  <2>9. Opening'
    BY <1>1, <1>3, <1>4, <1>5, <2>1, <2>2, <2>8 DEF ExpIInv, Opening
  <2>10. Ending'
    BY <1>3, <1>4, <2>1 DEF Ending
  <2> QED BY <1>7, <1>8, <2>9, <2>10 DEF ExpIInv
<1> QED BY <1>11, <1>12

LEMMA EvaluateKeeps ==
  ASSUME ExpIInv, Evaluate
  PROVE  ExpIInv'
<1>1. /\ step = "verify" /\ opened = Len(indices) /\ step' = "end"
      /\ verdict' = IF valid THEN "ok" ELSE "err"
      /\ UNCHANGED <<exp, q, point, level, alphas, challenge, proofs, indices, bits, opened, valid>>
  BY DEF Evaluate
<1>2. /\ level \in Nat /\ Len(proofs) = level /\ valid \in BOOLEAN /\ bits # <<>>
      /\ \A j \in 1 .. opened : Right(indices[j])
      /\ valid <=> \A j \in 1 .. opened : Proves(indices[j])
  BY <1>1, VerifyFacts
<1>3. Secrets'
  BY <1>1, SecretsStay DEF ExpIInv
<1>4. Constructing'
  <2>1. \A j \in 1 .. Len(proofs') : Repetition(j)'
    BY <1>1, RepetitionsStay DEF ExpIInv, Constructing
  <2> QED BY <1>1, <1>2, <2>1 DEF ExpIInv, Constructing
<1>5. Opening'
  BY <1>1 DEF ExpIInv, Opening
<1>6. Ending'
  <2>1. /\ \A j \in 1 .. Len(indices') : Right(indices[j])'
        /\ valid <=> \A j \in 1 .. Len(indices') : Proves(indices[j])'
    BY <1>1, <1>2 DEF Right, Proves, OddHolds, EvenHolds
  <2>2. verdict' \in {"ok", "err"} /\ (verdict' = "ok" <=> valid)
    BY <1>1, <1>2
  <2> QED BY <1>1, <1>2, <2>1, <2>2 DEF Ending
<1> QED BY <1>3, <1>4, <1>5, <1>6 DEF ExpIInv

LEMMA ExpInductive == ASSUME ExpAssumption PROVE ExpIInv /\ [ExpNext]_expVars => ExpIInv'
<1> SUFFICES ASSUME ExpIInv, [ExpNext]_expVars PROVE ExpIInv'
  OBVIOUS
<1>1. ASSUME NEW alpha \in Alphas, DrawAlpha(alpha) PROVE ExpIInv'
  BY <1>1, DrawAlphaKeeps
<1>2. ASSUME NEW cs \in [1 .. level -> BOOLEAN], Hash(cs) PROVE ExpIInv'
  BY <1>2, HashKeeps
<1>3. CASE RespondOdd
  BY <1>3, RespondOddKeeps
<1>4. CASE RespondEven
  BY <1>4, RespondEvenKeeps
<1>5. CASE ReturnProof
  BY <1>5, ReturnProofKeeps
<1>6. ASSUME NEW securityParam \in level - 1 .. level + 1, ExpVerify(securityParam) PROVE ExpIInv'
  BY <1>6, ExpVerifyKeeps
<1>7. CASE Open
  BY <1>7, OpenKeeps
<1>8. CASE Evaluate
  BY <1>8, EvaluateKeeps
<1>9. CASE UNCHANGED expVars
  BY <1>9 DEF expVars, ExpIInv, Secrets, Constructing, Repetition, Opening, Ending, Right,
              Proves, OddHolds, EvenHolds
<1> QED BY <1>1, <1>2, <1>3, <1>4, <1>5, <1>6, <1>7, <1>8, <1>9 DEF ExpNext

-----------------------------------------------------------------------------
(* What the invariant says of the proofs. *)

LEMMA ExpTypes == ASSUME ExpIInv PROVE ExpTypeOK
<1>1. level \in Nat /\ exp \in Scalar /\ q \in Scalar /\ point \in Scalar
  BY DEF ExpIInv, Secrets
<1>2. challenge = <<>> \/ challenge \in [1 .. level -> BOOLEAN]
  BY DEF ExpIInv, Constructing
<1>3. bits = <<>> \/ bits \in [1 .. level -> BOOLEAN]
  BY DEF ExpIInv, Opening
<1>4. challenge \in Seq(BOOLEAN) /\ bits \in Seq(BOOLEAN)
  <2>1. <<>> \in Seq(BOOLEAN)
    OBVIOUS
  <2>2. \A f \in [1 .. level -> BOOLEAN] : f \in Seq(BOOLEAN)
    BY <1>1
  <2> QED BY <1>2, <1>3, <2>1, <2>2
<1>5. /\ alphas \in Seq(Scalar)
      /\ proofs \in Seq([odd : BOOLEAN, a : Scalar \X Scalar, t : Point, z : Scalar, r : Scalar])
  BY DEF ExpIInv, Constructing
<1>6. indices \in Seq(DOMAIN proofs) /\ opened \in 0 .. Len(indices) /\ valid \in BOOLEAN
  BY DEF ExpIInv, Opening
<1>7. /\ step \in {"commit", "respond", "proved", "verify", "end"}
      /\ verdict \in {"none", "ok", "err", "panic"}
  BY DEF ExpIInv, Ending
<1> QED BY <1>1, <1>4, <1>5, <1>6, <1>7 DEF ExpTypeOK

\* The identity is met where the sum of an even bit would be it.
LEMMA GivesUp == ASSUME ExpIInv PROVE GivesUpOnIdentity
<1> SUFFICES ASSUME step = "end", verdict = "err", Len(proofs) < level
             PROVE  /\ challenge # <<>> /\ ~ challenge[Len(proofs) + 1]
                    /\ (alphas[Len(proofs) + 1] - exp + q) % Order = 0
  BY DEF GivesUpOnIdentity
<1>1. level \in Nat /\ challenge \in [1 .. level -> BOOLEAN] /\ Len(proofs) \in Nat
  BY DEF ExpIInv, Secrets, Constructing
<1>2. challenge # <<>>
  <2>1. Len(challenge) = level /\ level # 0
    BY <1>1
  <2>2. Len(<<>>) = 0
    OBVIOUS
  <2> QED BY <2>1, <2>2
<1> QED BY <1>2 DEF ExpIInv, Ending

\* The points of an even bit: the sum left for the verifier, and the random exponent.
LEMMA EvenFacts ==
  ASSUME ExpAssumption, ExpIInv, Verified, NEW i \in DOMAIN proofs, ~ proofs[i].odd
  PROVE  /\ alphas[i] \in Scalar /\ proofs[i].t = Affine(alphas[i])
         /\ (proofs[i].z + q) % Order \in Scalar \ {0}
         /\ Same(Order, (proofs[i].z + q) % Order, (alphas[i] - exp) + q)
         /\ CommitOnBase(proofs[i].z + exp, proofs[i].r + ExpMask) = proofs[i].a
<1> DEFINE d == alphas[i] - exp
           z == d % Order
           s == z + q
           u == s % Order
           m == Masks[i]
           f == m - ExpMask
           n == f % Order
<1>1. /\ step = "end" /\ exp \in Scalar /\ q \in Scalar /\ level \in Nat /\ level <= Len(Masks)
      /\ alphas \in Seq(Scalar) /\ Len(alphas) = level /\ challenge \in [1 .. level -> BOOLEAN]
      /\ Len(proofs) <= level /\ DOMAIN proofs = 1 .. Len(proofs) /\ Len(proofs) \in Nat
      /\ Repetition(i)
  BY DEF ExpIInv, Secrets, Constructing, Verified
<1>2. i \in 1 .. level /\ i \in 1 .. Len(Masks)
  BY <1>1, MaskFacts
<1>3. /\ proofs[i].t = Affine(alphas[i]) /\ proofs[i].a = CommitOnBase(alphas[i], m)
      /\ proofs[i].z = z /\ proofs[i].r = n /\ u # 0
  BY <1>1 DEF Repetition, EvenMask
<1>4. alphas[i] \in Scalar /\ m \in Scalar /\ ExpMask \in Scalar
  BY <1>1, <1>2, MaskFacts DEF ExpAssumption
<1>5. /\ alphas[i] \in Int /\ exp \in Int /\ q \in Int /\ m \in Int /\ ExpMask \in Int
      /\ Order \in Nat \ {0}
  BY <1>1, <1>4, OddOrder
<1>6. d \in Int /\ f \in Int /\ d + exp = alphas[i] /\ f + ExpMask = m
  BY <1>5
<1> HIDE DEF d, f, m
<1>7. z \in Scalar /\ z \in Int /\ Same(Order, z, d) /\ n \in Int /\ Same(Order, n, f)
  BY <1>6, ToScalar
<1> HIDE DEF z, n
<1>8. s \in Int
  BY <1>5, <1>7
<1>9. u \in Scalar /\ Same(Order, u, s)
  <2> HIDE DEF s
  <2> QED BY <1>8, ToScalar
<1>10. Same(Order, s, d + q)
  <2>1. Same(Order, q, q)
    BY DEF Same
  <2> QED BY <1>5, <1>6, <1>7, <2>1, SamePlus
<1>11. CommitOnBase(z + exp, n + ExpMask) = CommitOnBase(alphas[i], m)
  <2>1. Same(Order, exp, exp) /\ Same(Order, ExpMask, ExpMask)
    BY DEF Same
  <2>2. Same(Order, z + exp, d + exp)
    BY <1>5, <1>6, <1>7, <2>1, SamePlus
  <2>3. Same(Order, n + ExpMask, f + ExpMask)
    BY <1>5, <1>6, <1>7, <2>1, SamePlus
  <2> QED BY <1>6, <2>2, <2>3 DEF CommitOnBase, Same
<1>12. Same(Order, u, d + q)
  BY <1>9, <1>10 DEF Same
<1>13. proofs[i].z + q = s
  BY <1>3
<1> HIDE DEF u, s
<1>14. (proofs[i].z + q) % Order = u
  BY <1>13 DEF u
<1> QED BY <1>3, <1>4, <1>9, <1>11, <1>12, <1>14 DEF d

LEMMA HonestExponents == ASSUME ExpAssumption, GroupLaw, ExpIInv PROVE HonestProofsVerify
<1> SUFFICES ASSUME Verified, Honest, bits = challenge, \A i \in DOMAIN proofs : ~ Unprovable(i)
             PROVE  verdict = "ok"
  BY DEF HonestProofsVerify
<1>1. ASSUME NEW i \in DOMAIN proofs PROVE Right(i) /\ Proves(i)
  <2>1. Repetition(i) /\ step = "end"
    BY DEF ExpIInv, Constructing, Verified
  <2>2. Right(i)
    BY <2>1 DEF Repetition, Right
  <2>3. CASE proofs[i].odd
    <3>1. /\ proofs[i].z = alphas[i] /\ proofs[i].r = Masks[i] /\ proofs[i].t = Affine(alphas[i])
          /\ proofs[i].a = CommitOnBase(alphas[i], Masks[i])
      BY <2>1, <2>3 DEF Repetition
    <3>2. OddHolds(proofs[i])
      BY <3>1 DEF OddHolds
    <3> QED BY <2>2, <2>3, <3>2 DEF Proves
  <2>4. CASE ~ proofs[i].odd
    <3> DEFINE u == (proofs[i].z + q) % Order
               d == alphas[i] - exp
               s == d + q
               f == exp - q
               t == u + point
    <3>1. /\ alphas[i] \in Scalar /\ proofs[i].t = Affine(alphas[i]) /\ u \in Scalar /\ u # 0
          /\ Same(Order, u, s)
          /\ CommitOnBase(proofs[i].z + exp, proofs[i].r + ExpMask) = proofs[i].a
      BY <2>4, EvenFacts
    <3>2. u # point /\ u # (-point) % Order
      BY <2>4 DEF Unprovable
    <3> HIDE DEF u
    <3>3. /\ point \in Scalar /\ point # 0 /\ exp \in Scalar /\ q \in Scalar
          /\ point = f % Order
      BY DEF ExpIInv, Secrets, Honest
    <3>4. /\ u \in Int /\ point \in Int /\ exp \in Int /\ q \in Int /\ alphas[i] \in Int
          /\ Order \in Nat \ {0}
      BY <3>1, <3>3, OddOrder
    <3>5. s \in Int /\ f \in Int /\ t \in Int /\ s + f = alphas[i]
      BY <3>4
    <3> HIDE DEF s, f
    <3>6. Same(Order, point, f)
      BY <3>3, <3>5, ToScalar
    <3>7. Same(Order, t, alphas[i])
      BY <3>1, <3>4, <3>5, <3>6, SamePlus
    <3>8. t % Order = alphas[i]
      BY <3>1, <3>7, ScalarIs DEF Same
    <3>9. AddHolds(Affine(u), Affine(point), Affine(t % Order))
      BY <3>1, <3>2, <3>3, SumShown
    <3>10. EvenHolds(proofs[i])
      BY <3>1, <3>8, <3>9 DEF EvenHolds, u
    <3> QED BY <2>2, <2>4, <3>10 DEF Proves
  <2> QED BY <2>2, <2>3, <2>4
<1>2. indices \in Seq(DOMAIN proofs)
  BY DEF ExpIInv, Opening
<1>3. \A j \in 1 .. Len(indices) : Right(indices[j]) /\ Proves(indices[j])
  BY <1>1, <1>2
<1> QED BY <1>3 DEF ExpIInv, Ending, Verified

LEMMA OneEvenBitDecides == ASSUME ExpAssumption, GroupLaw, ExpIInv PROVE EvenBitsDecide
<1> SUFFICES ASSUME Verified, verdict = "ok", NEW j \in DOMAIN indices, ~ proofs[indices[j]].odd
             PROVE  Honest
  BY DEF EvenBitsDecide
<1>1. PICK i : i = indices[j]
  OBVIOUS
<1>2. i \in DOMAIN proofs /\ ~ proofs[i].odd
  BY <1>1 DEF ExpIInv, Opening
<1> DEFINE u == (proofs[i].z + q) % Order
           a == alphas[i]
           d == a - exp
           s == d + q
           f == exp - q
           t == u + point
<1>3. a \in Scalar /\ proofs[i].t = Affine(a) /\ u \in Scalar /\ u # 0 /\ Same(Order, u, s)
  BY <1>2, EvenFacts
<1>4. AddHolds(Affine(u), Affine(point), Affine(a))
  <2>1. j \in 1 .. Len(indices)
    BY DEF ExpIInv, Opening
  <2>2. Proves(i)
    BY <1>1, <2>1 DEF ExpIInv, Ending, Verified
  <2> QED BY <1>2, <1>3, <2>2 DEF Proves, EvenHolds
<1> HIDE DEF u, a
<1>5. point \in Scalar /\ point # 0 /\ exp \in Scalar /\ q \in Scalar
  BY DEF ExpIInv, Secrets
<1>6. a = t % Order
  BY <1>3, <1>4, <1>5, OnlySumsShown
<1>7. /\ u \in Int /\ point \in Int /\ exp \in Int /\ q \in Int /\ a \in Int
      /\ Order \in Nat \ {0}
  BY <1>3, <1>5, OddOrder
<1>8. s \in Int /\ f \in Int /\ t \in Int /\ a - s = f /\ t - u = point
  BY <1>7
<1> HIDE DEF s, f, t
<1>9. Same(Order, a, t) /\ Same(Order, u, u) /\ Same(Order, a, a)
  BY <1>6, <1>8, ToScalar DEF Same
<1>10. Same(Order, a - u, point)
  BY <1>7, <1>8, <1>9, SameMinus
<1>11. Same(Order, a - u, f)
  BY <1>3, <1>7, <1>8, <1>9, SameMinus
<1>12. point = f % Order
  BY <1>5, <1>10, <1>11, ScalarIs DEF Same
<1> QED BY <1>12 DEF Honest, f

\* A proof of a true statement verifies at the level it was made for, but for sums
\* that cannot be shown, and construct gives up on the identity only (exp.rs:131-225,
\* 228-370): on every curve whose multiples form a group, for all exponents, points
\* and numbers of repetitions.
THEOREM ExponentsAreProved ==
  ASSUME ExpAssumption, GroupLaw
  PROVE  ExpSpec => []ExponentsProve
<1>1. ExpInit => ExpIInv
  BY ExpInitial
<1>2. ExpIInv /\ [ExpNext]_expVars => ExpIInv'
  BY ExpInductive
<1>3. ExpIInv => ExponentsProve
  BY ExpTypes, GivesUp, HonestExponents DEF ExponentsProve
<1> QED BY <1>1, <1>2, <1>3, PTL DEF ExpSpec

\* A proof made for another exponent or point verifies only if every repetition
\* opened answers an odd bit (test exp_proof_invalid): one even bit opened shows
\* the statement, whatever was drawn, the identity's made-up coordinates included.
THEOREM EvenBitsSettle ==
  ASSUME ExpAssumption, GroupLaw
  PROVE  ExpSpec => []EvenBitsDecide
<1>1. ExpInit => ExpIInv
  BY ExpInitial
<1>2. ExpIInv /\ [ExpNext]_expVars => ExpIInv'
  BY ExpInductive
<1>3. ExpIInv => EvenBitsDecide
  BY OneEvenBitDecides
<1> QED BY <1>1, <1>2, <1>3, PTL DEF ExpSpec
=============================================================================

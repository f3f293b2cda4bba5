-------------------------- MODULE ArithmeticProofs ---------------------------
(***************************************************************************)
(* The arithmetic of tom256.  For every width, every modulus that fits it  *)
(* and any number of registers: the operations of Scalar and FieldElement  *)
(* give the right residues, and exp_mod_u256 the power it was asked for.   *)
(* For every order, every number of digits that covers the scalars and any *)
(* points: scalar_mul and double_mul return the sum of the multiples.      *)
(***************************************************************************)
EXTENDS ModularArith, ScalarMul, NatTheorems, SequenceTheorems

-----------------------------------------------------------------------------
(* Registers and their residues. *)

LEMMA SizeFacts ==
  /\ Modulus \in Nat \ {0} /\ Modulus > 2
  /\ 2^Width \in Nat \ {0} /\ Modulus < 2^Width
BY ModularAssumption

LEMMA RemainderFacts ==
  ASSUME NEW n \in Int
  PROVE  n % Modulus \in 0 .. Modulus - 1 /\ (n % Modulus) % Modulus = n % Modulus
<1>1. Modulus \in Nat \ {0}
  BY SizeFacts
<1>2. n % Modulus \in 0 .. Modulus - 1
  BY <1>1, ModRange
<1> QED BY <1>1, <1>2, ModSmall

LEMMA WrappedFacts ==
  ASSUME NEW n \in Int
  PROVE  Wrapped(n) \in U256 /\ (n \in U256 => Wrapped(n) = n)
<1> DEFINE N == 2^Width
<1>1. N \in Nat \ {0}
  BY SizeFacts
<1> HIDE DEF N
<1>2. n % N \in 0 .. N - 1 /\ (n \in 0 .. N - 1 => n % N = n)
  BY <1>1, ModRange, ModSmall
<1> QED BY <1>2 DEF N, Wrapped, U256

\* mod_u256 gives the remainder.
LEMMA NewFacts ==
  ASSUME NEW n \in Nat
  PROVE  New(n) = n % Modulus /\ New(n) \in 0 .. Modulus - 1
<1>1. n % Modulus \in 0 .. Modulus - 1
  BY RemainderFacts
<1>2. CASE n < Modulus
  <2>1. n \in 0 .. Modulus - 1
    BY <1>2, SizeFacts
  <2>2. n % Modulus = n
    BY <2>1, SizeFacts, ModSmall
  <2> QED BY <1>2, <2>1, <2>2 DEF New
<1>3. CASE ~(n < Modulus)
  BY <1>1, <1>3 DEF New
<1> QED BY <1>2, <1>3

-----------------------------------------------------------------------------
\* One operation on two registers: what it leaves is reduced, and the residue
\* if it stands the operands.
Ops == {"add", "sub", "neg", "mul"}

LEMMA AddFacts ==
  ASSUME NEW a \in U256, NEW b \in U256
  PROVE  /\ AddMod(a, b) \in Nat
         /\ a < Modulus \/ b < Modulus => New(AddMod(a, b)) = (a + b) % Modulus
<1>1. a \in Nat /\ b \in Nat /\ a < 2^Width /\ b < 2^Width
  BY SizeFacts DEF U256
<1>2. CASE a + b >= Modulus
  <2> DEFINE c == a + b - Modulus
  <2>1. c \in Nat
    BY <1>1, <1>2, SizeFacts
  <2>2. AddMod(a, b) = Wrapped(c)
    BY <1>2 DEF AddMod
  <2>3. Wrapped(c) \in Nat
    <3> HIDE DEF c
    <3> QED BY <2>1, WrappedFacts, SizeFacts DEF U256
  <2>4. ASSUME a < Modulus \/ b < Modulus PROVE New(AddMod(a, b)) = (a + b) % Modulus
    <3>1. c \in U256
      BY <1>1, <2>1, <2>4, SizeFacts DEF U256
    <3>2. Wrapped(c) = c
      <4> HIDE DEF c
      <4> QED BY <2>1, <3>1, WrappedFacts
    <3>3. New(c) = c % Modulus
      <4> HIDE DEF c
      <4> QED BY <2>1, NewFacts
    <3>4. c % Modulus = (a + b) % Modulus
      <4> DEFINE k == -1
                 d == a + b
      <4>1. c = d + k * Modulus /\ d \in Int /\ k \in Int
        BY <1>1, SizeFacts
      <4> HIDE DEF c, d, k
      <4>2. (d + k * Modulus) % Modulus = d % Modulus
        BY <4>1, ModShift, SizeFacts
      <4> QED BY <4>1, <4>2 DEF d
    <3> QED BY <2>2, <3>2, <3>3, <3>4
  <2> QED BY <2>2, <2>3, <2>4
<1>3. CASE ~(a + b >= Modulus)
  <2>1. AddMod(a, b) = a + b
    BY <1>3 DEF AddMod
  <2>2. a + b \in Nat
    BY <1>1
  <2>3. New(a + b) = (a + b) % Modulus
    BY <2>2, NewFacts
  <2> QED BY <2>1, <2>2, <2>3
<1> QED BY <1>2, <1>3

LEMMA SubFacts ==
  ASSUME NEW a \in U256, NEW b \in U256
  PROVE  /\ SubMod(a, b) \in Nat
         /\ b < Modulus \/ a >= b => New(SubMod(a, b)) = (a - b) % Modulus
<1>1. a \in Nat /\ b \in Nat /\ a < 2^Width /\ b < 2^Width
  BY SizeFacts DEF U256
<1>2. CASE a >= b
  <2>1. SubMod(a, b) = a - b /\ a - b \in Nat
    BY <1>1, <1>2 DEF SubMod
  <2> QED BY <2>1, NewFacts
<1>3. CASE ~(a >= b)
  <2> DEFINE c == a - b + Modulus
  <2>1. SubMod(a, b) = Wrapped(c) /\ c \in Int
    BY <1>1, <1>3, SizeFacts DEF SubMod
  <2>2. Wrapped(c) \in Nat
    <3> HIDE DEF c
    <3> QED BY <2>1, WrappedFacts, SizeFacts DEF U256
  <2>3. ASSUME b < Modulus PROVE New(SubMod(a, b)) = (a - b) % Modulus
    <3>1. c \in U256 /\ c \in Nat
      BY <1>1, <1>3, <2>3, SizeFacts DEF U256
    <3>2. Wrapped(c) = c /\ New(c) = c % Modulus
      <4> HIDE DEF c
      <4> QED BY <3>1, WrappedFacts, NewFacts
    <3>3. c % Modulus = (a - b) % Modulus
      <4> DEFINE k == 1
                 d == a - b
      <4>1. c = d + k * Modulus /\ d \in Int /\ k \in Int
        BY <1>1, SizeFacts
      <4> HIDE DEF c, d, k
      <4>2. (d + k * Modulus) % Modulus = d % Modulus
        BY <4>1, ModShift, SizeFacts
      <4> QED BY <4>1, <4>2 DEF d
    <3> QED BY <2>1, <3>2, <3>3
  <2> QED BY <1>3, <2>1, <2>2, <2>3
<1> QED BY <1>2, <1>3

LEMMA NegFacts ==
  ASSUME NEW a \in U256
  PROVE  /\ NegMod(a) \in Nat
         /\ a <= Modulus => New(NegMod(a)) = (-a) % Modulus
<1>1. a \in Nat /\ a < 2^Width
  BY SizeFacts DEF U256
<1>2. CASE a = 0
  <2>1. NegMod(a) = 0
    BY <1>2 DEF NegMod
  <2>2. New(0) = 0 % Modulus
    BY NewFacts
  <2>3. a <= 0 /\ a >= 0
    BY <1>2
  <2>4. -a = 0
    BY <1>1, <2>3
  <2> QED BY <2>1, <2>2, <2>4
<1>3. CASE a # 0
  <2> DEFINE c == Modulus - a
  <2>1. NegMod(a) = Wrapped(c) /\ c \in Int
    BY <1>1, <1>3, SizeFacts DEF NegMod
  <2>2. Wrapped(c) \in Nat
    <3> HIDE DEF c
    <3> QED BY <2>1, WrappedFacts, SizeFacts DEF U256
  <2>3. ASSUME a <= Modulus PROVE New(NegMod(a)) = (-a) % Modulus
    <3>1. c \in U256 /\ c \in Nat
      BY <1>1, <2>3, SizeFacts DEF U256
    <3>2. Wrapped(c) = c /\ New(c) = c % Modulus
      <4> HIDE DEF c
      <4> QED BY <3>1, WrappedFacts, NewFacts
    <3>3. c % Modulus = (-a) % Modulus
      <4> DEFINE k == 1
                 d == -a
      <4>1. c = d + k * Modulus /\ d \in Int /\ k \in Int
        BY <1>1, SizeFacts
      <4> HIDE DEF c, d, k
      <4>2. (d + k * Modulus) % Modulus = d % Modulus
        BY <4>1, ModShift, SizeFacts
      <4> QED BY <4>1, <4>2 DEF d
    <3> QED BY <2>1, <3>2, <3>3
  <2> QED BY <2>1, <2>2, <2>3
<1> QED BY <1>2, <1>3

LEMMA MulFacts ==
  ASSUME NEW a \in Nat, NEW b \in Nat
  PROVE  /\ MulMod(a, b) = (a * b) % Modulus
         /\ MulMod(a, b) \in 0 .. Modulus - 1
         /\ New(MulMod(a, b)) = (a * b) % Modulus
<1> DEFINE c == a * b
<1>1. c \in Nat /\ c \in Int
  BY Z3
<1> HIDE DEF c
<1>2. /\ c % Modulus \in 0 .. Modulus - 1
      /\ (c % Modulus) % Modulus = c % Modulus
  BY <1>1, RemainderFacts
<1>3. New(c % Modulus) = c % Modulus
  <2>1. c % Modulus \in Nat
    BY <1>2, SizeFacts
  <2> QED BY <1>2, <2>1, NewFacts
<1> QED BY <1>2, <1>3 DEF c, MulMod

LEMMA ApplyFacts ==
  ASSUME NEW op \in Ops, NEW a \in U256, NEW b \in U256
  PROVE  /\ Apply(op, a, b) \in 0 .. Modulus - 1
         /\ Stands(op, a, b) => Apply(op, a, b) = Residue(op, a, b)
<1>0. a \in Nat /\ b \in Nat
  BY SizeFacts DEF U256
<1>1. CASE op = "add"
  BY <1>1, AddFacts, NewFacts DEF Apply, Stands, Residue
<1>2. CASE op = "sub"
  BY <1>2, SubFacts, NewFacts DEF Apply, Stands, Residue
<1>3. CASE op = "neg"
  BY <1>3, NegFacts, NewFacts DEF Apply, Stands, Residue
<1>4. CASE op = "mul"
  <2>1. MulMod(a, b) \in Nat
    BY <1>0, MulFacts, SizeFacts
  <2> QED BY <1>0, <1>4, <2>1, MulFacts, NewFacts DEF Apply, Stands, Residue
<1> QED BY <1>1, <1>2, <1>3, <1>4 DEF Ops

\* The residue of a result is that of the operands' residues.
LEMMA ResidueFacts ==
  ASSUME NEW op \in Ops, NEW a \in Int, NEW b \in Int
  PROVE  /\ Residue(op, a % Modulus, b % Modulus) = Residue(op, a, b)
         /\ Residue(op, a, b) \in 0 .. Modulus - 1
<1> DEFINE M == Modulus
           r == a % M
           t == b % M
<1>1. M \in Nat \ {0}
  BY SizeFacts
<1>2. PICK g \in Int : a = g * M + r
  BY <1>1, ModRange
<1>3. PICK p \in Int : b = p * M + t
  BY <1>1, ModRange
<1>4. r \in Int /\ t \in Int
  BY <1>1, ModRange
<1> HIDE DEF M, r, t
<1>5. /\ (a + b) % M = (r + t) % M
      /\ (a - b) % M = (r - t) % M
      /\ (-a) % M = (-r) % M
  <2> DEFINE k == g + p
             l == g - p
             m == -g
  <2>1. k \in Int /\ l \in Int /\ m \in Int
    OBVIOUS
  <2>2. a + b = (r + t) + k * M
    BY <1>1, <1>2, <1>3, <1>4, Z3
  <2>3. a - b = (r - t) + l * M
    BY <1>1, <1>2, <1>3, <1>4, Z3
  <2>4. -a = (-r) + m * M
    BY <1>1, <1>2, <1>4, Z3
  <2> HIDE DEF k, l, m
  <2>5. r + t \in Int /\ r - t \in Int /\ -r \in Int
    BY <1>4
  <2>6. ((r + t) + k * M) % M = (r + t) % M
    BY <1>1, <2>1, <2>5, ModShift
  <2>7. ((r - t) + l * M) % M = (r - t) % M
    BY <1>1, <2>1, <2>5, ModShift
  <2>8. ((-r) + m * M) % M = (-r) % M
    BY <1>1, <2>1, <2>5, ModShift
  <2> QED BY <2>2, <2>3, <2>4, <2>6, <2>7, <2>8
<1>6. (a * b) % M = (r * t) % M
  <2>1. (r * b) % M = (a * b) % M
    BY <1>1, ModTimes DEF r
  <2>2. (t * r) % M = (b * r) % M
    BY <1>1, <1>4, ModTimes DEF t
  <2>3. t * r = r * t /\ b * r = r * b
    BY <1>4, Z3
  <2> QED BY <2>1, <2>2, <2>3
<1>7. /\ (a + b) % M \in 0 .. M - 1 /\ (a - b) % M \in 0 .. M - 1
      /\ (-a) % M \in 0 .. M - 1 /\ (a * b) % M \in 0 .. M - 1
  <2> DEFINE c == a * b
  <2>1. a + b \in Int /\ a - b \in Int /\ -a \in Int /\ c \in Int
    BY Z3
  <2> HIDE DEF c
  <2>2. c % M \in 0 .. M - 1
    BY <2>1, RemainderFacts DEF M
  <2>3. (a + b) % M \in 0 .. M - 1 /\ (a - b) % M \in 0 .. M - 1 /\ (-a) % M \in 0 .. M - 1
    BY <2>1, RemainderFacts DEF M
  <2> QED BY <2>2, <2>3 DEF c
<1>8. op \in {"add", "sub", "neg", "mul"}
  BY DEF Ops
<1> QED BY <1>5, <1>6, <1>7, <1>8 DEF Residue, M, r, t

-----------------------------------------------------------------------------
\* The powers satisfy their recursive equation and are residues.
LEMMA PowersDef ==
  ASSUME NEW b \in Nat
  PROVE  /\ \A n \in Nat : PowMod(b, n) \in 0 .. Modulus - 1
         /\ PowMod(b, 0) = 1
         /\ \A n \in Nat : PowMod(b, n + 1) = (PowMod(b, n) * b) % Modulus
<1> DEFINE S == 0 .. Modulus - 1
           c == 1 % Modulus
           G == [n \in Nat |-> [x \in S |-> (x * b) % Modulus]]
<1>0. Modulus \in Nat \ {0} /\ Modulus > 2
  BY SizeFacts
<1>1. c = 1
  <2>1. 1 \in 0 .. Modulus - 1
    BY <1>0
  <2> QED BY <1>0, <2>1, ModSmall
<1>2. c \in S
  BY <1>0, <1>1
<1>3. \A x \in S : (x * b) % Modulus \in S
  <2> TAKE x \in S
  <2>1. x * b \in Int
    BY <1>0, Z3
  <2> QED BY <2>1, RemainderFacts
<1>4. G \in [Nat -> [S -> S]]
  <2> HIDE DEF S
  <2> QED BY <1>3
<1>5. PICK s \in [Nat -> S] : Follows(s, c, G)
  <2> HIDE DEF S, c, G
  <2> QED BY <1>2, <1>4, NatRecursion, Zenon
<1>6. s[0] = 1 % Modulus
  BY <1>5 DEF Follows
<1>7. ASSUME NEW n \in Nat PROVE s[n + 1] = (s[n] * b) % Modulus
  <2>1. s[n + 1] = G[n + 1][s[n]] /\ s[n] \in S /\ n + 1 \in Nat
    <3> HIDE DEF S, G
    <3> QED BY <1>5 DEF Follows
  <2> HIDE DEF S
  <2> QED BY <2>1
<1>8. s = [k \in Nat |-> IF k = 0 THEN 1 % Modulus ELSE (s[k - 1] * b) % Modulus]
  <2>1. ASSUME NEW k \in Nat, k # 0 PROVE s[k] = (s[k - 1] * b) % Modulus
    <3>1. k - 1 \in Nat /\ (k - 1) + 1 = k
      BY <2>1
    <3>2. s[(k - 1) + 1] = (s[k - 1] * b) % Modulus
      BY <1>7, <3>1
    <3> QED BY <3>1, <3>2
  <2>2. s = [k \in Nat |-> s[k]]
    OBVIOUS
  <2> QED BY <1>6, <2>1, <2>2, Zenon
<1> DEFINE P == Powers(b)
<1>9. P = [k \in Nat |-> IF k = 0 THEN 1 % Modulus ELSE (P[k - 1] * b) % Modulus]
  BY <1>8 DEF Powers
<1> HIDE DEF P
<1>10. P[0] = c /\ \A n \in Nat : P[n + 1] = (P[n] * b) % Modulus
  <2>1. ASSUME NEW n \in Nat PROVE P[n + 1] = (P[n] * b) % Modulus
    <3>1. n + 1 \in Nat /\ n + 1 # 0 /\ (n + 1) - 1 = n
      OBVIOUS
    <3>2. P[n + 1] = (P[(n + 1) - 1] * b) % Modulus
      BY <1>9, <3>1, Zenon
    <3> QED BY <3>1, <3>2
  <2>2. P[0] = 1 % Modulus
    BY <1>9
  <2> QED BY <2>1, <2>2
<1>11. \A n \in Nat : P[n] \in S
  <2> DEFINE T == {n \in Nat : P[n] \in S}
  <2>1. 0 \in T
    BY <1>2, <1>10
  <2>2. \A n \in T : n + 1 \in T
    BY <1>3, <1>10
  <2>3. T = Nat
    <3> HIDE DEF T
    <3>1. T \in SUBSET Nat
      BY DEF T
    <3> QED BY <2>1, <2>2, <3>1, NatSetInduction
  <2> QED BY <2>3
<1> QED BY <1>1, <1>10, <1>11 DEF P, PowMod

\* Reducing the second factor first does not matter either.
LEMMA TimesFacts ==
  ASSUME NEW a \in Int, NEW b \in Int
  PROVE  /\ (a * (b % Modulus)) % Modulus = (a * b) % Modulus
         /\ ((a % Modulus) * b) % Modulus = (a * b) % Modulus
<1> DEFINE r == b % Modulus
<1>1. Modulus \in Nat \ {0}
  BY SizeFacts
<1>2. r \in Int
  BY <1>1, RemainderFacts
<1>3. (r * a) % Modulus = (b * a) % Modulus
  BY <1>1, ModTimes
<1>4. ((a % Modulus) * b) % Modulus = (a * b) % Modulus
  BY <1>1, ModTimes
<1> HIDE DEF r
<1>5. r * a = a * r /\ b * a = a * b
  BY <1>2, Z3
<1> QED BY <1>3, <1>4, <1>5 DEF r

\* A power of the residue is that of the number.
LEMMA PowReduced ==
  ASSUME NEW b \in Nat
  PROVE  \A n \in Nat : PowMod(b % Modulus, n) = PowMod(b, n)
<1> DEFINE c == b % Modulus
           T == {n \in Nat : PowMod(c, n) = PowMod(b, n)}
<1>1. c \in Nat
  BY RemainderFacts, SizeFacts
<1>2. 0 \in T
  <2> HIDE DEF c
  <2> QED BY <1>1, PowersDef
<1>3. ASSUME NEW n \in T PROVE n + 1 \in T
  <2> DEFINE x == PowMod(b, n)
  <2>1. x \in Int /\ n + 1 \in Nat
    BY PowersDef, SizeFacts
  <2>2. PowMod(c, n + 1) = (PowMod(c, n) * c) % Modulus
    <3> HIDE DEF c
    <3> QED BY <1>1, PowersDef
  <2>3. PowMod(b, n + 1) = (x * b) % Modulus
    BY PowersDef
  <2>4. PowMod(c, n) = x
    OBVIOUS
  <2>5. (x * c) % Modulus = (x * b) % Modulus
    <3> HIDE DEF x
    <3> QED BY <2>1, TimesFacts
  <2>6. PowMod(c, n + 1) = PowMod(b, n + 1)
    <3> HIDE DEF x, c, T
    <3> QED BY <2>2, <2>3, <2>4, <2>5
  <2> HIDE DEF c
  <2> QED BY <2>1, <2>6
<1>4. T = Nat
  <2>1. T \in SUBSET Nat
    OBVIOUS
  <2> HIDE DEF T
  <2> QED BY <1>2, <1>3, <2>1, NatSetInduction
<1> QED BY <1>4

\* An even power is a power of the square.
LEMMA PowSquare ==
  ASSUME NEW g \in Nat
  PROVE  \A j \in Nat : PowMod(g, 2 * j) = PowMod(MulMod(g, g), j)
<1> DEFINE s == MulMod(g, g)
           T == {j \in Nat : PowMod(g, 2 * j) = PowMod(s, j)}
<1>1. s \in Nat /\ s = (g * g) % Modulus
  <2>1. s \in 0 .. Modulus - 1 /\ s = (g * g) % Modulus
    BY MulFacts
  <2> HIDE DEF s
  <2> QED BY <2>1, SizeFacts
<1>2. 0 \in T
  <2>1. 2 * 0 = 0
    OBVIOUS
  <2> HIDE DEF s
  <2> QED BY <1>1, <2>1, PowersDef
<1>3. ASSUME NEW j \in T PROVE j + 1 \in T
  <2> DEFINE x == PowMod(g, 2 * j)
             y == (x * g) % Modulus
  <2>1. j \in Nat /\ 2 * j \in Nat /\ 2 * j + 1 \in Nat /\ 2 * (j + 1) = (2 * j + 1) + 1
    OBVIOUS
  <2>2. x \in Int /\ x = PowMod(s, j)
    BY <2>1, PowersDef, SizeFacts
  <2>3. PowMod(g, 2 * (j + 1)) = (y * g) % Modulus
    <3>1. PowMod(g, 2 * j + 1) = y
      BY <2>1, PowersDef
    <3>2. PowMod(g, (2 * j + 1) + 1) = (PowMod(g, 2 * j + 1) * g) % Modulus
      BY <2>1, PowersDef
    <3> QED BY <2>1, <3>1, <3>2
  <2>4. PowMod(s, j + 1) = (x * s) % Modulus
    <3>1. PowMod(s, j + 1) = (PowMod(s, j) * s) % Modulus
      <4> HIDE DEF s
      <4> QED BY <1>1, <2>1, PowersDef
    <3> HIDE DEF x, s
    <3> QED BY <2>2, <3>1
  <2>5. (y * g) % Modulus = (x * s) % Modulus
    <3> HIDE DEF x, s
    <3> DEFINE u == x * g
               v == g * g
    <3>1. u \in Int /\ v \in Int
      BY <2>2, Z3
    <3>2. u * g = x * v
      BY <2>2, Z3
    <3> HIDE DEF u, v
    <3>3. ((u % Modulus) * g) % Modulus = (u * g) % Modulus
      BY <3>1, TimesFacts
    <3>4. (x * (v % Modulus)) % Modulus = (x * v) % Modulus
      BY <2>2, <3>1, TimesFacts
    <3> QED BY <1>1, <3>2, <3>3, <3>4 DEF u, v
  <2>6. PowMod(g, 2 * (j + 1)) = PowMod(s, j + 1)
    <3> HIDE DEF x, y, s, T
    <3> QED BY <2>3, <2>4, <2>5
  <2> HIDE DEF s
  <2> QED BY <2>1, <2>6
<1>4. T = Nat
  <2>1. T \in SUBSET Nat
    OBVIOUS
  <2> HIDE DEF T
  <2> QED BY <1>2, <1>3, <2>1, NatSetInduction
<1> QED BY <1>4

\* A turn of exp_mod_u256's loop keeps its locals' types and the power.
LEMMA TurnFacts ==
  ASSUME NEW l \in Loops, l.k > 0
  PROVE  /\ ExpTurn(l) \in Loops
         /\ ExpTurn(l).base = l.base /\ ExpTurn(l).exponent = l.exponent
         /\ (ExpTurn(l).r * PowMod(ExpTurn(l).q, ExpTurn(l).k)) % Modulus
              = (l.r * PowMod(l.q, l.k)) % Modulus
<1> DEFINE r == l.r
           g == l.q
           k == l.k
           j == k \div 2
           s == MulMod(g, g)
           t == ExpTurn(l)
           y == PowMod(s, j)
<1>1. r \in Nat /\ g \in Nat /\ k \in Nat /\ r \in 0 .. Modulus - 1
  BY SizeFacts DEF Loops, U256
<1>2. j \in Nat
  BY <1>1
<1>3. s \in 0 .. Modulus - 1 /\ s \in Nat /\ s \in U256
  <2>1. s \in 0 .. Modulus - 1
    BY <1>1, MulFacts
  <2> HIDE DEF s
  <2> QED BY <2>1, SizeFacts DEF U256
<1>4. MulMod(r, g) \in 0 .. Modulus - 1 /\ MulMod(r, g) = (r * g) % Modulus
  BY <1>1, MulFacts
<1>5. /\ t.r = IF k % 2 # 0 THEN MulMod(r, g) ELSE r
      /\ t.q = s /\ t.k = j /\ t.base = l.base /\ t.exponent = l.exponent /\ t.to = l.to
  <2>1. t.r = IF k % 2 # 0 THEN MulMod(r, g) ELSE r
    BY DEF ExpTurn, Loops
  <2>2. t.q = s
    BY DEF ExpTurn, Loops
  <2>3. t.k = j
    BY DEF ExpTurn, Loops
  <2>4. t.base = l.base /\ t.exponent = l.exponent /\ t.to = l.to
    BY DEF ExpTurn, Loops
  <2> HIDE DEF t, r, g, k, s, j
  <2> QED BY <2>1, <2>2, <2>3, <2>4
<1>6. t \in Loops
  <2> DEFINE m == IF k % 2 # 0 THEN MulMod(r, g) ELSE r
  <2>1. m \in 0 .. Modulus - 1
    BY <1>1, <1>4
  <2>2. t = [l EXCEPT !.r = m, !.q = s, !.k = j]
    BY DEF ExpTurn
  <2> HIDE DEF t, s, j, m
  <2> QED BY <1>2, <1>3, <2>1, <2>2 DEF Loops
<1>7. y \in Int /\ y \in Nat
  <2> HIDE DEF s, j
  <2>1. y \in 0 .. Modulus - 1
    BY <1>2, <1>3, PowersDef
  <2> HIDE DEF y
  <2> QED BY <2>1, SizeFacts
<1>8. PowMod(g, 2 * j) = y
  <2> HIDE DEF g, j
  <2> QED BY <1>1, <1>2, PowSquare
<1>9. CASE k % 2 = 0
  <2>1. k = 2 * j
    BY <1>1, <1>9
  <2>2. PowMod(g, k) = y /\ t.r = r
    <3> HIDE DEF j, k, g, t, y
    <3> QED BY <1>5, <1>8, <1>9, <2>1
  <2>3. (t.r * PowMod(t.q, t.k)) % Modulus = (r * PowMod(g, k)) % Modulus
    <3> HIDE DEF t, r, g, k, s, j
    <3> QED BY <1>5, <2>2
  <2> QED BY <1>5, <1>6, <2>3
<1>10. CASE k % 2 # 0
  <2>1. k = 2 * j + 1 /\ 2 * j \in Nat
    BY <1>1, <1>10
  <2>2. PowMod(g, k) = (y * g) % Modulus
    <3>1. PowMod(g, 2 * j + 1) = (PowMod(g, 2 * j) * g) % Modulus
      <4> HIDE DEF g, j
      <4> QED BY <1>1, <2>1, PowersDef
    <3> HIDE DEF j, k, g, y
    <3> QED BY <1>8, <2>1, <3>1
  <2>3. (((r * g) % Modulus) * y) % Modulus = (r * ((y * g) % Modulus)) % Modulus
    <3> HIDE DEF r, g, y
    <3> DEFINE u == r * g
               v == y * g
    <3>1. u \in Int /\ v \in Int
      BY <1>1, <1>7, Z3
    <3>2. u * y = r * v
      BY <1>1, <1>7, Z3
    <3> HIDE DEF u, v
    <3>3. ((u % Modulus) * y) % Modulus = (u * y) % Modulus
      BY <1>7, <3>1, TimesFacts
    <3>4. (r * (v % Modulus)) % Modulus = (r * v) % Modulus
      BY <1>1, <3>1, TimesFacts
    <3> QED BY <3>2, <3>3, <3>4 DEF u, v
  <2>4. t.r = (r * g) % Modulus
    <3> HIDE DEF t, r, g, k
    <3> QED BY <1>4, <1>5, <1>10
  <2>5. (t.r * PowMod(t.q, t.k)) % Modulus = (r * PowMod(g, k)) % Modulus
    <3> HIDE DEF t, r, g, k, s, j
    <3> QED BY <1>5, <2>2, <2>3, <2>4
  <2> QED BY <1>5, <1>6, <2>5
<1> QED BY <1>9, <1>10

-----------------------------------------------------------------------------
\* The residues are not inductive alone: that a power returned is the one
\* meant needs the power kept at every turn, and both need types.
IInv == TypeOK /\ ResiduesAgree /\ PowerKept

THEOREM Initial == Init => IInv
<1> SUFFICES ASSUME Init PROVE IInv
  OBVIOUS
<1>1. 0 \in 0 .. Modulus - 1 /\ 0 \in U256 /\ 0 < Modulus
  BY SizeFacts DEF U256
<1>2. 0 % Modulus = 0
  BY <1>1, SizeFacts, ModSmall
<1>3. TypeOK
  BY <1>1 DEF Init, TypeOK
<1>4. ResiduesAgree
  BY <1>1, <1>2 DEF Init, ResiduesAgree
<1>5. PowerKept
  BY DEF Init, PowerKept
<1> QED BY <1>3, <1>4, <1>5 DEF IInv

\* Every operation ends in writing one register; the invariant needs that its value
\* has the residue noted for it and is reduced unless it was read.
LEMMA WriteFacts ==
  ASSUME IInv, NEW r \in Registers, NEW v \in U256,
         NEW m \in (0 .. Modulus - 1) \cup {Unknown},
         m # Unknown => v % Modulus = m,
         Write(r, v, m),
         read' = read \cup {r} \/ (read' = read \ {r} /\ v < Modulus),
         loop' = <<>>
  PROVE  IInv'
<1>1. /\ regs' = [regs EXCEPT ![r] = v] /\ means' = [means EXCEPT ![r] = m]
      /\ regs \in [Registers -> U256]
      /\ means \in [Registers -> (0 .. Modulus - 1) \cup {Unknown}]
      /\ read \subseteq Registers
  BY DEF IInv, TypeOK, Write
<1>2. TypeOK'
  BY <1>1 DEF TypeOK
<1>3. ResiduesAgree'
  <2>1. ASSUME NEW p \in Registers
        PROVE  /\ means'[p] # Unknown => regs'[p] % Modulus = means'[p]
               /\ p \notin read' => regs'[p] < Modulus
    <3>1. CASE p = r
      <4>1. regs'[p] = v /\ means'[p] = m
        BY <1>1, <3>1
      <4> QED BY <3>1, <4>1
    <3>2. CASE p # r
      <4>1. regs'[p] = regs[p] /\ means'[p] = means[p] /\ (p \notin read' => p \notin read)
        BY <1>1, <3>2
      <4> QED BY <4>1 DEF IInv, ResiduesAgree
    <3> QED BY <3>1, <3>2
  <2> QED BY <2>1 DEF ResiduesAgree
<1>4. PowerKept'
  BY DEF PowerKept
<1> QED BY <1>2, <1>3, <1>4 DEF IInv

\* exp_mod_u256 starts with the power it was asked for.
LEMMA StartFacts ==
  ASSUME IInv, NEW b \in Registers, NEW e \in U256, NEW to \in Registers,
         ExpStart(b, e, to), UNCHANGED <<regs, means, read>>
  PROVE  IInv'
<1>1. /\ loop' = [to |-> to, base |-> b, exponent |-> e, r |-> 1, q |-> regs[b], k |-> e]
      /\ regs' = regs /\ means' = means /\ read' = read
  BY DEF ExpStart
<1>2. regs[b] \in U256 /\ regs[b] \in Nat /\ e \in Nat /\ 1 \in 0 .. Modulus - 1
  BY SizeFacts DEF IInv, TypeOK, U256
<1>3. loop' \in Loops
  BY <1>1, <1>2 DEF Loops
<1>4. TypeOK'
  <2>1. Loops' = Loops
    BY DEF Loops, U256
  <2> QED BY <1>1, <1>3 DEF IInv, TypeOK, U256, Loops
<1>5. ResiduesAgree'
  BY <1>1 DEF IInv, ResiduesAgree
<1>6. PowerKept'
  <2> DEFINE x == PowMod(regs[b], e)
  <2>1. x \in 0 .. Modulus - 1 /\ x \in Int
    <3>1. x \in 0 .. Modulus - 1
      BY <1>2, PowersDef
    <3> HIDE DEF x
    <3> QED BY <3>1, SizeFacts
  <2>2. (1 * x) % Modulus = x
    <3> HIDE DEF x
    <3>1. 1 * x = x
      BY <2>1
    <3>2. x % Modulus = x
      BY <2>1, SizeFacts, ModSmall
    <3> QED BY <3>1, <3>2
  <2>3. /\ loop'.r = 1 /\ loop'.q = regs[b] /\ loop'.k = e /\ loop'.base = b
        /\ loop'.exponent = e
    BY <1>1
  <2>4. (loop'.r * PowMod(loop'.q, loop'.k)) % Modulus = PowMod(regs'[loop'.base], loop'.exponent)
    BY <1>1, <2>2, <2>3
  <2> QED BY <2>4 DEF PowerKept, PowMod, Powers
<1> QED BY <1>4, <1>5, <1>6 DEF IInv

LEMMA RemainderInRegister ==
  ASSUME NEW n \in 0 .. Modulus - 1
  PROVE  n \in U256 /\ n \in Nat /\ n < Modulus /\ n % Modulus = n
<1>1. n \in U256 /\ n \in Nat /\ n < Modulus
  BY SizeFacts DEF U256
<1> QED BY <1>1, SizeFacts, ModSmall

THEOREM Inductive == IInv /\ [Next]_vars => IInv'
<1> SUFFICES ASSUME IInv, [Next]_vars PROVE IInv'
  OBVIOUS
<1>1. ASSUME NEW r \in Registers, NEW n \in U256, NewValue(r, n) PROVE IInv'
  <2>1. n \in Nat /\ n \in Int
    BY SizeFacts DEF U256
  <2> DEFINE v == New(n)
             m == n % Modulus
  <2>2. v = m /\ m \in 0 .. Modulus - 1
    BY <2>1, NewFacts
  <2>3. Write(r, v, m) /\ read' = read \ {r} /\ loop' = <<>>
    BY <1>1 DEF NewValue
  <2> HIDE DEF v, m
  <2> QED BY <2>2, <2>3, RemainderInRegister, WriteFacts
<1>2. ASSUME NEW r \in Registers, NEW n \in U256, Random(r, n) PROVE IInv'
  <2>1. n \in 0 .. Modulus - 1 /\ n \in Nat
    BY <1>2, SizeFacts DEF Random, U256
  <2> DEFINE v == New(n)
  <2>2. v = n
    BY <2>1, NewFacts, RemainderInRegister
  <2>3. Write(r, v, n) /\ read' = read \ {r} /\ loop' = <<>>
    BY <1>2 DEF Random
  <2> HIDE DEF v
  <2> QED BY <2>1, <2>2, <2>3, RemainderInRegister, WriteFacts
<1>3. ASSUME NEW r \in Registers, NEW n \in U256, Deserialize(r, n) PROVE IInv'
  <2>1. n \in Int
    BY SizeFacts DEF U256
  <2> DEFINE m == n % Modulus
  <2>2. m \in 0 .. Modulus - 1
    BY <2>1, RemainderFacts
  <2>3. Write(r, n, m) /\ read' = read \cup {r} /\ loop' = <<>> /\ n % Modulus = m
    BY <1>3 DEF Deserialize
  <2> HIDE DEF m
  <2> QED BY <2>2, <2>3, WriteFacts
<1>4. ASSUME NEW op \in Ops, NEW a \in Registers, NEW b \in Registers, NEW to \in Registers,
             Operate(op, a, b, to)
      PROVE  IInv'
  <2> DEFINE v == Apply(op, regs[a], regs[b])
             m == Meaning(op, a, b)
  <2>1. regs[a] \in U256 /\ regs[b] \in U256 /\ regs[a] \in Int /\ regs[b] \in Int
    BY SizeFacts DEF IInv, TypeOK, U256
  <2>2. v \in 0 .. Modulus - 1
    BY <2>1, ApplyFacts
  <2>3. Unknown \notin {means[a], means[b]} /\ Stands(op, regs[a], regs[b])
          => m = v
    <3> SUFFICES ASSUME Unknown \notin {means[a], means[b]}, Stands(op, regs[a], regs[b])
                 PROVE  m = v
      OBVIOUS
    <3>1. means[a] = regs[a] % Modulus /\ means[b] = regs[b] % Modulus
      BY DEF IInv, ResiduesAgree
    <3>2. m = Residue(op, means[a], means[b])
      BY DEF Meaning
    <3>3. Residue(op, regs[a] % Modulus, regs[b] % Modulus) = Residue(op, regs[a], regs[b])
      BY <2>1, ResidueFacts
    <3>4. v = Residue(op, regs[a], regs[b])
      BY <2>1, ApplyFacts
    <3> HIDE DEF v, m
    <3> QED BY <3>1, <3>2, <3>3, <3>4
  <2>4. m = Unknown \/ m = v
    BY <2>3 DEF Meaning
  <2>5. Write(to, v, m) /\ read' = read \ {to} /\ loop' = <<>>
    BY <1>4 DEF Operate
  <2> HIDE DEF v, m
  <2> QED BY <2>2, <2>4, <2>5, RemainderInRegister, WriteFacts
<1>5. ASSUME NEW a \in Registers, NEW e \in Registers, NEW to \in Registers, Pow(a, e, to)
      PROVE  IInv'
  <2>1. regs[e] \in U256
    BY DEF IInv, TypeOK
  <2> QED BY <1>5, <2>1, StartFacts DEF Pow
<1>6. ASSUME NEW a \in Registers, NEW to \in Registers, InverseOf(a, to) PROVE IInv'
  <2>1. Modulus - 2 \in U256
    BY SizeFacts DEF U256
  <2> QED BY <1>6, <2>1, StartFacts DEF InverseOf
<1>7. CASE Exponentiate
  <2>1. /\ loop \in Loops /\ loop.k > 0 /\ loop' = ExpTurn(loop)
        /\ regs' = regs /\ means' = means /\ read' = read
    BY <1>7 DEF Exponentiate, IInv, TypeOK
  <2>2. loop' \in Loops /\ loop'.base = loop.base /\ loop'.exponent = loop.exponent
    BY <2>1, TurnFacts
  <2>3. (loop'.r * PowMod(loop'.q, loop'.k)) % Modulus = (loop.r * PowMod(loop.q, loop.k)) % Modulus
    BY <2>1, TurnFacts
  <2>4. TypeOK'
    BY <2>1, <2>2 DEF IInv, TypeOK, U256, Loops
  <2>5. ResiduesAgree'
    BY <2>1 DEF IInv, ResiduesAgree
  <2>6. (loop.r * PowMod(loop.q, loop.k)) % Modulus = PowMod(regs[loop.base], loop.exponent)
    BY <1>7 DEF IInv, PowerKept, Exponentiate
  <2>7. (loop'.r * PowMod(loop'.q, loop'.k)) % Modulus = PowMod(regs'[loop'.base], loop'.exponent)
    BY <2>1, <2>2, <2>3, <2>6
  <2>8. PowerKept'
    BY <2>7 DEF PowerKept, PowMod, Powers
  <2> QED BY <2>4, <2>5, <2>8 DEF IInv
<1>8. CASE ExpReturn
  <2> DEFINE r == loop.r
             b == loop.base
             e == loop.exponent
             x == PowMod(regs[b], e)
             m == IF means[b] = Unknown THEN Unknown ELSE PowMod(means[b], e)
  <2>1. /\ loop # <<>> /\ loop.k = 0 /\ loop \in Loops
        /\ Write(loop.to, New(r), m) /\ read' = read \ {loop.to} /\ loop' = <<>>
    BY <1>8 DEF ExpReturn, IInv, TypeOK
  <2>2. /\ r \in 0 .. Modulus - 1 /\ b \in Registers /\ loop.to \in Registers
        /\ loop.q \in Nat /\ e \in Nat /\ regs[b] \in Nat
    BY <2>1, SizeFacts DEF Loops, U256, IInv, TypeOK
  <2>3. New(r) = r /\ r \in U256 /\ r < Modulus /\ r % Modulus = r
    <3>1. r \in Nat /\ r \in U256 /\ r < Modulus /\ r % Modulus = r
      BY <2>2, RemainderInRegister
    <3> HIDE DEF r
    <3> QED BY <3>1, NewFacts
  <2>4. r = x
    <3>1. PowMod(loop.q, loop.k) = 1
      BY <2>1, <2>2, PowersDef
    <3>2. r * 1 = r
      BY <2>2
    <3>3. (r * PowMod(loop.q, loop.k)) % Modulus = x
      BY <2>1 DEF IInv, PowerKept
    <3> HIDE DEF r, x
    <3> QED BY <2>3, <3>1, <3>2, <3>3
  <2>5. m = Unknown \/ m = r
    <3> SUFFICES ASSUME means[b] # Unknown PROVE PowMod(means[b], e) = r
      OBVIOUS
    <3>1. means[b] = regs[b] % Modulus
      BY <2>2 DEF IInv, ResiduesAgree
    <3>2. PowMod(regs[b] % Modulus, e) = x
      BY <2>2, PowReduced
    <3> HIDE DEF r, x
    <3> QED BY <2>4, <3>1, <3>2
  <2> HIDE DEF r, m
  <2> QED BY <2>1, <2>2, <2>3, <2>5, WriteFacts
<1>9. CASE UNCHANGED vars
  <2>1. regs' = regs /\ means' = means /\ read' = read /\ loop' = loop
    BY <1>9 DEF vars
  <2> QED BY <2>1 DEF IInv, TypeOK, ResiduesAgree, PowerKept, U256, Loops, PowMod, Powers
<1> QED BY <1>1, <1>2, <1>3, <1>4, <1>5, <1>6, <1>7, <1>8, <1>9 DEF Next, Ops

-----------------------------------------------------------------------------
\* Whatever operations follow each other, the locals and registers keep to their
\* widths and exp_mod_u256's locals are reduced (modular.rs:78-91).
THEOREM TypeCorrect == Spec => []TypeOK
<1>1. IInv => TypeOK
  BY DEF IInv
<1> QED BY <1>1, Initial, Inductive, PTL DEF Spec

\* Additions, subtractions, negations, products and powers of Scalar and
\* FieldElement give the right residues, reduced, for every modulus that fits the
\* register, however full it leaves it (modular.rs:16-39, scalar.rs:81-98).
THEOREM ResiduesCorrect == Spec => []ResiduesAgree
<1>1. IInv => ResiduesAgree
  BY DEF IInv
<1> QED BY <1>1, Initial, Inductive, PTL DEF Spec

\* Square and multiply keeps the power asked for at every turn, for every base,
\* reduced or not, and every exponent (modular.rs:78-91).
THEOREM PowersCorrect == Spec => []PowerKept
<1>1. IInv => PowerKept
  BY DEF IInv
<1> QED BY <1>1, Initial, Inductive, PTL DEF Spec

-----------------------------------------------------------------------------
\* What exp_mod_u256 returns for the exponent modulus - 2 is the inverse: times the
\* base it is the power modulus - 1, which is 1 by Fermat's little theorem.
LEMMA InverseFacts ==
  ASSUME NEW x \in Nat, NEW y \in Int,
         x % Modulus # 0, y % Modulus = PowMod(x, Modulus - 2)
  PROVE  (y * x) % Modulus = 1
<1> DEFINE N == Modulus
           a == x % N
           p == Powers(a)
           e == N - 2
           w == PowMod(x, e)
<1>1. N \in Nat \ {0} /\ N > 2 /\ NoDivisor(N) /\ e \in Nat /\ e + 1 = N - 1
  BY ModularAssumption, SizeFacts DEF NoDivisor
<1>2. a \in 1 .. N - 1 /\ a \in Nat
  <2>1. a \in 0 .. N - 1
    BY RemainderFacts
  <2> QED BY <1>1, <2>1
<1>3. \A n \in Nat : PowMod(a, n) = PowMod(x, n)
  BY PowReduced
<1>4. w \in Int /\ w % N = w
  <2>1. w \in 0 .. N - 1
    BY <1>1, PowersDef
  <2> QED BY <1>1, <2>1, ModSmall
<1>5. PowersOf(N, a, p)
  <2> HIDE DEF a
  <2>1. p[0] = 1
    BY <1>2, PowersDef DEF PowMod
  <2>2. ASSUME NEW n \in Nat PROVE p[n] \in Int /\ Same(N, p[n + 1], p[n] * a)
    <3> DEFINE g == p[n]
               h == p[n + 1]
    <3>1. g \in 0 .. N - 1 /\ h = (g * a) % N
      BY <1>2, PowersDef DEF PowMod
    <3> HIDE DEF g, h, p
    <3>2. g \in Int /\ g * a \in Int
      BY <1>1, <1>2, <3>1
    <3>3. (g * a) % N \in Int /\ Same(N, (g * a) % N, g * a)
      BY <1>1, <3>2, SameRefl
    <3> QED BY <3>1, <3>2, <3>3 DEF g, h
  <2> QED BY <2>1, <2>2 DEF PowersOf
<1>6. Same(N, PowMod(a, N - 1), 1)
  <2> HIDE DEF a, p, N
  <2>1. Same(N, p[N - 1], 1)
    BY <1>1, <1>2, <1>5, Fermat
  <2> QED BY <2>1 DEF p, PowMod
<1>7. PowMod(x, N - 1) = (w * x) % N
  <2>1. PowMod(x, e + 1) = (PowMod(x, e) * x) % N
    BY <1>1, PowersDef
  <2> HIDE DEF e, N
  <2> QED BY <1>1, <2>1
<1>8. PowMod(x, N - 1) = 1
  <2>1. PowMod(x, N - 1) \in 0 .. N - 1 /\ N - 1 \in Nat
    BY <1>1, PowersDef
  <2>2. PowMod(x, N - 1) % N = PowMod(x, N - 1) /\ 1 % N = 1
    BY <1>1, <2>1, ModSmall
  <2>3. PowMod(a, N - 1) = PowMod(x, N - 1)
    BY <1>3, <2>1
  <2> HIDE DEF a
  <2> QED BY <1>6, <2>2, <2>3 DEF Same
<1>9. Same(N, y, w)
  BY <1>4 DEF Same
<1>10. Same(N, y * x, w * x)
  <2>1. x \in Int
    OBVIOUS
  <2> HIDE DEF N, w
  <2> QED BY <1>1, <1>4, <1>9, <2>1, SameTimes
<1> QED BY <1>7, <1>8, <1>10 DEF Same

\* It does: square and multiply with the exponent modulus - 2 returns the inverse,
\* for every prime modulus and every base that is not zero (modular.rs:32-39).
THEOREM InversesCorrect == Spec => []PowersAgree
<1>1. IInv => PowersAgree
  <2> SUFFICES ASSUME IInv, loop # <<>>, loop.exponent = Modulus - 2, loop.k = 0,
                      regs[loop.base] % Modulus # 0
               PROVE  (loop.r * regs[loop.base]) % Modulus = 1
    BY DEF IInv, PowersAgree
  <2> DEFINE x == regs[loop.base]
             y == loop.r
             g == loop.q
             t == PowMod(g, loop.k)
  <2>1. x \in Nat /\ y \in Int /\ y \in 0 .. Modulus - 1 /\ g \in Nat
    BY SizeFacts DEF IInv, TypeOK, Loops, U256
  <2>2. (y * t) % Modulus = PowMod(x, loop.exponent)
    BY DEF IInv, PowerKept
  <2>3. t = 1
    <3> HIDE DEF g
    <3> QED BY <2>1, PowersDef
  <2> HIDE DEF x, y, t, g
  <2>4. y * t = y
    BY <2>1, <2>3
  <2>5. y % Modulus = PowMod(x, Modulus - 2)
    BY <2>2, <2>4
  <2>6. x % Modulus # 0
    BY DEF x
  <2> QED BY <2>1, <2>5, <2>6, InverseFacts DEF x, y
<1> QED BY <1>1, Initial, Inductive, PTL DEF Spec

-----------------------------------------------------------------------------
(* Scalar multiplication. *)

MulAssumption == OrderAssumption /\ PointsAssumption /\ DigitsAssumption /\ DigitsCoverScalars

-----------------------------------------------------------------------------
(* Strings of digits. *)

\* The value of a string's prefixes, digit by digit.
LEMMA PrefixFacts ==
  ASSUME NEW ds \in Seq(Digit)
  PROVE  /\ PrefixValue(ds)[0] = 0
         /\ \A k \in 0 .. Len(ds) : PrefixValue(ds)[k] \in Nat
         /\ \A k \in 0 .. Len(ds) - 1 :
              PrefixValue(ds)[k + 1] = 16 * PrefixValue(ds)[k] + ds[k + 1]
<1> DEFINE G == [i \in Nat |-> [v \in Int |-> 16 * v + ds[i]]]
           S == Nat
           c == 0
           m == Len(ds)
<1>1. m \in Nat /\ c \in S
  OBVIOUS
<1>2. \A i \in 1 .. m : ds[i] \in 0 .. 15
  BY DEF Digit
<1>3. Stays(S, G, m)
  <2> SUFFICES ASSUME NEW i \in 1 .. m, NEW v \in S PROVE G[i][v] \in S
    BY DEF Stays
  <2>1. i \in Nat /\ v \in Int /\ v \in Nat
    BY <1>1
  <2>2. ds[i] \in Nat
    BY <1>2
  <2>3. G[i][v] = 16 * v + ds[i]
    BY <2>1
  <2> HIDE DEF G
  <2> QED BY <2>1, <2>2, <2>3
<1>4. \A i \in 1 .. m : \A v \in S : G[i][v] = 16 * v + ds[i]
  OBVIOUS
<1>5. PrefixValue(ds) = Iterate(c, G)
  BY DEF PrefixValue
<1> HIDE DEF G, S, c, m
<1> DEFINE r == PrefixValue(ds)
<1>6. Follows(r, c, G) /\ Within(S, r, m)
  BY <1>1, <1>3, <1>5, IterateType, Zenon
<1> HIDE DEF r
<1>7. r[0] = c /\ (\A n \in 0 .. m : r[n] \in S) /\ \A n \in Nat : r[n + 1] = G[n + 1][r[n]]
  BY <1>6 DEF Follows, Within
<1>8. ASSUME NEW k \in 0 .. m - 1 PROVE r[k + 1] = 16 * r[k] + ds[k + 1]
  <2>1. k \in Nat /\ k \in 0 .. m /\ k + 1 \in 1 .. m
    BY <1>1
  <2>2. r[k] \in S
    BY <1>7, <2>1
  <2>3. G[k + 1][r[k]] = 16 * r[k] + ds[k + 1]
    BY <1>4, <2>1, <2>2
  <2> QED BY <1>7, <2>1, <2>3
<1> QED BY <1>7, <1>8 DEF r, S, c, m

\* What a string with zeros in front stands for.
Zeros(k) == [i \in 1 .. k |-> 0]

LEMMA ZerosFacts ==
  ASSUME NEW ds \in Seq(Digit), NEW k \in Nat
  PROVE  /\ Zeros(k) \o ds \in Seq(Digit) /\ Len(Zeros(k) \o ds) = k + Len(ds)
         /\ Value(Zeros(k) \o ds) = Value(ds)
<1> DEFINE e == Zeros(k) \o ds
<1>1. Zeros(k) \in Seq(Digit) /\ Len(Zeros(k)) = k
  <2>1. 0 \in Digit
    BY DEF Digit
  <2> QED BY <2>1 DEF Zeros
<1>2. e \in Seq(Digit) /\ Len(e) = k + Len(ds)
  BY <1>1
<1>3. (\A i \in 1 .. k : e[i] = 0) /\ \A i \in 1 .. Len(ds) : e[k + i] = ds[i]
  BY <1>1 DEF Zeros
<1> DEFINE p == PrefixValue(e)
           g == PrefixValue(ds)
<1> HIDE DEF e, p, g
<1>4. Len(ds) \in Nat
  OBVIOUS
<1>5. p[0] = 0 /\ \A i \in 0 .. Len(e) - 1 : p[i + 1] = 16 * p[i] + e[i + 1]
  BY <1>2, PrefixFacts DEF p
<1>6. g[0] = 0 /\ \A i \in 0 .. Len(ds) - 1 : g[i + 1] = 16 * g[i] + ds[i + 1]
  BY PrefixFacts DEF g
<1>7. p[k] = 0
  <2> DEFINE T == {i \in Nat : i <= k => p[i] = 0}
  <2>1. 0 \in T
    BY <1>5
  <2>2. ASSUME NEW i \in T PROVE i + 1 \in T
    <3> SUFFICES ASSUME i + 1 <= k PROVE p[i + 1] = 0
      OBVIOUS
    <3>1. i \in 0 .. Len(e) - 1 /\ i + 1 \in 1 .. k /\ p[i] = 0
      BY <1>2, <1>4
    <3>2. p[i + 1] = 16 * p[i] + e[i + 1] /\ e[i + 1] = 0
      BY <1>3, <1>5, <3>1
    <3> QED BY <3>1, <3>2
  <2>3. T = Nat
    <3> HIDE DEF T
    <3>1. T \in SUBSET Nat
      BY DEF T
    <3> QED BY <2>1, <2>2, <3>1, NatSetInduction
  <2> QED BY <2>3
<1>8. p[k + Len(ds)] = g[Len(ds)]
  <2> DEFINE T == {i \in Nat : i <= Len(ds) => p[k + i] = g[i]}
  <2>1. 0 \in T
    BY <1>6, <1>7
  <2>2. ASSUME NEW i \in T PROVE i + 1 \in T
    <3> SUFFICES ASSUME i + 1 <= Len(ds) PROVE p[k + (i + 1)] = g[i + 1]
      OBVIOUS
    <3> DEFINE j == k + i
    <3>1. j \in 0 .. Len(e) - 1 /\ i \in 0 .. Len(ds) - 1 /\ i + 1 \in 1 .. Len(ds) /\ p[j] = g[i]
      BY <1>2, <1>4
    <3>2. k + (i + 1) = j + 1
      OBVIOUS
    <3> HIDE DEF j
    <3>3. p[j + 1] = 16 * p[j] + e[j + 1] /\ g[i + 1] = 16 * g[i] + ds[i + 1]
      BY <1>5, <1>6, <3>1
    <3>4. e[j + 1] = ds[i + 1]
      BY <1>3, <3>1, <3>2
    <3> QED BY <3>1, <3>2, <3>3, <3>4
  <2>3. T = Nat
    <3> HIDE DEF T
    <3>1. T \in SUBSET Nat
      BY DEF T
    <3> QED BY <2>1, <2>2, <3>1, NatSetInduction
  <2> QED BY <1>4, <2>3
<1> QED BY <1>2, <1>8 DEF Value, p, g, e

\* A string is one of digits, of at most ScalarDigits of them.
LEMMA StringsFacts ==
  ASSUME DigitsAssumption
  PROVE  /\ \A ds \in Strings : ds \in Seq(Digit) /\ Len(ds) \in 0 .. ScalarDigits
         /\ \A ds \in Seq(Digit) : Len(ds) <= ScalarDigits => ds \in Strings
<1>1. ScalarDigits \in Nat
  BY DEF DigitsAssumption
<1>2. ASSUME NEW ds \in Strings PROVE ds \in Seq(Digit) /\ Len(ds) \in 0 .. ScalarDigits
  <2>1. PICK n \in 0 .. ScalarDigits : ds \in [1 .. n -> Digit]
    BY DEF Strings
  <2>2. n \in Nat /\ ds \in Seq(Digit)
    BY <1>1, <2>1
  <2> QED BY <2>1, <2>2
<1>3. ASSUME NEW ds \in Seq(Digit), Len(ds) <= ScalarDigits PROVE ds \in Strings
  <2>1. ds \in [1 .. Len(ds) -> Digit] /\ Len(ds) \in 0 .. ScalarDigits
    BY <1>1, <1>3
  <2> QED BY <2>1 DEF Strings
<1> QED BY <1>2, <1>3

\* Leading zeros can be taken off, one by one.
LEMMA FirstZero ==
  ASSUME NEW ds \in Seq(Digit), ds # <<>>, ds[1] = 0
  PROVE  Tail(ds) \in Seq(Digit) /\ Len(Tail(ds)) = Len(ds) - 1 /\ Value(Tail(ds)) = Value(ds)
<1> DEFINE f == Tail(ds)
           z == Zeros(1)
           k == 1
<1>1. f \in Seq(Digit) /\ Len(f) = Len(ds) - 1 /\ \A i \in 1 .. Len(f) : f[i] = ds[i + 1]
  BY HeadTailProperties
<1>2. z \in Seq(Digit) /\ Len(z) = 1 /\ z[1] = 0
  BY DEF Zeros, Digit
<1>3. k \in Nat /\ z = Zeros(k)
  OBVIOUS
<1>4. Len(ds) \in Nat
  OBVIOUS
<1> HIDE DEF f, z, k
<1> DEFINE e == z \o f
<1>5. /\ e \in Seq(Digit)
      /\ Len(e) = Len(z) + Len(f)
      /\ \A i \in 1 .. Len(z) + Len(f) : e[i] = IF i <= Len(z) THEN z[i] ELSE f[i - Len(z)]
  <2>1. z \in Seq(Digit) /\ f \in Seq(Digit)
    BY <1>1, <1>2
  <2> QED BY <2>1
<1>6. Value(e) = Value(f)
  BY <1>1, <1>3, ZerosFacts
<1> HIDE DEF e
<1>7. Len(e) = Len(ds)
  BY <1>1, <1>2, <1>4, <1>5
<1>8. ASSUME NEW i \in 1 .. Len(e) PROVE e[i] = ds[i]
  <2>1. CASE i = 1
    BY <1>2, <1>5, <1>7, <2>1
  <2>2. CASE i # 1
    <3>1. e[i] = f[i - 1] /\ i - 1 \in 1 .. Len(f) /\ (i - 1) + 1 = i
      BY <1>1, <1>2, <1>4, <1>5, <1>7, <2>2
    <3> QED BY <1>1, <3>1
  <2> QED BY <2>1, <2>2
<1>9. e = ds
  BY <1>5, <1>7, <1>8, SeqEqual
<1> QED BY <1>1, <1>6, <1>9 DEF f

\* e is a string of the same number without a leading zero.
Shorter(e, ds) == /\ Len(e) <= Len(ds) /\ Value(e) = Value(ds)
                  /\ e # <<>> => e[1] # 0

LEMMA WithoutZeros ==
  ASSUME NEW ds \in Seq(Digit)
  PROVE  \E e \in Seq(Digit) : Shorter(e, ds)
<1> DEFINE T == {n \in Nat : \A d \in Seq(Digit) : Len(d) = n => \E e \in Seq(Digit) : Shorter(e, d)}
<1>1. 0 \in T
  <2> SUFFICES ASSUME NEW d \in Seq(Digit), Len(d) = 0 PROVE \E e \in Seq(Digit) : Shorter(e, d)
    OBVIOUS
  <2>1. d = <<>>
    OBVIOUS
  <2>2. Shorter(d, d)
    BY <2>1 DEF Shorter
  <2> QED BY <2>2
<1>2. ASSUME NEW n \in T, NEW d \in Seq(Digit), Len(d) = n + 1
      PROVE  \E e \in Seq(Digit) : Shorter(e, d)
  <2>1. n \in Nat /\ d # <<>>
    BY <1>2
  <2>2. CASE d[1] # 0
    <3>1. Shorter(d, d)
      BY <2>1, <2>2, <1>2 DEF Shorter
    <3> QED BY <3>1
  <2>3. CASE d[1] = 0
    <3> DEFINE f == Tail(d)
    <3>1. f \in Seq(Digit) /\ Len(f) = Len(d) - 1 /\ Value(f) = Value(d)
      BY <2>1, <2>3, FirstZero
    <3> HIDE DEF f
    <3>2. Len(f) = n
      BY <1>2, <2>1, <3>1
    <3>3. PICK e \in Seq(Digit) : Shorter(e, f)
      BY <3>1, <3>2
    <3>4. Shorter(e, d)
      BY <1>2, <2>1, <3>1, <3>2, <3>3 DEF Shorter
    <3> QED BY <3>4
  <2> QED BY <2>2, <2>3
<1>3. T = Nat
  <2>1. \A n \in T : n + 1 \in T
    BY <1>2
  <2> HIDE DEF T
  <2>2. T \in SUBSET Nat
    BY DEF T
  <2> QED BY <1>1, <2>1, <2>2, NatSetInduction
<1>4. Len(ds) \in T
  BY <1>3
<1> QED BY <1>4

\* The string of a scalar stands for it.
LEMMA UnpaddedFacts ==
  ASSUME MulAssumption, NEW n \in Scalar
  PROVE  Unpadded(n) \in Seq(Digit) /\ Value(Unpadded(n)) = n
<1>1. PICK ds \in Strings : Value(ds) = n
  BY DEF MulAssumption, DigitsCoverScalars
<1>2. ds \in Seq(Digit) /\ Len(ds) <= ScalarDigits /\ ScalarDigits \in Nat
  BY StringsFacts DEF MulAssumption, DigitsAssumption
<1>3. PICK e \in Seq(Digit) : Shorter(e, ds)
  BY <1>2, WithoutZeros
<1>4. Len(e) <= ScalarDigits
  BY <1>2, <1>3 DEF Shorter
<1>5. e \in Strings
  BY <1>4, StringsFacts DEF MulAssumption
<1>6. Unpadded(n) \in Strings /\ Value(Unpadded(n)) = n
  BY <1>1, <1>3, <1>5 DEF Unpadded, Shorter
<1> QED BY <1>6, StringsFacts DEF MulAssumption

\* Padding changes the length only.
LEMMA PaddedFacts ==
  ASSUME NEW ds \in Seq(Digit), NEW n \in Nat
  PROVE  /\ Padded(ds, n) \in Seq(Digit) /\ Value(Padded(ds, n)) = Value(ds)
         /\ Len(Padded(ds, n)) = IF Len(ds) < n THEN n ELSE Len(ds)
<1>1. CASE Len(ds) < n
  <2> DEFINE k == n - Len(ds)
  <2>1. k \in Nat /\ k + Len(ds) = n
    BY <1>1
  <2>2. Padded(ds, n) = Zeros(k) \o ds
    BY <1>1 DEF Padded, Zeros
  <2> HIDE DEF k
  <2> QED BY <1>1, <2>1, <2>2, ZerosFacts
<1>2. CASE ~(Len(ds) < n)
  BY <1>2 DEF Padded
<1> QED BY <1>1, <1>2

-----------------------------------------------------------------------------
(* The group. *)

LEMMA GroupFacts ==
  ASSUME OrderAssumption, NEW n \in Int
  PROVE  n % Order \in Group
<1>1. Order \in Nat \ {0}
  BY DEF OrderAssumption
<1> QED BY <1>1, ModRange DEF Group

\* A table entry is a multiple.
LEMMA LookupFacts ==
  ASSUME OrderAssumption, NEW p \in Group
  PROVE  \A d \in Nat : Lookup(p)[d] = (d * p) % Order
<1>1. Order \in Nat \ {0} /\ p \in Int
  BY DEF OrderAssumption, Group
<1> DEFINE G == [d \in Nat |-> [c \in Group |-> AddPoints(c, p)]]
           L == Lookup(p)
           T == {d \in Nat : L[d] = (d * p) % Order}
<1>2. Follows(L, IDENTITY, G)
  BY IterateDef DEF Lookup
<1>3. \A d \in Nat, c \in Group : G[d][c] = (c + p) % Order
  BY DEF AddPoints
<1> HIDE DEF G, L
<1>4. 0 \in T
  <2>1. 0 * p = 0 /\ 0 \in 0 .. Order - 1
    BY <1>1
  <2>2. 0 % Order = 0
    BY <1>1, <2>1, ModSmall
  <2> QED BY <1>2, <2>1, <2>2 DEF Follows, IDENTITY
<1>5. ASSUME NEW d \in T PROVE d + 1 \in T
  <2> DEFINE m == d * p
  <2>1. d \in Nat /\ d + 1 \in Nat /\ m \in Int /\ (d + 1) * p = m + p /\ L[d] = m % Order
    BY <1>1
  <2> HIDE DEF m
  <2>2. m % Order \in Group
    BY <2>1, GroupFacts
  <2>3. L[d + 1] = ((m % Order) + p) % Order
    BY <1>2, <1>3, <2>1, <2>2 DEF Follows
  <2>4. ((m % Order) + p) % Order = (m + p) % Order
    BY <1>1, <2>1, ModPlus
  <2> QED BY <2>1, <2>3, <2>4
<1>6. T = Nat
  <2> HIDE DEF T
  <2>1. T \in SUBSET Nat
    BY DEF T
  <2> QED BY <1>4, <1>5, <2>1, NatSetInduction
<1> QED BY <1>6 DEF L

\* A window multiplies by sixteen.
LEMMA WindowFacts ==
  ASSUME OrderAssumption, NEW p \in Group
  PROVE  Window(p) = (16 * p) % Order
<1>1. Order \in Nat \ {0} /\ p \in Int
  BY DEF OrderAssumption, Group
<1>2. ASSUME NEW n \in Int PROVE Double(n % Order) = (2 * n) % Order
  <2> DEFINE r == n % Order
  <2>1. r \in Int
    BY <1>1, GroupFacts DEF Group
  <2>2. (n + r) % Order = (r + r) % Order
    BY <1>1, <2>1, ModPlus
  <2>3. (n + n) % Order = (r + n) % Order
    BY <1>1, ModPlus
  <2> HIDE DEF r
  <2>4. r + n = n + r /\ n + n = 2 * n
    BY <2>1
  <2>5. (r + r) % Order = (2 * n) % Order
    BY <2>2, <2>3, <2>4
  <2> QED BY <2>5 DEF Double, AddPoints, r
<1>3. Double(p) = (2 * p) % Order
  <2>1. p + p = 2 * p
    BY <1>1
  <2> QED BY <2>1 DEF Double, AddPoints
<1>4. 2 * p \in Int /\ 4 * p \in Int /\ 8 * p \in Int
      /\ 2 * (2 * p) = 4 * p /\ 2 * (4 * p) = 8 * p /\ 2 * (8 * p) = 16 * p
  BY <1>1
<1>5. Double(Double(p)) = (4 * p) % Order
  BY <1>2, <1>3, <1>4
<1>6. Double(Double(Double(p))) = (8 * p) % Order
  BY <1>2, <1>4, <1>5
<1> QED BY <1>2, <1>4, <1>6 DEF Window

\* v is the sum of V times the one point and W times the other.
IsSum(v, V, p, W, r) == v = (V * p + W * r) % Order

\* A turn of scalar_mul, and of double_mul, takes the digits in.
LEMMA DigitTurnFacts ==
  ASSUME OrderAssumption, NEW p \in Group, NEW r \in Group, NEW V \in Nat, NEW W \in Nat,
         NEW d \in Digit, NEW e \in Digit, NEW v \in Group, IsSum(v, V, p, W, r)
  PROVE  /\ IsSum(AddPoints(Window(v), Lookup(p)[d]), 16 * V + d, p, 16 * W, r)
         /\ IsSum(AddPoints(AddPoints(Window(v), Lookup(p)[d]), Lookup(r)[e]),
                  16 * V + d, p, 16 * W + e, r)
<1>1. Order \in Nat \ {0} /\ p \in Int /\ r \in Int /\ d \in Nat /\ e \in Nat
  BY DEF OrderAssumption, Group, Digit
<1> DEFINE a == V * p
           b == W * r
           m == a + b
           x == d * p
           y == e * r
           k == 16
           n == m * k
           w == n + x
<1>2. m \in Int /\ x \in Int /\ y \in Int /\ n \in Int /\ w \in Int /\ k \in Int
  BY <1>1
<1>3. w = (16 * V + d) * p + (16 * W) * r
  <2>1. a \in Int /\ b \in Int
    BY <1>1
  <2>2. (16 * V + d) * p = 16 * a + x /\ (16 * W) * r = 16 * b
    BY <1>1
  <2> HIDE DEF a, b, x
  <2> QED BY <1>2, <2>1, <2>2
<1>4. w + y = (16 * V + d) * p + (16 * W + e) * r
  <2>1. (16 * V + d) * p \in Int /\ (16 * W) * r \in Int /\ (16 * W + e) * r = (16 * W) * r + y
    BY <1>1
  <2>2. w \in Int /\ y \in Int
    BY <1>2
  <2> HIDE DEF w, y
  <2> QED BY <1>3, <2>1, <2>2
<1>5. v = m % Order /\ Lookup(p)[d] = x % Order /\ Lookup(r)[e] = y % Order
  BY <1>1, LookupFacts DEF IsSum
<1>6. \A z \in Group : z * k = 16 * z
  BY <1>1 DEF Group
<1>7. w = n + x
  OBVIOUS
<1>8. n = m * k
  OBVIOUS
<1> HIDE DEF a, b, m, x, y, n, w, k
<1>9. Window(v) = n % Order
  <2>1. Window(v) = (v * k) % Order
    BY <1>6, WindowFacts
  <2>2. ((m % Order) * k) % Order = (m * k) % Order
    BY <1>1, <1>2, ModTimes
  <2> QED BY <1>5, <1>8, <2>1, <2>2
<1>10. AddPoints(Window(v), Lookup(p)[d]) = w % Order
  <2>1. ((n % Order) + (x % Order)) % Order = (n + x) % Order
    BY <1>1, <1>2, ModSum
  <2> QED BY <1>5, <1>7, <1>9, <2>1 DEF AddPoints
<1>11. AddPoints(w % Order, Lookup(r)[e]) = (w + y) % Order
  <2>1. ((w % Order) + (y % Order)) % Order = (w + y) % Order
    BY <1>1, <1>2, ModSum
  <2> QED BY <1>5, <2>1 DEF AddPoints
<1> QED BY <1>3, <1>4, <1>10, <1>11 DEF IsSum

-----------------------------------------------------------------------------
\* That the second string is read at the digit's own weight needs that it is
\* not there or as long as the first.
SecondString == /\ pc \in {"idle", "scalar_mul"} => other = <<>>
                /\ other # <<>> => Len(other) = Len(this)
MulIInv == MulTypeOK /\ StringsAligned /\ AccumulatesPrefix /\ SecondString

LEMMA EmptyString ==
  <<>> \in Seq(Digit) /\ Len(<<>>) = 0 /\ Value(<<>>) = 0 /\ PrefixValue(<<>>)[0] = 0
<1>1. <<>> \in Seq(Digit) /\ Len(<<>>) = 0
  OBVIOUS
<1> QED BY <1>1, PrefixFacts DEF Value

THEOREM MulInitial == MulAssumption /\ MulInit => MulIInv
<1> SUFFICES ASSUME MulAssumption, MulInit PROVE MulIInv
  OBVIOUS
<1>1. 0 \in 0 .. Order - 1 /\ Order \in Nat \ {0}
  BY DEF MulAssumption, OrderAssumption
<1>2. 0 % Order = 0
  BY <1>1, ModSmall
<1>3. MulTypeOK
  BY <1>1, EmptyString DEF MulInit, MulTypeOK, Group, Scalar, IDENTITY
<1>4. StringsAligned /\ SecondString
  BY EmptyString DEF MulInit, StringsAligned, SecondString
<1>5. 0 * 0 + 0 * 0 = 0
  OBVIOUS
<1>6. AccumulatesPrefix
  BY <1>2, <1>5, EmptyString DEF MulInit, AccumulatesPrefix, IDENTITY
<1> QED BY <1>3, <1>4, <1>6 DEF MulIInv

\* A call starts with nothing taken in.
LEMMA Start ==
  ASSUME OrderAssumption, NEW ds \in Seq(Digit), NEW es \in Seq(Digit), NEW p \in Group, NEW r \in Group
  PROVE  IDENTITY = (PrefixValue(ds)[0] * p
                       + (IF es = <<>> THEN 0 ELSE PrefixValue(es)[0]) * r) % Order
<1>1. PrefixValue(ds)[0] = 0 /\ (IF es = <<>> THEN 0 ELSE PrefixValue(es)[0]) = 0
  BY PrefixFacts
<1>2. p \in Int /\ r \in Int /\ 0 \in 0 .. Order - 1 /\ Order \in Nat \ {0}
  BY DEF OrderAssumption, Group
<1>3. 0 * p + 0 * r = 0 /\ 0 % Order = 0
  BY <1>2, ModSmall
<1> QED BY <1>1, <1>3 DEF IDENTITY

THEOREM MulInductive == MulAssumption /\ MulIInv /\ [MulNext]_mulVars => MulIInv'
<1> SUFFICES ASSUME MulAssumption, MulIInv, [MulNext]_mulVars PROVE MulIInv'
  OBVIOUS
<1> USE DEF MulIInv, MulTypeOK, StringsAligned, SecondString
<1>1. /\ Scalar \subseteq Nat /\ Points \subseteq Group /\ IDENTITY \in Group
      /\ OrderAssumption /\ Order \in Nat \ {0}
  BY DEF MulAssumption, OrderAssumption, PointsAssumption, Scalar, Group, IDENTITY
<1>2. Len(this) \in Nat /\ Len(other) \in Nat /\ pos \in Nat
  OBVIOUS
<1>3. ASSUME NEW p \in Points, NEW s \in Scalar, ScalarMul(p, s) PROVE MulIInv'
  <2>1. this' \in Seq(Digit) /\ Value(this') = s
    BY <1>3, UnpaddedFacts DEF ScalarMul
  <2>2. MulTypeOK'
    <3>1. pos' \in 0 .. Len(this')
      BY <1>3, <2>1 DEF ScalarMul
    <3> QED BY <1>1, <1>3, <2>1, <3>1 DEF ScalarMul
  <2>3. StringsAligned' /\ SecondString'
    BY <1>3, <2>1 DEF ScalarMul
  <2>4. AccumulatesPrefix'
    <3>1. point' \in Group /\ otherPoint' \in Group /\ other' \in Seq(Digit)
      BY <2>2
    <3> HIDE DEF MulIInv, MulTypeOK, StringsAligned, SecondString
    <3>2. q' = IDENTITY /\ pos' = 0
      BY <1>3 DEF ScalarMul
    <3> QED BY <1>1, <2>1, <3>1, <3>2, Start DEF AccumulatesPrefix
  <2> QED BY <2>2, <2>3, <2>4
<1>4. ASSUME NEW p \in Points, NEW p2 \in Points, NEW s \in Scalar, NEW s2 \in Scalar,
             DoubleMul(p, s, p2, s2)
      PROVE  MulIInv'
  <2> DEFINE a == Unpadded(s)
             b == Unpadded(s2)
  <2>1. a \in Seq(Digit) /\ Value(a) = s /\ b \in Seq(Digit) /\ Value(b) = s2
    BY UnpaddedFacts
  <2>2. this' = Padded(a, Len(b)) /\ other' = Padded(b, Len(a))
    BY <1>4 DEF DoubleMul
  <2> HIDE DEF a, b
  <2>3. Len(a) \in Nat /\ Len(b) \in Nat
    BY <2>1
  <2>4. /\ this' \in Seq(Digit) /\ Value(this') = s
        /\ Len(this') = IF Len(a) < Len(b) THEN Len(b) ELSE Len(a)
    BY <2>1, <2>2, <2>3, PaddedFacts
  <2>5. /\ other' \in Seq(Digit) /\ Value(other') = s2
        /\ Len(other') = IF Len(b) < Len(a) THEN Len(a) ELSE Len(b)
    BY <2>1, <2>2, <2>3, PaddedFacts
  <2>6. Len(this') = Len(other') /\ Len(this') \in Nat
    BY <2>3, <2>4, <2>5
  <2>7. MulTypeOK'
    <3>1. pos' \in 0 .. Len(this')
      BY <1>4, <2>6 DEF DoubleMul
    <3> QED BY <1>1, <1>4, <2>4, <2>5, <3>1 DEF DoubleMul
  <2>8. StringsAligned' /\ SecondString'
    BY <1>4, <2>4, <2>5, <2>6 DEF DoubleMul
  <2>9. AccumulatesPrefix'
    <3>1. point' \in Group /\ otherPoint' \in Group
      BY <2>7
    <3> HIDE DEF MulIInv, MulTypeOK, StringsAligned, SecondString
    <3>2. q' = IDENTITY /\ pos' = 0
      BY <1>4 DEF DoubleMul
    <3> QED BY <1>1, <2>4, <2>5, <3>1, <3>2, Start DEF AccumulatesPrefix
  <2> QED BY <2>7, <2>8, <2>9
<1>5. CASE ScalarMulDigit
  <2> DEFINE V == PrefixValue(this)[pos]
             d == this[pos + 1]
  <2>1. pos \in 0 .. Len(this) - 1 /\ other = <<>>
    BY <1>2, <1>5 DEF ScalarMulDigit
  <2>2. V \in Nat /\ d \in Digit /\ PrefixValue(this)[pos + 1] = 16 * V + d
    BY <1>2, <2>1, PrefixFacts
  <2>3. q = (V * point + 0 * otherPoint) % Order
    BY <2>1 DEF AccumulatesPrefix
  <2>4. q' = AddPoints(Window(q), Lookup(point)[d]) /\ pos' = pos + 1
        /\ UNCHANGED <<point, scalar, otherPoint, otherScalar, this, other, pc>>
    BY <1>5 DEF ScalarMulDigit
  <2> HIDE DEF V, d
  <2>5. q' = ((16 * V + d) * point + (16 * 0) * otherPoint) % Order
    <3> DEFINE W == 0
    <3>1. W \in Nat /\ IsSum(q, V, point, W, otherPoint)
      BY <2>3 DEF IsSum
    <3>2. IsSum(q', 16 * V + d, point, 16 * W, otherPoint)
      <4>1. point \in Group /\ otherPoint \in Group /\ q \in Group
        OBVIOUS
      <4> HIDE DEF W, MulIInv, MulTypeOK, StringsAligned, SecondString
      <4> QED BY <1>1, <2>2, <2>4, <3>1, <4>1, DigitTurnFacts
    <3> QED BY <3>2 DEF IsSum
  <2>6. 16 * 0 = 0
    OBVIOUS
  <2>7. AccumulatesPrefix'
    BY <2>1, <2>2, <2>4, <2>5, <2>6 DEF AccumulatesPrefix
  <2>8. q' \in Group
    <3>1. (16 * V + d) * point + (16 * 0) * otherPoint \in Int
      BY <1>1, <2>2 DEF Digit, Group
    <3> QED BY <1>1, <2>5, <3>1, GroupFacts
  <2>9. MulTypeOK' /\ StringsAligned' /\ SecondString'
    BY <1>2, <1>5, <2>1, <2>4, <2>8 DEF ScalarMulDigit
  <2> QED BY <2>7, <2>9
<1>6. CASE DoubleMulDigit
  <2> DEFINE V == PrefixValue(this)[pos]
             W == PrefixValue(other)[pos]
             d == this[pos + 1]
             e == other[pos + 1]
  <2>1. pos \in 0 .. Len(this) - 1 /\ pos \in 0 .. Len(other) - 1 /\ other # <<>>
    BY <1>2, <1>6 DEF DoubleMulDigit
  <2>2. V \in Nat /\ d \in Digit /\ PrefixValue(this)[pos + 1] = 16 * V + d
    BY <1>2, <2>1, PrefixFacts
  <2>3. W \in Nat /\ e \in Digit /\ PrefixValue(other)[pos + 1] = 16 * W + e
    BY <1>2, <2>1, PrefixFacts
  <2>4. q = (V * point + W * otherPoint) % Order
    BY <2>1 DEF AccumulatesPrefix
  <2>5. q' = AddPoints(AddPoints(Window(q), Lookup(point)[d]), Lookup(otherPoint)[e])
        /\ pos' = pos + 1
        /\ UNCHANGED <<point, scalar, otherPoint, otherScalar, this, other, pc>>
    BY <1>6 DEF DoubleMulDigit
  <2> HIDE DEF V, W, d, e
  <2>6. q' = ((16 * V + d) * point + (16 * W + e) * otherPoint) % Order
    <3>1. point \in Group /\ otherPoint \in Group /\ q \in Group
      OBVIOUS
    <3> HIDE DEF MulIInv, MulTypeOK, StringsAligned, SecondString
    <3>2. IsSum(q, V, point, W, otherPoint)
      BY <2>4 DEF IsSum
    <3>3. IsSum(q', 16 * V + d, point, 16 * W + e, otherPoint)
      BY <1>1, <2>2, <2>3, <2>5, <3>1, <3>2, DigitTurnFacts
    <3> QED BY <3>3 DEF IsSum
  <2>7. AccumulatesPrefix'
    BY <2>1, <2>2, <2>3, <2>5, <2>6 DEF AccumulatesPrefix
  <2>8. q' \in Group
    <3>1. (16 * V + d) * point + (16 * W + e) * otherPoint \in Int
      BY <1>1, <2>2, <2>3 DEF Digit, Group
    <3> QED BY <1>1, <2>6, <3>1, GroupFacts
  <2>9. MulTypeOK' /\ StringsAligned' /\ SecondString'
    BY <1>2, <1>6, <2>1, <2>5, <2>8 DEF DoubleMulDigit
  <2> QED BY <2>7, <2>9
<1>7. CASE Return
  <2>1. pc' = "done" /\ pos = Len(this)
        /\ UNCHANGED <<point, scalar, otherPoint, otherScalar, this, other, pos, q>>
    BY <1>7 DEF Return
  <2> QED BY <2>1 DEF AccumulatesPrefix
<1>8. CASE UNCHANGED mulVars
  BY <1>8 DEF mulVars, AccumulatesPrefix
<1> QED BY <1>3, <1>4, <1>5, <1>6, <1>7, <1>8 DEF MulNext

\* At the end every digit has been taken in.
LEMMA AtTheEnd == MulAssumption /\ MulIInv => ReturnsSum
<1> SUFFICES ASSUME MulAssumption, MulIInv, pc = "done"
             PROVE  q = (scalar * point + otherScalar * otherPoint) % Order
  BY DEF ReturnsSum
<1> USE DEF MulIInv, MulTypeOK, StringsAligned, SecondString
<1>1. pos = Len(this) /\ PrefixValue(this)[pos] = scalar
  BY DEF Value
<1>2. CASE other = <<>>
  BY <1>1, <1>2, EmptyString DEF AccumulatesPrefix
<1>3. CASE other # <<>>
  <2>1. PrefixValue(other)[pos] = otherScalar
    BY <1>1, <1>3 DEF Value
  <2> QED BY <1>1, <1>3, <2>1 DEF AccumulatesPrefix
<1> QED BY <1>2, <1>3

\* At every turn of both functions the accumulator is what the digits read stand
\* for, the two strings stay aligned, and what is returned is the sum of the
\* multiples: scalar_mul and double_mul (impl_macro.rs:203-256) for every order,
\* every pair of points and every pair of scalars, zero included.
THEOREM MultiplicationCorrect == ASSUME MulAssumption PROVE MulSpec => []ScalarMulCorrect
<1>1. MulInit => MulIInv
  BY MulInitial
<1>2. MulIInv /\ [MulNext]_mulVars => MulIInv'
  BY MulInductive
<1>3. MulIInv => ScalarMulCorrect
  BY AtTheEnd DEF MulIInv, ScalarMulCorrect
<1> QED BY <1>1, <1>2, <1>3, PTL DEF MulSpec
=============================================================================

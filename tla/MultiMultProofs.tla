--------------------------- MODULE MultiMultProofs ---------------------------
(***************************************************************************)
(* Theorems about MultiMult for every group order, every set of points and *)
(* every number of pairs.                                                  *)
(***************************************************************************)
EXTENDS MultiMult, NatTheorems, SequenceTheorems

\* What has to be added to the invariants of MultiMult to make them inductive:
\* drain runs only while it has pairs left, and nothing is returned early.
IInv ==
  /\ TypeOK /\ KnownCoalesced /\ HeapHoldsTheRest /\ SumPreserved
  /\ pc = "drain" => relation # <<>>
  /\ \A i \in DOMAIN relation : relation[i].point \in Points
  /\ pc # "done" => result = NoResult

-----------------------------------------------------------------------------
\* The summands of a sequence of pairs form a function PartialSums is about.
LEMMA TermType ==
  ASSUME NEW ps \in Seq(Pair)
  PROVE  /\ Term(ps) \in [Nat -> Int]
         /\ SumOf(ps) \in Int
<1>1. \A i \in 1 .. Len(ps) : ps[i].scalar \in Int /\ ps[i].point \in Int
  <2> SUFFICES ASSUME NEW i \in 1 .. Len(ps)
               PROVE  ps[i].scalar \in Int /\ ps[i].point \in Int
    OBVIOUS
  <2>1. ps[i] \in Pair
    <3> HIDE DEF Pair
    <3> QED OBVIOUS
  <2>2. Order \in Int
    BY OrderAssumption
  <2> QED BY <2>1, <2>2 DEF Pair, Group, Scalar
<1>2. \A i \in 1 .. Len(ps) : ps[i].scalar * ps[i].point \in Int
  BY <1>1
<1>3. Term(ps) \in [Nat -> Int]
  BY <1>2 DEF Term
<1>4. PartialSums(Term(ps)) \in [Nat -> Int]
  BY <1>3, PartialSumsDef
<1>5. Len(ps) \in Nat
  OBVIOUS
<1> QED BY <1>3, <1>4, <1>5 DEF SumOf

\* A pair at the end adds its product to the sum.
LEMMA SumAppend ==
  ASSUME NEW ps \in Seq(Pair), NEW e \in Pair
  PROVE  SumOf(Append(ps, e)) = SumOf(ps) + e.scalar * e.point
<1> DEFINE qs == Append(ps, e)
           n  == Len(ps)
           F  == Term(ps)
           G  == Term(qs)
<1>1. qs \in Seq(Pair) /\ Len(qs) = n + 1 /\ n \in Nat
  OBVIOUS
<1>2. F \in [Nat -> Int] /\ G \in [Nat -> Int]
  <2> HIDE DEF qs
  <2> QED BY <1>1, TermType
<1>3. F[n + 1] = 0
  BY <1>1 DEF Term
<1>4. G[n + 1] = e.scalar * e.point
  BY <1>1 DEF Term
<1>5. \A i \in Nat \ {n + 1} : G[i] = F[i]
  BY <1>1 DEF Term
<1>6. PartialSums(F)[n + 1] = PartialSums(F)[n] + F[n + 1]
  <2> HIDE DEF F
  <2> QED BY <1>1, <1>2, PartialSumsDef
<1>7. PartialSums(G)[n + 1] = PartialSums(F)[n + 1] + (G[n + 1] - F[n + 1])
  <2> DEFINE m == n + 1
  <2>1. m \in Nat /\ m \in Nat \ {0} /\ \A i \in Nat \ {m} : G[i] = F[i]
    BY <1>1, <1>5
  <2> HIDE DEF F, G, n, m
  <2>2. \A k \in Nat : PartialSums(G)[k] =
                         PartialSums(F)[k] + (IF m <= k THEN G[m] - F[m] ELSE 0)
    <3>1. m \in Nat \ {0} /\ \A i \in Nat \ {m} : G[i] = F[i]
      BY <2>1
    <3> QED BY <1>2, <3>1, PartialSumsUpdate
  <2>3. m \in Nat /\ m <= m
    BY <2>1
  <2>4. PartialSums(G)[m] = PartialSums(F)[m] + (G[m] - F[m])
    BY <2>2, <2>3
  <2> QED BY <2>4 DEF m
<1>8. PartialSums(F)[n] \in Int
  <2> HIDE DEF F
  <2> QED BY <1>1, <1>2, PartialSumsDef
<1>9. SumOf(ps) = PartialSums(F)[n] /\ SumOf(qs) = PartialSums(G)[n + 1]
  BY <1>1 DEF SumOf
<1>10. e.scalar * e.point \in Int
  BY <1>1, <1>2, <1>4
<1> HIDE DEF F, G
<1> QED BY <1>3, <1>4, <1>6, <1>7, <1>8, <1>9, <1>10

\* Replacing a pair changes the sum by the difference of the products.
LEMMA SumExcept ==
  ASSUME NEW ps \in Seq(Pair), NEW j \in DOMAIN ps, NEW e \in Pair
  PROVE  SumOf([ps EXCEPT ![j] = e]) =
           SumOf(ps) + (e.scalar * e.point - ps[j].scalar * ps[j].point)
<1> DEFINE qs == [ps EXCEPT ![j] = e]
           n  == Len(ps)
           F  == Term(ps)
           G  == Term(qs)
<1>1. qs \in Seq(Pair) /\ Len(qs) = n /\ n \in Nat /\ j \in 1 .. n
  OBVIOUS
<1>2. F \in [Nat -> Int] /\ G \in [Nat -> Int]
  <2> HIDE DEF qs
  <2> QED BY <1>1, TermType
<1>3. F[j] = ps[j].scalar * ps[j].point /\ G[j] = e.scalar * e.point
  BY <1>1 DEF Term
<1>4. \A i \in Nat \ {j} : G[i] = F[i]
  BY <1>1 DEF Term
<1>5. PartialSums(G)[n] = PartialSums(F)[n] + (G[j] - F[j])
  <2>1. j \in Nat \ {0} /\ n \in Nat /\ j <= n
    BY <1>1
  <2> HIDE DEF F, G, n
  <2>2. PartialSums(G)[n] = PartialSums(F)[n] + (IF j <= n THEN G[j] - F[j] ELSE 0)
    BY <1>2, <1>4, <2>1, PartialSumsUpdate
  <2> QED BY <2>1, <2>2
<1>6. SumOf(ps) = PartialSums(F)[n] /\ SumOf(qs) = PartialSums(G)[n]
  BY <1>1 DEF SumOf
<1> HIDE DEF F, G
<1> QED BY <1>3, <1>5, <1>6

\* A heap that is not empty has a greatest pair to pop: without one the scalars
\* of S would exceed every number.
LEMMA GreatestExists ==
  ASSUME TypeOK, NEW S \in SUBSET DOMAIN pairs, S # {}
  PROVE  Greatest(S) # {}
<1> SUFFICES ASSUME Greatest(S) = {} PROVE FALSE
  OBVIOUS
<1>1. \A i \in S : pairs[i].scalar \in 0 .. Order - 1
  <2> SUFFICES ASSUME NEW i \in S PROVE pairs[i].scalar \in 0 .. Order - 1
    OBVIOUS
  <2>1. pairs[i] \in Pair
    BY DEF TypeOK
  <2> QED BY <2>1 DEF Pair, Scalar
<1>2. \A i \in S : \E j \in S : ~ (pairs[j].scalar <= pairs[i].scalar)
  BY DEF Greatest
<1>3. Order \in Nat
  BY OrderAssumption
<1> DEFINE T == {n \in Nat : \E i \in S : n <= pairs[i].scalar}
<1>4. T \in SUBSET Nat /\ 0 \in T /\ \A n \in T : n + 1 \in T
  <2>1. 0 \in T
    BY <1>1, <1>3
  <2>2. ASSUME NEW n \in T PROVE n + 1 \in T
    <3>1. PICK i \in S : n <= pairs[i].scalar
      OBVIOUS
    <3>2. PICK j \in S : ~ (pairs[j].scalar <= pairs[i].scalar)
      BY <1>2
    <3>3. n + 1 <= pairs[j].scalar
      BY <1>1, <1>3, <3>1, <3>2
    <3> QED BY <3>3
  <2> QED BY <2>1, <2>2
<1>5. T = Nat
  <2> HIDE DEF T
  <2> QED BY <1>4, NatSetInduction
<1>6. Order \in T
  BY <1>3, <1>5
<1> QED BY <1>1, <1>3, <1>6

\* insert keeps the pairs well formed and the known points in their slots, and
\* adds scalar * point to the sum, whether it finds the point or appends it.
LEMMA InsertedFacts ==
  ASSUME TypeOK, KnownCoalesced, pc \in {"collect", "drain"},
         NEW p \in Group, NEW s \in Scalar
  PROVE  LET qs == Inserted(p, s)
         IN  /\ qs \in Seq(Pair) /\ DOMAIN pairs \subseteq DOMAIN qs
             /\ \A k \in DOMAIN known :
                  /\ known[k].index \in DOMAIN qs
                  /\ qs[known[k].index].point = known[k].point
                  /\ \A i \in DOMAIN qs :
                        qs[i].point = known[k].point => i <= known[k].index
             /\ SumOf(qs) % Order = ((SumOf(pairs) % Order) + s * p) % Order
<1> DEFINE qs == Inserted(p, s)
           N  == Order
<1>1. N \in Nat \ {0} /\ p \in Int /\ s \in Int /\ s * p \in Int
  BY OrderAssumption DEF Group, Scalar
<1>2. pairs \in Seq(Pair) /\ SumOf(pairs) \in Int
  BY TermType DEF TypeOK
<1>3. CASE KnownSlots(p) = {}
  <2> DEFINE e == [point |-> p, scalar |-> s]
  <2>1. e \in Pair /\ qs = Append(pairs, e)
    BY <1>3 DEF Inserted, Pair
  <2>2. qs \in Seq(Pair) /\ Len(qs) = Len(pairs) + 1
    BY <1>2, <2>1
  <2>3. \A i \in DOMAIN pairs : qs[i] = pairs[i]
    BY <1>2, <2>1
  <2>4. qs[Len(pairs) + 1].point = p
    BY <1>2, <2>1
  <2>5. \A k \in DOMAIN known : known[k].point # p
    BY <1>3 DEF KnownSlots
  <2>6. DOMAIN qs = DOMAIN pairs \cup {Len(pairs) + 1}
    BY <1>2, <2>2
  <2>7. \A k \in DOMAIN known :
          /\ known[k].index \in DOMAIN qs
          /\ qs[known[k].index].point = known[k].point
          /\ \A i \in DOMAIN qs :
                qs[i].point = known[k].point => i <= known[k].index
    <3> HIDE DEF qs
    <3> QED BY <2>3, <2>4, <2>5, <2>6 DEF KnownCoalesced
  <2>8. SumOf(qs) = SumOf(pairs) + s * p
    <3>1. SumOf(Append(pairs, e)) = SumOf(pairs) + e.scalar * e.point
      <4> HIDE DEF e
      <4> QED BY <1>2, <2>1, SumAppend
    <3> QED BY <2>1, <3>1
  <2>9. SumOf(qs) % N = ((SumOf(pairs) % N) + s * p) % N
    <3> DEFINE a == SumOf(pairs)
               b == s * p
    <3>1. a \in Int /\ b \in Int
      BY <1>1, <1>2
    <3> HIDE DEF a, b
    <3>2. (a + b) % N = ((a % N) + b) % N
      BY <1>1, <3>1, ModPlus
    <3> QED BY <2>8, <3>2 DEF a, b
  <2> QED BY <2>2, <2>6, <2>7, <2>9
<1>4. CASE KnownSlots(p) # {}
  <2> DEFINE k == CHOOSE i \in KnownSlots(p) : TRUE
             j == known[k].index
             x == pairs[j].scalar
             y == (x + s) % N
             e == [point |-> p, scalar |-> y]
  <2>1. k \in DOMAIN known /\ known[k].point = p
    BY <1>4 DEF KnownSlots
  <2>2. j \in DOMAIN pairs /\ pairs[j].point = p
    <3> HIDE DEF k
    <3> QED BY <2>1 DEF KnownCoalesced
  <2>3. pairs[j] \in Pair
    <3> HIDE DEF j
    <3> QED BY <1>2, <2>2
  <2>4. x \in Int
    <3> HIDE DEF j
    <3> QED BY <1>1, <2>3 DEF Pair, Scalar
  <2>5. y \in 0 .. N - 1 /\ \E q \in Int : x + s = q * N + y
    <3> DEFINE w == x + s
    <3>1. w \in Int
      BY <1>1, <2>4
    <3> HIDE DEF w
    <3>2. w % N \in 0 .. N - 1 /\ \E q \in Int : w = q * N + (w % N)
      BY <1>1, <3>1, ModRange
    <3> QED BY <3>2 DEF w
  <2>6. e \in Pair
    <3> HIDE DEF y
    <3> QED BY <2>5 DEF Pair, Scalar
  <2>7. qs = [pairs EXCEPT ![j] = e]
    <3>1. qs = [pairs EXCEPT ![j].scalar = (@ + s) % Order]
      BY <1>4 DEF Inserted
    <3>2. [pairs[j] EXCEPT !.scalar = y] = e
      <4> HIDE DEF j, y
      <4> QED BY <2>2, <2>3 DEF Pair
    <3> HIDE DEF j, e
    <3> QED BY <3>1, <3>2
  <2>8. qs \in Seq(Pair) /\ DOMAIN qs = DOMAIN pairs
    <3> HIDE DEF j, e, qs
    <3> QED BY <1>2, <2>2, <2>6, <2>7
  <2>9. \A i \in DOMAIN pairs : qs[i].point = pairs[i].point
    <3>1. e.point = p
      OBVIOUS
    <3> HIDE DEF j, e, qs
    <3> SUFFICES ASSUME NEW i \in DOMAIN pairs PROVE qs[i].point = pairs[i].point
      OBVIOUS
    <3>2. qs[i] = IF i = j THEN e ELSE pairs[i]
      BY <1>2, <2>7
    <3> QED BY <2>2, <3>1, <3>2
  <2>10. \A l \in DOMAIN known :
           /\ known[l].index \in DOMAIN qs
           /\ qs[known[l].index].point = known[l].point
           /\ \A i \in DOMAIN qs :
                 qs[i].point = known[l].point => i <= known[l].index
    <3> HIDE DEF qs, j
    <3> QED BY <2>8, <2>9 DEF KnownCoalesced
  <2>11. SumOf(qs) = SumOf(pairs) + (y * p - x * p)
    <3>1. SumOf(qs) = SumOf(pairs) + (e.scalar * e.point - pairs[j].scalar * pairs[j].point)
      <4> HIDE DEF j, e, qs
      <4> QED BY <1>2, <2>2, <2>6, <2>7, SumExcept
    <3>2. e.scalar = y /\ e.point = p
      OBVIOUS
    <3> HIDE DEF j, e, y
    <3> QED BY <2>2, <3>1, <3>2 DEF x
  <2>12. PICK q \in Int : x + s = q * N + y
    BY <2>5
  <2>13. SumOf(qs) = SumOf(pairs) + s * p + (0 - q * p) * N
    <3>1. y = x + s - q * N /\ y \in Int
      <4> HIDE DEF x, y
      <4> QED BY <1>1, <2>4, <2>5, <2>12
    <3>2. y * p - x * p = s * p + (0 - q * p) * N
      <4> HIDE DEF x, y
      <4>1. y * p = (x + s - q * N) * p
        BY <3>1
      <4>2. (x + s - q * N) * p = x * p + s * p + (0 - q * p) * N
        BY <1>1, <2>4
      <4> QED BY <1>1, <2>4, <4>1, <4>2
    <3>3. s * p \in Int /\ (0 - q * p) * N \in Int
      BY <1>1
    <3> HIDE DEF x, y, qs
    <3> QED BY <1>2, <2>11, <3>2, <3>3
  <2>14. SumOf(qs) % N = ((SumOf(pairs) % N) + s * p) % N
    <3> DEFINE a == SumOf(pairs)
               b == s * p
               m == 0 - q * p
    <3>1. a \in Int /\ b \in Int /\ m \in Int
      BY <1>1, <1>2
    <3>2. SumOf(qs) = a + b + m * N
      BY <2>13
    <3> HIDE DEF a, b, m
    <3>3. (a + b + m * N) % N = ((a % N) + b) % N
      BY <1>1, <3>1, ModCarry
    <3> QED BY <3>2, <3>3 DEF a, b
  <2> QED BY <2>8, <2>10, <2>14
<1> QED BY <1>3, <1>4

-----------------------------------------------------------------------------
\* One turn of the reduction: both new pairs are well formed, the sum keeps its
\* residue, and the scalar of a gives way to the difference.
LEMMA ReduceFacts ==
  ASSUME TypeOK, NEW a \in live, NEW b \in live, Reduce(a, b)
  PROVE  /\ a # b /\ pairs' \in Seq(Pair) /\ DOMAIN pairs' = DOMAIN pairs
         /\ pairs[a].scalar \in Scalar /\ pairs[b].scalar \in Scalar \ {0}
         /\ pairs'[a].scalar = pairs[a].scalar - pairs[b].scalar
         /\ pairs'[b].scalar = pairs[b].scalar
         /\ \A i \in DOMAIN pairs \ {a, b} : pairs'[i] = pairs[i]
         /\ live' = IF pairs'[a].scalar # 0 THEN live ELSE live \ {a}
         /\ SumOf(pairs') % Order = SumOf(pairs) % Order
<1> DEFINE N  == Order
           sa == pairs[a].scalar
           sb == pairs[b].scalar
           pa == pairs[a].point
           pb == pairs[b].point
           sc == (sa - sb) % N
           pd == (pa + pb) % N
           c  == [point |-> pa, scalar |-> sc]
           d  == [point |-> pd, scalar |-> sb]
           q1 == [pairs EXCEPT ![a] = c]
           q2 == [q1 EXCEPT ![b] = d]
<1>1. N \in Nat \ {0} /\ pairs \in Seq(Pair) /\ a \in DOMAIN pairs /\ b \in DOMAIN pairs
  BY OrderAssumption DEF TypeOK
<1>2. a # b /\ sb <= sa /\ sb # 0
  BY DEF Reduce, Greatest, Exhausted
<1>3. pairs[a] \in Pair /\ pairs[b] \in Pair
  BY <1>1
<1>4. sa \in 0 .. N - 1 /\ sb \in 0 .. N - 1 /\ pa \in 0 .. N - 1 /\ pb \in 0 .. N - 1
  BY <1>3 DEF Pair, Scalar, Group
<1>5. sc = sa - sb /\ sc \in 0 .. N - 1
  <2> DEFINE r == sa - sb
  <2> HIDE DEF sa, sb
  <2>1. r \in 0 .. N - 1
    BY <1>1, <1>2, <1>4
  <2> HIDE DEF r
  <2>2. r % N = r
    BY <1>1, <2>1, ModSmall
  <2> QED BY <2>1, <2>2 DEF r
<1>6. pd \in 0 .. N - 1 /\ \E k \in Int : pa + pb = k * N + pd
  <2> DEFINE w == pa + pb
  <2> HIDE DEF pa, pb
  <2>1. w \in Int
    BY <1>1, <1>4
  <2> HIDE DEF w
  <2>2. w % N \in 0 .. N - 1 /\ \E k \in Int : w = k * N + (w % N)
    BY <1>1, <2>1, ModRange
  <2> QED BY <2>2 DEF w
<1>7. c \in Pair /\ d \in Pair
  <2> HIDE DEF sa, sb, pa, pb, sc, pd
  <2> QED BY <1>4, <1>5, <1>6 DEF Pair, Scalar, Group
<1>8. pairs' = q2
  <2>1. pairs' = [pairs EXCEPT ![a] = c, ![b] = d]
    BY DEF Reduce, AddPoints
  <2> QED BY <2>1
<1>9. live' = IF sc # 0 THEN live ELSE live \ {a}
  BY DEF Reduce, Pushed
<1>10. c.scalar = sc /\ c.point = pa /\ d.scalar = sb /\ d.point = pd
  OBVIOUS
<1>11. /\ q1 \in Seq(Pair) /\ DOMAIN q1 = DOMAIN pairs /\ q1[a] = c
       /\ \A i \in DOMAIN pairs \ {a} : q1[i] = pairs[i]
  <2> HIDE DEF c
  <2> QED BY <1>1, <1>7
<1>12. /\ q2 \in Seq(Pair) /\ DOMAIN q2 = DOMAIN pairs /\ q2[b] = d /\ q2[a] = c
       /\ \A i \in DOMAIN pairs \ {a, b} : q2[i] = pairs[i]
  <2> HIDE DEF c, d, q1
  <2> QED BY <1>1, <1>2, <1>7, <1>11
<1>13. SumOf(q1) = SumOf(pairs) + (sc * pa - sa * pa)
  <2>1. SumOf(q1) = SumOf(pairs) + (c.scalar * c.point - pairs[a].scalar * pairs[a].point)
    <3> HIDE DEF c
    <3> QED BY <1>1, <1>7, SumExcept
  <2> QED BY <1>10, <2>1
<1>14. SumOf(q2) = SumOf(q1) + (sb * pd - sb * pb)
  <2>1. SumOf(q2) = SumOf(q1) + (d.scalar * d.point - q1[b].scalar * q1[b].point)
    <3> HIDE DEF d, q1
    <3> QED BY <1>1, <1>7, <1>11, SumExcept
  <2>2. q1[b] = pairs[b]
    BY <1>1, <1>2, <1>11
  <2> QED BY <1>10, <2>1, <2>2
<1>15. SumOf(pairs) \in Int
  BY <1>1, TermType
<1>16. SumOf(pairs') % N = SumOf(pairs) % N
  <2>1. PICK k \in Int : pa + pb = k * N + pd
    BY <1>6
  <2> DEFINE S == SumOf(pairs)
             m == 0 - sb * k
  <2>2. S \in Int /\ m \in Int
    BY <1>1, <1>4, <1>15
  <2>3. SumOf(q2) = S + m * N
    <3> HIDE DEF sa, sb, pa, pb, sc, pd, q1, q2
    <3>1. sa \in Int /\ sb \in Int /\ pa \in Int /\ pb \in Int /\ N \in Int
      BY <1>1, <1>4
    <3>2. sc * pa - sa * pa = 0 - sb * pa
      BY <1>5, <3>1
    <3>3. pd = pa + pb - k * N
      BY <1>6, <2>1, <3>1
    <3>4. sb * pd - sb * pb = sb * pa + m * N
      BY <3>1, <3>3
    <3>5. sb * pa \in Int /\ m * N \in Int
      BY <2>2, <3>1
    <3> HIDE DEF S, m
    <3>6. SumOf(q1) = S + (0 - sb * pa)
      BY <1>13, <3>2 DEF S
    <3>7. SumOf(q2) = SumOf(q1) + (sb * pa + m * N)
      BY <1>14, <3>4
    <3> QED BY <2>2, <3>5, <3>6, <3>7
  <2>4. (S + 0 + m * N) % N = ((S % N) + 0) % N
    <3> DEFINE z == 0
    <3>1. z \in Int
      OBVIOUS
    <3> HIDE DEF S, m, z
    <3>2. (S + z + m * N) % N = ((S % N) + z) % N
      BY <1>1, <2>2, <3>1, ModCarry
    <3> QED BY <3>2 DEF z
  <2>5. ((S % N) + 0) % N = S % N
    <3> DEFINE r == S % N
    <3>1. r \in 0 .. N - 1
      <4> HIDE DEF S
      <4> QED BY <1>1, <2>2, ModRange
    <3> HIDE DEF r
    <3>2. r % N = r
      BY <1>1, <3>1, ModSmall
    <3>3. r + 0 = r
      BY <1>1, <3>1
    <3> QED BY <3>2, <3>3 DEF r
  <2>6. S + 0 + m * N = S + m * N
    <3> HIDE DEF S, m
    <3> QED BY <1>1, <2>2
  <2> HIDE DEF S, m, q2
  <2> QED BY <1>8, <2>3, <2>4, <2>5, <2>6 DEF S
<1> HIDE DEF sc, sa, sb, c, d, q1, q2
<1>17. /\ pairs' \in Seq(Pair) /\ DOMAIN pairs' = DOMAIN pairs
       /\ \A i \in DOMAIN pairs \ {a, b} : pairs'[i] = pairs[i]
       /\ pairs'[a].scalar = sc /\ pairs'[b].scalar = sb
  BY <1>8, <1>10, <1>12
<1> QED BY <1>2, <1>4, <1>5, <1>9, <1>16, <1>17 DEF sa, sb, Scalar

\* The end of the reduction: when what is left besides a has zero scalars, the
\* scalar multiple of a is the whole sum.
LEMMA ReturnFacts ==
  ASSUME IInv, NEW a \in live, Return(a)
  PROVE  result' = total
<1>1. pairs \in Seq(Pair) /\ a \in DOMAIN pairs /\ live \subseteq DOMAIN pairs
  BY DEF IInv, TypeOK
<1>2. \A i \in live \ {a} : pairs[i].scalar = 0
  <2> SUFFICES ASSUME NEW i \in live \ {a} PROVE pairs[i].scalar = 0
    OBVIOUS
  <2>1. PICK b \in Greatest(live \ {a}) : TRUE
    BY <1>1, GreatestExists DEF IInv
  <2>2. b \in live /\ pairs[b].scalar = 0 /\ pairs[i].scalar <= pairs[b].scalar
    BY <2>1 DEF Return, Greatest, Exhausted
  <2>3. pairs[i] \in Pair
    BY <1>1
  <2>4. pairs[i].scalar \in 0 .. Order - 1
    BY <2>3 DEF Pair, Scalar
  <2> QED BY <2>2, <2>4, OrderAssumption
<1>3. \A i \in DOMAIN pairs \ {a} : pairs[i].scalar = 0
  BY <1>2 DEF IInv, HeapHoldsTheRest, Return
<1>4. \A i \in DOMAIN pairs : pairs[i].point \in Int
  <2> SUFFICES ASSUME NEW i \in DOMAIN pairs PROVE pairs[i].point \in Int
    OBVIOUS
  <2>1. pairs[i] \in Pair
    BY <1>1
  <2> QED BY <2>1, OrderAssumption DEF Pair, Group
<1> DEFINE F == Term(pairs)
           m == Len(pairs)
<1>5. F \in [Nat -> Int] /\ m \in Nat /\ a \in 1 .. m
  BY <1>1, TermType
<1>6. F[a] = pairs[a].scalar * pairs[a].point
  BY <1>5 DEF Term
<1>7. \A i \in (1 .. m) \ {a} : F[i] = 0
  <2> SUFFICES ASSUME NEW i \in (1 .. m) \ {a} PROVE F[i] = 0
    OBVIOUS
  <2>1. F[i] = pairs[i].scalar * pairs[i].point
    BY <1>1 DEF Term
  <2>2. pairs[i].scalar = 0 /\ pairs[i].point \in Int
    BY <1>1, <1>3, <1>4
  <2> HIDE DEF F
  <2> QED BY <2>1, <2>2
<1>8. PartialSums(F)[m] = F[a]
  <2> HIDE DEF F, m
  <2> QED BY <1>5, <1>7, PartialSumsSingle
<1>9. SumOf(pairs) = pairs[a].scalar * pairs[a].point
  BY <1>6, <1>8 DEF SumOf
<1>10. result' = SumOf(pairs) % Order
  BY <1>9 DEF Return, ScalarMul
<1> QED BY <1>10 DEF IInv, SumPreserved, Return

\* evaluate with at most one pair returns the sum too.
LEMMA SmallFacts ==
  ASSUME IInv, EvaluateSmall
  PROVE  result' = total
<1>1. pairs \in Seq(Pair) /\ Len(pairs) \in Nat /\ Len(pairs) <= 1
  BY DEF IInv, TypeOK, EvaluateSmall
<1>2. SumOf(pairs) % Order = total
  BY DEF IInv, SumPreserved, EvaluateSmall
<1> DEFINE F == Term(pairs)
<1>3. F \in [Nat -> Int]
  BY <1>1, TermType
<1>4. CASE pairs = <<>>
  <2>1. SumOf(pairs) = 0
    <3>1. Len(pairs) = 0
      BY <1>4
    <3>2. PartialSums(F)[0] = 0
      <4> HIDE DEF F
      <4> QED BY <1>3, PartialSumsDef
    <3> QED BY <3>1, <3>2 DEF SumOf
  <2>2. 0 % Order = 0
    BY OrderAssumption, ModSmall
  <2> QED BY <1>2, <1>4, <2>1, <2>2 DEF EvaluateSmall, IDENTITY
<1>5. CASE pairs # <<>>
  <2>1. Len(pairs) = 1
    <3> DEFINE m == Len(pairs)
    <3>1. m \in Nat \ {0} /\ m <= 1
      BY <1>1, <1>5, EmptySeq
    <3> HIDE DEF m
    <3>2. m = 1
      BY <3>1
    <3> QED BY <3>2 DEF m
  <2>2. F[1] = pairs[1].scalar * pairs[1].point
    BY <2>1 DEF Term
  <2>3. PartialSums(F)[1] = F[1]
    <3> DEFINE m == 1
    <3>1. m \in Nat /\ m \in 1 .. m /\ \A i \in (1 .. m) \ {m} : F[i] = 0
      OBVIOUS
    <3> HIDE DEF F, m
    <3>2. PartialSums(F)[m] = F[m]
      BY <1>3, <3>1, PartialSumsSingle
    <3> QED BY <3>2 DEF m
  <2>4. SumOf(pairs) = pairs[1].scalar * pairs[1].point
    BY <2>1, <2>2, <2>3 DEF SumOf
  <2> QED BY <1>2, <1>5, <2>4 DEF EvaluateSmall, ScalarMul
<1> QED BY <1>4, <1>5

-----------------------------------------------------------------------------
\* A new MultiMult satisfies the inductive invariant.
LEMMA InitIInv == Init => IInv
<1> SUFFICES ASSUME Init PROVE IInv
  OBVIOUS
<1> USE DEF Init
<1>1. TypeOK
  BY OrderAssumption DEF TypeOK, Scalar, Group
<1>2. KnownCoalesced
  BY DEF KnownCoalesced
<1>3. HeapHoldsTheRest
  BY DEF HeapHoldsTheRest
<1>4. SumPreserved
  <2>1. Term(<<>>) \in [Nat -> Int]
    <3>1. <<>> \in Seq(Pair)
      OBVIOUS
    <3> QED BY <3>1, TermType
  <2>2. PartialSums(Term(<<>>))[0] = 0
    <3> DEFINE F == Term(<<>>)
    <3> HIDE DEF F
    <3> QED BY <2>1, PartialSumsDef DEF F
  <2>3. SumOf(pairs) = 0
    BY <2>2 DEF SumOf
  <2>4. 0 % Order = 0
    BY OrderAssumption, ModSmall
  <2> QED BY <2>3, <2>4 DEF SumPreserved
<1> QED BY <1>1, <1>2, <1>3, <1>4 DEF IInv

\* Inserting a pair, whether insert is called directly or by drain, keeps the
\* part of the invariant that speaks of pairs, known and total.
LEMMA InsertStep ==
  ASSUME IInv, pc \in {"collect", "drain"}, pc' \in {"collect", "drain"},
         NEW p \in Group, NEW s \in Scalar,
         pairs' = Inserted(p, s), total' = (total + s * p) % Order,
         UNCHANGED <<known, live, result>>
  PROVE  /\ pairs' \in Seq(Pair) /\ live' \subseteq DOMAIN pairs' /\ total' \in Group
         /\ KnownCoalesced' /\ HeapHoldsTheRest' /\ SumPreserved'
<1>1. TypeOK /\ KnownCoalesced /\ SumOf(pairs) % Order = total
  BY DEF IInv, SumPreserved
<1>2. /\ pairs' \in Seq(Pair) /\ DOMAIN pairs \subseteq DOMAIN pairs'
      /\ \A k \in DOMAIN known :
           /\ known[k].index \in DOMAIN pairs'
           /\ pairs'[known[k].index].point = known[k].point
           /\ \A i \in DOMAIN pairs' :
                 pairs'[i].point = known[k].point => i <= known[k].index
      /\ SumOf(pairs') % Order = total'
  BY <1>1, InsertedFacts
<1>3. live' \subseteq DOMAIN pairs'
  BY <1>1, <1>2 DEF TypeOK
<1>4. total' \in Group
  <2>1. SumOf(pairs') \in Int
    BY <1>2, TermType
  <2>2. Order \in Nat \ {0}
    BY OrderAssumption
  <2>3. SumOf(pairs') % Order \in 0 .. Order - 1
    BY <2>1, <2>2, ModRange
  <2> QED BY <1>2, <2>3 DEF Group
<1>5. KnownCoalesced'
  BY <1>1, <1>2 DEF KnownCoalesced
<1>6. HeapHoldsTheRest'
  BY DEF HeapHoldsTheRest
<1>7. SumPreserved'
  BY <1>2 DEF SumPreserved
<1> QED BY <1>2, <1>3, <1>4, <1>5, <1>6, <1>7

\* Every step of every operation preserves the inductive invariant.
LEMMA NextIInv == IInv /\ [Next]_vars => IInv'
<1> SUFFICES ASSUME IInv, [Next]_vars PROVE IInv'
  OBVIOUS
<1>0. /\ TypeOK /\ KnownCoalesced /\ HeapHoldsTheRest /\ SumPreserved
      /\ pc = "drain" => relation # <<>>
      /\ \A i \in DOMAIN relation : relation[i].point \in Points
      /\ pc # "done" => result = NoResult
  BY DEF IInv
<1>1. Points \subseteq Group /\ 0 \in Scalar /\ 0 \in Group /\ Order \in Nat \ {0}
  BY OrderAssumption, PointsAssumption DEF Group, Scalar
<1>2. ASSUME NEW point \in Points, AddKnown(point) PROVE IInv'
  <2> USE <1>2
  <2> DEFINE e == [point |-> point, scalar |-> 0]
             k == [point |-> point, index |-> Len(pairs')]
  <2>1. pc = "collect" /\ e \in Pair /\ pairs \in Seq(Pair) /\ known \in Seq(Known)
    BY <1>0, <1>1 DEF AddKnown, TypeOK, Pair
  <2>2. pairs' = Append(pairs, e) /\ known' = Append(known, k)
    BY DEF AddKnown
  <2>3. /\ pairs' \in Seq(Pair) /\ Len(pairs') = Len(pairs) + 1
        /\ Len(pairs') \in Nat /\ DOMAIN pairs' = DOMAIN pairs \cup {Len(pairs')}
        /\ pairs'[Len(pairs')].point = point
        /\ \A i \in DOMAIN pairs : pairs'[i] = pairs[i]
        /\ \A i \in DOMAIN pairs' : i <= Len(pairs')
    <3>1. e.point = point
      OBVIOUS
    <3> HIDE DEF e
    <3> QED BY <2>1, <2>2, <3>1
  <2>4. k \in Known /\ k.point = point /\ k.index = Len(pairs')
    BY <1>1, <2>3 DEF Known
  <2>5. /\ known' \in Seq(Known) /\ known'[Len(known) + 1] = k
        /\ DOMAIN known' = DOMAIN known \cup {Len(known) + 1}
        /\ \A l \in DOMAIN known : known'[l] = known[l]
    <3> HIDE DEF k
    <3> QED BY <2>1, <2>2, <2>4
  <2>6. \A l \in DOMAIN known : known[l].point # point
    BY DEF AddKnown, KnownSlots
  <2>7. TypeOK'
    <3>1. live' \subseteq DOMAIN pairs'
      BY <1>0, <2>3 DEF AddKnown, TypeOK
    <3> QED BY <1>0, <2>3, <2>5, <3>1 DEF AddKnown, TypeOK
  <2>8. KnownCoalesced'
    <3> HIDE DEF k
    <3> SUFFICES ASSUME NEW l \in DOMAIN known'
                 PROVE  /\ known'[l].index \in DOMAIN pairs'
                        /\ pairs'[known'[l].index].point = known'[l].point
                        /\ \A i \in DOMAIN pairs' : pairs'[i].point = known'[l].point
                                                      => i <= known'[l].index
                        /\ \A m \in DOMAIN known' : known'[m].point = known'[l].point
                                                      => m = l
      BY DEF KnownCoalesced
    <3>1. CASE l \in DOMAIN known
      <4>1. /\ known[l].index \in DOMAIN pairs
            /\ pairs[known[l].index].point = known[l].point
            /\ \A i \in DOMAIN pairs : pairs[i].point = known[l].point
                                         => i <= known[l].index
            /\ \A m \in DOMAIN known : known[m].point = known[l].point => m = l
        BY <1>0, <2>1, <3>1 DEF KnownCoalesced
      <4>2. known'[l] = known[l] /\ known[l].point # point
        BY <2>5, <2>6, <3>1
      <4> QED BY <2>3, <2>4, <2>5, <4>1, <4>2
    <3>2. CASE l = Len(known) + 1
      <4>1. known'[l] = k
        BY <2>5, <3>2
      <4> QED BY <2>3, <2>4, <2>5, <2>6, <3>2, <4>1
    <3> QED BY <2>5, <3>1, <3>2
  <2>9. SumPreserved'
    <3>1. SumOf(Append(pairs, e)) = SumOf(pairs) + e.scalar * e.point
      <4> HIDE DEF e
      <4> QED BY <2>1, SumAppend
    <3>2. e.scalar * e.point = 0 /\ SumOf(pairs) \in Int
      <4>1. SumOf(pairs) \in Int /\ point \in Int
        BY <1>1, <2>1, TermType DEF Group
      <4> QED BY <4>1
    <3>3. SumOf(pairs') = SumOf(pairs)
      <4> HIDE DEF e
      <4> QED BY <2>2, <3>1, <3>2
    <3> QED BY <1>0, <3>3 DEF AddKnown, SumPreserved
  <2>10. HeapHoldsTheRest'
    BY <2>1 DEF AddKnown, HeapHoldsTheRest
  <2> QED BY <1>0, <2>1, <2>7, <2>8, <2>9, <2>10 DEF IInv, AddKnown
<1>3. ASSUME NEW point \in Points, NEW scalar \in Scalar, Insert(point, scalar)
      PROVE  IInv'
  <2>1. /\ pc = "collect" /\ pc' = "collect" /\ pairs' = Inserted(point, scalar)
        /\ total' = (total + scalar * point) % Order
        /\ UNCHANGED <<known, relation, randomizer, live, result>>
    BY <1>3 DEF Insert
  <2>2. /\ pairs' \in Seq(Pair) /\ live' \subseteq DOMAIN pairs' /\ total' \in Group
        /\ KnownCoalesced' /\ HeapHoldsTheRest' /\ SumPreserved'
    <3>1. point \in Group
      BY <1>1
    <3> QED BY <2>1, <3>1, InsertStep
  <2>3. TypeOK'
    BY <1>0, <2>1, <2>2 DEF TypeOK
  <2> QED BY <1>0, <2>1, <2>2, <2>3 DEF IInv
<1>4. ASSUME NEW point \in Points, NEW scalar \in Scalar, RelationInsert(point, scalar)
      PROVE  IInv'
  <2> USE <1>4
  <2> DEFINE e == [point |-> point, scalar |-> scalar]
  <2>1. e \in Pair /\ relation \in Seq(Pair) /\ relation' = Append(relation, e)
        /\ e.point = point
    BY <1>0, <1>1 DEF RelationInsert, TypeOK, Pair
  <2>2. relation' \in Seq(Pair) /\ \A i \in DOMAIN relation' : relation'[i].point \in Points
    <3> HIDE DEF e
    <3> QED BY <1>0, <2>1
  <2>3. TypeOK'
    BY <1>0, <2>2 DEF RelationInsert, TypeOK
  <2>4. KnownCoalesced' /\ HeapHoldsTheRest' /\ SumPreserved'
    BY <1>0 DEF RelationInsert, KnownCoalesced, HeapHoldsTheRest, SumPreserved
  <2> QED BY <1>0, <2>2, <2>3, <2>4 DEF IInv, RelationInsert
<1>5. ASSUME NEW rho \in Scalar, Drain(rho) PROVE IInv'
  <2> USE <1>5
  <2>1. TypeOK'
    BY <1>0 DEF Drain, TypeOK
  <2>2. KnownCoalesced' /\ HeapHoldsTheRest' /\ SumPreserved'
    BY <1>0 DEF Drain, KnownCoalesced, HeapHoldsTheRest, SumPreserved
  <2> QED BY <1>0, <2>1, <2>2 DEF IInv, Drain
<1>6. CASE DrainPair
  <2> USE <1>6
  <2> DEFINE p == Head(relation).point
             s == (Head(relation).scalar * randomizer) % Order
  <2>1. relation # <<>> /\ relation \in Seq(Pair) /\ pc = "drain"
    BY <1>0 DEF DrainPair, TypeOK
  <2>2. /\ Head(relation) \in Pair /\ Tail(relation) \in Seq(Pair)
        /\ Head(relation) = relation[1] /\ 1 \in DOMAIN relation
        /\ \A i \in DOMAIN Tail(relation) : /\ i + 1 \in DOMAIN relation
                                            /\ Tail(relation)[i] = relation[i + 1]
    <3>1. Len(relation) \in Nat \ {0}
      BY <2>1, EmptySeq
    <3> QED BY <2>1, <3>1
  <2>3. p \in Group /\ p \in Points
    BY <1>0, <1>1, <2>2
  <2>4. s \in Scalar
    <3> DEFINE x == Head(relation).scalar * randomizer
    <3>1. Head(relation).scalar \in Scalar /\ randomizer \in Scalar
      BY <1>0, <2>2 DEF Pair, TypeOK
    <3>2. x \in Int
      BY <1>1, <3>1 DEF Scalar
    <3> HIDE DEF x
    <3>3. x % Order \in 0 .. Order - 1
      BY <1>1, <3>2, ModRange
    <3> QED BY <3>3 DEF x, Scalar
  <2>5. /\ pairs' = Inserted(p, s) /\ total' = (total + s * p) % Order
        /\ relation' = Tail(relation) /\ UNCHANGED <<known, live, result>>
        /\ IF Tail(relation) = <<>> THEN pc' = "collect" /\ randomizer' = 0
                                    ELSE UNCHANGED <<pc, randomizer>>
    BY DEF DrainPair
  <2>6. pc' \in {"collect", "drain"} /\ randomizer' \in Scalar
        /\ (pc' = "drain" => relation' # <<>>)
    BY <1>0, <1>1, <2>1, <2>5 DEF TypeOK
  <2>7. /\ pairs' \in Seq(Pair) /\ live' \subseteq DOMAIN pairs' /\ total' \in Group
        /\ KnownCoalesced' /\ HeapHoldsTheRest' /\ SumPreserved'
    <3> HIDE DEF p, s
    <3> QED BY <2>1, <2>3, <2>4, <2>5, <2>6, InsertStep
  <2>8. TypeOK'
    BY <1>0, <2>2, <2>5, <2>6, <2>7 DEF TypeOK
  <2>9. \A i \in DOMAIN relation' : relation'[i].point \in Points
    BY <1>0, <2>2, <2>5
  <2>10. pc' # "done" => result' = NoResult
    BY <1>0, <2>1, <2>5
  <2> QED BY <2>6, <2>7, <2>8, <2>9, <2>10 DEF IInv
<1>7. CASE EvaluateSmall
  <2> USE <1>7
  <2>1. result' = total
    BY SmallFacts
  <2>2. TypeOK'
    BY <1>0, <2>1 DEF EvaluateSmall, TypeOK
  <2>3. KnownCoalesced' /\ HeapHoldsTheRest' /\ SumPreserved'
    BY <1>0, <2>1 DEF EvaluateSmall, KnownCoalesced, HeapHoldsTheRest, SumPreserved
  <2> QED BY <1>0, <2>2, <2>3 DEF IInv, EvaluateSmall
<1>8. CASE Heapify
  <2> USE <1>8
  <2>1. pairs \in Seq(Pair) /\ Len(pairs) \in Nat /\ Len(pairs) > 1
    BY <1>0 DEF Heapify, TypeOK
  <2>2. TypeOK'
    BY <1>0 DEF Heapify, TypeOK
  <2>3. live' # {} /\ DOMAIN pairs' \ live' = {}
    <3>1. 1 \in DOMAIN pairs
      BY <2>1
    <3> QED BY <3>1 DEF Heapify
  <2>4. KnownCoalesced' /\ HeapHoldsTheRest' /\ SumPreserved'
    BY <1>0, <2>3 DEF Heapify, KnownCoalesced, HeapHoldsTheRest, SumPreserved
  <2> QED BY <1>0, <2>2, <2>4 DEF IInv, Heapify
<1>9. ASSUME NEW a \in live, Return(a) PROVE IInv'
  <2> USE <1>9
  <2>1. result' = total
    BY ReturnFacts
  <2>2. TypeOK'
    BY <1>0, <2>1 DEF Return, TypeOK
  <2>3. KnownCoalesced' /\ HeapHoldsTheRest' /\ SumPreserved'
    BY <1>0, <2>1 DEF Return, KnownCoalesced, HeapHoldsTheRest, SumPreserved
  <2> QED BY <1>0, <2>2, <2>3 DEF IInv, Return
<1>10. ASSUME NEW a \in live, NEW b \in live, Reduce(a, b) PROVE IInv'
  <2> USE <1>10
  <2>1. /\ a # b /\ pairs' \in Seq(Pair) /\ DOMAIN pairs' = DOMAIN pairs
        /\ pairs[b].scalar # 0 /\ pairs'[b].scalar = pairs[b].scalar
        /\ \A i \in DOMAIN pairs \ {a, b} : pairs'[i] = pairs[i]
        /\ live' = IF pairs'[a].scalar # 0 THEN live ELSE live \ {a}
        /\ SumOf(pairs') % Order = SumOf(pairs) % Order
    BY <1>0, ReduceFacts
  <2>2. /\ pc = "reduce" /\ pc' = "reduce"
        /\ UNCHANGED <<known, relation, randomizer, pc, result, total>>
    BY DEF Reduce
  <2>3. TypeOK'
    BY <1>0, <2>1, <2>2 DEF TypeOK
  <2>4. HeapHoldsTheRest'
    <3>1. b \in live'
      BY <2>1
    <3>2. \A i \in DOMAIN pairs' \ live' : pairs'[i].scalar = 0
      BY <1>0, <2>1, <2>2 DEF HeapHoldsTheRest
    <3> QED BY <3>1, <3>2 DEF HeapHoldsTheRest
  <2>5. KnownCoalesced' /\ SumPreserved'
    BY <1>0, <2>1, <2>2 DEF KnownCoalesced, SumPreserved
  <2> QED BY <1>0, <2>2, <2>3, <2>4, <2>5 DEF IInv
<1>11. CASE UNCHANGED vars
  BY <1>0, <1>11 DEF vars, IInv, TypeOK, KnownCoalesced, HeapHoldsTheRest, SumPreserved
<1> QED BY <1>2, <1>3, <1>4, <1>5, <1>6, <1>7, <1>8, <1>9, <1>10, <1>11
        DEF Next, ReduceStep

-----------------------------------------------------------------------------
\* The sum of the scalars is an integer.
LEMMA ScalarsType ==
  ASSUME NEW ps \in Seq(Pair)
  PROVE  Scalars(ps) \in [Nat -> Int] /\ Weight(ps) \in Int
<1>1. \A i \in 1 .. Len(ps) : ps[i].scalar \in Int
  <2> SUFFICES ASSUME NEW i \in 1 .. Len(ps) PROVE ps[i].scalar \in Int
    OBVIOUS
  <2>1. ps[i] \in Pair
    <3> HIDE DEF Pair
    <3> QED OBVIOUS
  <2>2. Order \in Int
    BY OrderAssumption
  <2> QED BY <2>1, <2>2 DEF Pair, Scalar
<1>2. Scalars(ps) \in [Nat -> Int]
  BY <1>1 DEF Scalars
<1>3. PartialSums(Scalars(ps)) \in [Nat -> Int]
  BY <1>2, PartialSumsDef
<1>4. Len(ps) \in Nat
  OBVIOUS
<1> QED BY <1>2, <1>3, <1>4 DEF Weight

\* Between two sequences of pairs that differ in one slot the sums of scalars
\* differ by what the scalar of that slot does.
LEMMA WeightUpdate ==
  ASSUME NEW ps \in Seq(Pair), NEW qs \in Seq(Pair), Len(qs) = Len(ps),
         NEW j \in DOMAIN ps, \A i \in DOMAIN ps \ {j} : qs[i] = ps[i]
  PROVE  Weight(qs) = Weight(ps) + (qs[j].scalar - ps[j].scalar)
<1> DEFINE n == Len(ps)
           F == Scalars(ps)
           G == Scalars(qs)
<1>1. n \in Nat /\ j \in 1 .. n /\ j \in Nat \ {0} /\ j <= n
  OBVIOUS
<1>2. F \in [Nat -> Int] /\ G \in [Nat -> Int]
  BY ScalarsType
<1>3. F[j] = ps[j].scalar /\ G[j] = qs[j].scalar
  BY <1>1 DEF Scalars
<1>4. \A i \in Nat \ {j} : G[i] = F[i]
  BY <1>1 DEF Scalars
<1>5. Weight(ps) = PartialSums(F)[n] /\ Weight(qs) = PartialSums(G)[n]
  BY DEF Weight
<1> HIDE DEF n, F, G
<1>6. PartialSums(G)[n] = PartialSums(F)[n] + (IF j <= n THEN G[j] - F[j] ELSE 0)
  BY <1>1, <1>2, <1>4, PartialSumsUpdate
<1> QED BY <1>1, <1>3, <1>5, <1>6

\* One turn of the reduction takes the scalar of b off the weight.
LEMMA ReduceWeight ==
  ASSUME TypeOK, NEW a \in live, NEW b \in live, Reduce(a, b)
  PROVE  Weight(pairs') < Weight(pairs)
<1>1. /\ a # b /\ pairs' \in Seq(Pair) /\ DOMAIN pairs' = DOMAIN pairs
      /\ pairs[a].scalar \in Scalar /\ pairs[b].scalar \in Scalar \ {0}
      /\ pairs'[a].scalar = pairs[a].scalar - pairs[b].scalar
      /\ pairs'[b].scalar = pairs[b].scalar
      /\ \A i \in DOMAIN pairs \ {a, b} : pairs'[i] = pairs[i]
  BY ReduceFacts
<1>2. pairs \in Seq(Pair) /\ a \in DOMAIN pairs /\ b \in DOMAIN pairs
  BY DEF TypeOK
<1> DEFINE qs == [pairs EXCEPT ![a] = pairs'[a]]
<1>3. pairs'[a] \in Pair
  BY <1>1, <1>2
<1>4. /\ qs \in Seq(Pair) /\ Len(qs) = Len(pairs) /\ Len(pairs') = Len(pairs)
      /\ qs[a] = pairs'[a] /\ \A i \in DOMAIN pairs \ {a} : qs[i] = pairs[i]
      /\ \A i \in DOMAIN qs \ {b} : pairs'[i] = qs[i]
      /\ b \in DOMAIN qs /\ qs[b] = pairs[b]
  BY <1>1, <1>2, <1>3
<1> HIDE DEF qs
<1>5. Weight(qs) = Weight(pairs) + (qs[a].scalar - pairs[a].scalar)
  BY <1>2, <1>4, WeightUpdate
<1>6. Weight(pairs') = Weight(qs) + (pairs'[b].scalar - qs[b].scalar)
  BY <1>1, <1>4, WeightUpdate
<1>7. Weight(pairs) \in Int
  BY <1>2, ScalarsType
<1>8. pairs[a].scalar \in Int /\ pairs[b].scalar \in Int /\ pairs[b].scalar > 0
  <2>1. Order \in Int
    BY OrderAssumption
  <2> QED BY <1>1, <2>1 DEF Scalar
<1> QED BY <1>1, <1>4, <1>5, <1>6, <1>7, <1>8

-----------------------------------------------------------------------------
\* The inductive invariant holds in every reachable state.
THEOREM Inductive == Spec => []IInv
<1> QED BY InitIInv, NextIInv, PTL DEF Spec

\* Every field keeps its type, scalars and points stay reduced.
THEOREM TypeCorrect == Spec => []TypeOK
<1>1. IInv => TypeOK
  BY DEF IInv
<1> QED BY <1>1, Inductive, PTL

\* The table of known points stays true of the pairs while they are collected.
THEOREM KnownCorrect == Spec => []KnownCoalesced
<1>1. IInv => KnownCoalesced
  BY DEF IInv
<1> QED BY <1>1, Inductive, PTL

\* The unwrap of evaluate never meets an empty heap, and what left the heap has
\* no weight in the sum.
THEOREM HeapCorrect == Spec => []HeapHoldsTheRest
<1>1. IInv => HeapHoldsTheRest
  BY DEF IInv
<1> QED BY <1>1, Inductive, PTL

\* Collecting, draining and reducing keep the sum, and evaluate returns it.
THEOREM SumCorrect == Spec => []SumPreserved
<1>1. IInv => SumPreserved
  BY DEF IInv
<1> QED BY <1>1, Inductive, PTL

\* The sum of the scalars falls in every turn of the reduction, so that the loop
\* of evaluate is bounded by it.
THEOREM ReductionDescends == Spec => ReductionProgress
<1>1. IInv /\ [Next]_vars =>
        [pc = "reduce" /\ pc' = "reduce" => Weight(pairs') < Weight(pairs)]_vars
  <2> SUFFICES ASSUME IInv, [Next]_vars, vars' # vars, pc = "reduce", pc' = "reduce"
               PROVE  Weight(pairs') < Weight(pairs)
    BY DEF vars
  <2>1. PICK a \in live, b \in live : Reduce(a, b)
    BY DEF Next, AddKnown, Insert, RelationInsert, Drain, DrainPair, EvaluateSmall,
           Heapify, ReduceStep, Return
  <2> QED BY <2>1, ReduceWeight DEF IInv
<1> QED BY <1>1, Inductive, PTL DEF Spec, ReductionProgress

\* MultiMult implements the naive sum: coalesced or not, drained or inserted, and
\* whatever pairs the heap yields, evaluate returns the sum of what was handed in.
THEOREM Refinement == Spec => ImplementsNaiveSum
<1>1. Init => Naive!Init
  BY DEF Init, Naive!Init
<1>2. IInv /\ IInv' /\ [Next]_vars => [Naive!Next]_<<total, result>>
  <2> SUFFICES ASSUME IInv, IInv', [Next]_vars
               PROVE  [Naive!Next]_<<total, result>>
    OBVIOUS
  <2> USE DEF Naive!Next
  <2>1. ASSUME NEW point \in Points, AddKnown(point)
        PROVE  UNCHANGED <<total, result>>
    BY <2>1 DEF AddKnown
  <2>2. ASSUME NEW point \in Points, NEW scalar \in Scalar, Insert(point, scalar)
        PROVE  Naive!Next
    <3>1. Naive!Accumulate(point, scalar)
      BY <2>2 DEF Insert, Naive!Accumulate, IInv
    <3> QED BY <3>1 DEF Scalar
  <2>3. ASSUME NEW point \in Points, NEW scalar \in Scalar, RelationInsert(point, scalar)
        PROVE  UNCHANGED <<total, result>>
    BY <2>3 DEF RelationInsert
  <2>4. ASSUME NEW rho \in Scalar, Drain(rho) PROVE UNCHANGED <<total, result>>
    BY <2>4 DEF Drain
  <2>5. CASE DrainPair
    <3> DEFINE p == Head(relation).point
               x == Head(relation).scalar * randomizer
               s == x % Order
    <3>1. /\ relation \in Seq(Pair) /\ relation # <<>> /\ randomizer \in Scalar
          /\ result = NoResult /\ \A i \in DOMAIN relation : relation[i].point \in Points
      BY <2>5 DEF IInv, TypeOK, DrainPair
    <3>2. Head(relation) \in Pair /\ Head(relation) = relation[1] /\ 1 \in DOMAIN relation
      <4>1. Len(relation) \in Nat \ {0}
        BY <3>1, EmptySeq
      <4> QED BY <3>1, <4>1
    <3>3. p \in Points
      BY <3>1, <3>2
    <3>4. s \in 0 .. Order - 1
      <4>1. x \in Int /\ Order \in Nat \ {0}
        BY <3>1, <3>2, OrderAssumption DEF Pair, Scalar
      <4> HIDE DEF x
      <4> QED BY <4>1, ModRange
    <3>5. total' = (total + s * p) % Order /\ UNCHANGED result
      BY <2>5 DEF DrainPair
    <3>6. Naive!Accumulate(p, s)
      <4> HIDE DEF p, s
      <4> QED BY <3>1, <3>5 DEF Naive!Accumulate
    <3> HIDE DEF p, s
    <3> QED BY <3>3, <3>4, <3>6
  <2>6. CASE EvaluateSmall
    <3>1. Naive!Evaluate
      BY <2>6, SmallFacts DEF EvaluateSmall, Naive!Evaluate, IInv
    <3> QED BY <3>1
  <2>7. CASE Heapify
    BY <2>7 DEF Heapify
  <2>8. ASSUME NEW a \in live, Return(a) PROVE Naive!Next
    <3>1. Naive!Evaluate
      BY <2>8, ReturnFacts DEF Return, Naive!Evaluate, IInv
    <3> QED BY <3>1
  <2>9. ASSUME NEW a \in live, NEW b \in live, Reduce(a, b)
        PROVE  UNCHANGED <<total, result>>
    BY <2>9 DEF Reduce
  <2>10. CASE UNCHANGED vars
    BY <2>10 DEF vars
  <2> QED BY <2>1, <2>2, <2>3, <2>4, <2>5, <2>6, <2>7, <2>8, <2>9, <2>10
          DEF Next, ReduceStep
<1> QED BY <1>1, <1>2, Inductive, PTL DEF Spec, ImplementsNaiveSum, Naive!Spec
==============================================================================

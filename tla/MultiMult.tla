------------------------------ MODULE MultiMult ------------------------------
(***************************************************************************)
(* The batch verifier of tom256 (arithmetic/multimult.rs).  Every proof of *)
(* the crate is checked by collecting its equations, each scaled by a      *)
(* fresh random scalar, into one MultiMult and asking at the end whether   *)
(* the whole sum is the identity.                                          *)
(*                                                                         *)
(* A MultiMult keeps `pairs` (point, scalar) and a table `known` of points *)
(* that get a single slot; a Relation is a local list of pairs that drain  *)
(* scales and moves into a MultiMult; evaluate runs the Bos-Coster         *)
(* reduction over a max-heap of the pairs.                                 *)
(*                                                                         *)
(* The group is the cyclic group of order Order, a point is its discrete   *)
(* logarithm.  The heap is the set `live` of slots of pairs: pop and       *)
(* peek_mut return some pair with a greatest scalar, which one of several  *)
(* equal ones depends on the layout of the heap.                           *)
(***************************************************************************)
EXTENDS Integers, Sequences, Iteration

CONSTANTS Order,        \* order of the curve group
          Points,       \* points the callers hand in
          NoResult,     \* value of result before evaluate returns
          MaxPairs,     \* bound of the model: slots a MultiMult may get
          MaxRelation   \* bound of the model: pairs of one Relation

ASSUME OrderAssumption  == Order \in Nat \ {0}
ASSUME PointsAssumption == Points \subseteq 0 .. Order - 1
ASSUME NoResultAssumption == NoResult \notin 0 .. Order - 1
ASSUME BoundsAssumption == MaxPairs \in Nat /\ MaxRelation \in Nat

VARIABLES pairs,       \* MultiMult.pairs
          known,       \* MultiMult.known
          relation,    \* Relation.pairs of the relation being built
          randomizer,  \* the scalar drain drew for it
          live,        \* slots of pairs that are in the heap of evaluate
          pc,          \* where the owner of the MultiMult is
          result,      \* what evaluate returned
          total        \* history: the sum of the terms handed in so far

vars == <<pairs, known, relation, randomizer, live, pc, result, total>>

Scalar == 0 .. Order - 1
Group  == 0 .. Order - 1
Pair   == [point : Group, scalar : Scalar]
Known  == [point : Group, index : Nat]

AddPoints(p, q)   == (p + q) % Order
ScalarMul(p, s)   == (s * p) % Order
IDENTITY          == 0

\* The entries of known for a point; add_known never makes a second one, so
\* known.iter().find(..) has at most one to find.
KnownSlots(point) == {k \in DOMAIN known : known[k].point = point}

\* Mutants of Inserted: the sum left unreduced; the known slot not looked for;
\* its scalar overwritten.
InsertedUnreduced(point, scalar) ==
  LET k == CHOOSE i \in KnownSlots(point) : TRUE
  IN  IF KnownSlots(point) = {}
        THEN Append(pairs, [point |-> point, scalar |-> scalar])
        ELSE [pairs EXCEPT ![known[k].index].scalar = @ + scalar]
InsertedAppended(point, scalar) == Append(pairs, [point |-> point, scalar |-> scalar])
InsertedOverwritten(point, scalar) ==
  LET k == CHOOSE i \in KnownSlots(point) : TRUE
  IN  IF KnownSlots(point) = {}
        THEN Append(pairs, [point |-> point, scalar |-> scalar])
        ELSE [pairs EXCEPT ![known[k].index].scalar = scalar]

\* The pairs after one MultiMult::insert(point, scalar).
Inserted(point, scalar) ==
  LET k == CHOOSE i \in KnownSlots(point) : TRUE
  IN  IF KnownSlots(point) = {}
        THEN Append(pairs, [point |-> point, scalar |-> scalar])
        ELSE [pairs EXCEPT ![known[k].index].scalar = (@ + scalar) % Order]

\* The sum of scalar * point over a sequence of pairs, in the integers.
Term(ps)  == [i \in Nat |-> IF i \in 1 .. Len(ps)
                              THEN ps[i].scalar * ps[i].point ELSE 0]
SumOf(ps) == PartialSums(Term(ps))[Len(ps)]

-----------------------------------------------------------------------------
Init ==
  /\ pairs = <<>> /\ known = <<>> /\ relation = <<>>
  /\ randomizer = 0 /\ live = {}
  /\ pc = "collect" /\ result = NoResult /\ total = 0

\* add_known: a point gets one slot, with scalar zero, unless it has one.
AddKnown(point) ==
  /\ pc = "collect" /\ Len(pairs) < MaxPairs
  /\ KnownSlots(point) = {}
  /\ pairs' = Append(pairs, [point |-> point, scalar |-> 0])
  /\ known' = Append(known, [point |-> point, index |-> Len(pairs')])
  /\ UNCHANGED <<relation, randomizer, live, pc, result, total>>

\* insert(point, scalar), called directly.
Insert(point, scalar) ==
  /\ pc = "collect" /\ Len(pairs) < MaxPairs
  /\ pairs' = Inserted(point, scalar)
  /\ total' = (total + scalar * point) % Order
  /\ UNCHANGED <<known, relation, randomizer, live, pc, result>>

\* Relation::insert
RelationInsert(point, scalar) ==
  /\ pc = "collect" /\ Len(relation) < MaxRelation
  /\ relation' = Append(relation, [point |-> point, scalar |-> scalar])
  /\ UNCHANGED <<pairs, known, randomizer, live, pc, result, total>>

\* Relation::drain draws its randomizer, zero included.
Drain(rho) ==
  /\ pc = "collect" /\ relation # <<>>
  /\ Len(pairs) + Len(relation) <= MaxPairs
  /\ randomizer' = rho
  /\ pc' = "drain"
  /\ UNCHANGED <<pairs, known, relation, live, result, total>>

\* One turn of drain's loop; the relation is consumed.
DrainPair ==
  /\ pc = "drain"
  /\ LET point  == Head(relation).point
         scalar == (Head(relation).scalar * randomizer) % Order
     IN  /\ pairs' = Inserted(point, scalar)
         /\ total' = (total + scalar * point) % Order
  /\ relation' = Tail(relation)
  /\ IF Tail(relation) = <<>>
       THEN pc' = "collect" /\ randomizer' = 0
       ELSE UNCHANGED <<pc, randomizer>>
  /\ UNCHANGED <<known, live, result>>

-----------------------------------------------------------------------------
\* evaluate with no pair, or one.
EvaluateSmall ==
  /\ pc = "collect" /\ Len(pairs) <= 1
  /\ result' = IF pairs = <<>> THEN IDENTITY
                               ELSE ScalarMul(pairs[1].point, pairs[1].scalar)
  /\ pc' = "done"
  /\ UNCHANGED <<pairs, known, relation, randomizer, live, total>>

\* evaluate with more: heapify_vec(self.pairs).
Heapify ==
  /\ pc = "collect" /\ Len(pairs) > 1
  /\ live' = DOMAIN pairs
  /\ pc' = "reduce"
  /\ UNCHANGED <<pairs, known, relation, randomizer, result, total>>

\* The slots a pop (or peek) of the heap S may return.  Mutant: a min-heap.
Least(S)    == {i \in S : \A j \in S : pairs[j].scalar >= pairs[i].scalar}
Greatest(S) == {i \in S : \A j \in S : pairs[j].scalar <= pairs[i].scalar}

\* The test on the peeked b that ends the loop.  Mutants: test dropped, inverted.
NeverExhausted(b)  == FALSE
AlwaysExhausted(b) == TRUE
Exhausted(b) == pairs[b].scalar = 0

\* What the heap holds once pair c has replaced the popped a: c is pushed unless
\* its scalar is zero.  Mutant: it is never pushed.
NotPushed(a, c) == live \ {a}
Pushed(a, c) == IF c.scalar # 0 THEN live ELSE live \ {a}

\* pop yields a; the heap is empty, or its greatest scalar is zero.
Return(a) ==
  /\ pc = "reduce" /\ a \in Greatest(live)
  /\ \A b \in Greatest(live \ {a}) : Exhausted(b)
  /\ result' = ScalarMul(pairs[a].point, pairs[a].scalar)
  /\ pc' = "done"
  /\ live' = {}
  /\ UNCHANGED <<pairs, known, relation, randomizer, total>>

\* pop yields a, peek_mut b: s_a * A + s_b * B = (s_a - s_b) * A + s_b * (A + B).
Reduce(a, b) ==
  /\ pc = "reduce" /\ a \in Greatest(live) /\ b \in Greatest(live \ {a})
  /\ ~ Exhausted(b)
  /\ LET c == [point  |-> pairs[a].point,
               scalar |-> (pairs[a].scalar - pairs[b].scalar) % Order]
         d == [point  |-> AddPoints(pairs[a].point, pairs[b].point),
               scalar |-> pairs[b].scalar]
     IN  /\ pairs' = [pairs EXCEPT ![a] = c, ![b] = d]
         /\ live' = Pushed(a, c)
  /\ UNCHANGED <<known, relation, randomizer, pc, result, total>>

-----------------------------------------------------------------------------
ReduceStep == \/ \E a \in live : Return(a)
              \/ \E a, b \in live : Reduce(a, b)

Next ==
  \/ \E point \in Points : AddKnown(point)
  \/ \E point \in Points, scalar \in Scalar :
        Insert(point, scalar) \/ RelationInsert(point, scalar)
  \/ \E rho \in Scalar : Drain(rho)
  \/ DrainPair
  \/ EvaluateSmall \/ Heapify
  \/ ReduceStep

\* A call of evaluate or drain, once begun, runs to its end: they are loops of
\* one thread.  Nothing forces a caller to make the next call.
Fairness == WF_vars(DrainPair) /\ WF_vars(ReduceStep)

Spec == Init /\ [][Next]_vars
FairSpec == Spec /\ Fairness

-----------------------------------------------------------------------------
TypeOK ==
  /\ pairs \in Seq(Pair) /\ relation \in Seq(Pair) /\ known \in Seq(Known)
  /\ randomizer \in Scalar /\ live \subseteq DOMAIN pairs
  /\ pc \in {"collect", "drain", "reduce", "done"}
  /\ result \in Group \cup {NoResult} /\ total \in Group

\* The table `known` stays true of `pairs` while they are collected: each entry
\* is the only one of its point and points at its slot, and no later slot
\* repeats a known point, so
\* the generators that occur in every equation are multiplied once
\* (multimult.rs:42-61).
KnownCoalesced ==
  pc \in {"collect", "drain"} =>
    \A k \in DOMAIN known :
      /\ known[k].index \in DOMAIN pairs
      /\ pairs[known[k].index].point = known[k].point
      /\ \A i \in DOMAIN pairs :
            pairs[i].point = known[k].point => i <= known[k].index
      /\ \A l \in DOMAIN known : known[l].point = known[k].point => l = k

\* "unwrap is fine here because peeking and pre-loop checks guarantee len is at
\* least 1" (multimult.rs:80): the heap of evaluate is never empty when it pops,
\* and what it no longer holds has a zero coefficient.
HeapHoldsTheRest ==
  pc = "reduce" => /\ live # {}
                   /\ \A i \in DOMAIN pairs \ live : pairs[i].scalar = 0

\* Coalescing, draining and every turn of the reduction keep the value of the
\* whole sum, and evaluate returns it (multimult.rs:55-108).
SumPreserved ==
  /\ pc # "done" => SumOf(pairs) % Order = total
  /\ pc = "done" => result = total

\* The sum of the scalars of a sequence of pairs.
Scalars(ps) == [i \in Nat |-> IF i \in 1 .. Len(ps) THEN ps[i].scalar ELSE 0]
Weight(ps)  == PartialSums(Scalars(ps))[Len(ps)]

\* Every turn of the reduction makes the sum of the scalars smaller, whatever
\* pair the heap yields among equal ones: the loop of multimult.rs:79 ends.
ReductionProgress ==
  [][pc = "reduce" /\ pc' = "reduce" => Weight(pairs') < Weight(pairs)]_vars

\* evaluate and drain return (multimult.rs:79-107, 134-139).
CallsReturn == /\ pc = "reduce" ~> pc = "done"
               /\ pc = "drain" ~> pc = "collect"

\* MultiMult implements the naive sum (test multimult_multiple).
Naive == INSTANCE LinearCombination WITH total <- total, result <- result
ImplementsNaiveSum == Naive!Spec
=============================================================================

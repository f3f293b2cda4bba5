-------------------------- MODULE LinearCombination --------------------------
(***************************************************************************)
(* What tom256::arithmetic::multimult promises its callers: the value it   *)
(* evaluates to is the linear combination of everything handed to it, the  *)
(* sum of scalar * point computed term by term (the `expected` that the    *)
(* test multimult_multiple computes beside it).  Order is the order of the *)
(* curve group; a point is its discrete logarithm to the base of           *)
(* Point::GENERATOR, so the identity is 0 and scalar * point is a product. *)
(***************************************************************************)
EXTENDS Integers

CONSTANTS Order,    \* the order of the curve group
          Points,   \* the points a caller may hand in
          NoResult  \* the result before evaluate has returned

VARIABLES total,    \* the sum of the terms handed in so far
          result    \* what evaluate returned

Init == total = 0 /\ result = NoResult

\* One more term scalar * point.
Accumulate(point, scalar) ==
  /\ result = NoResult
  /\ total' = (total + scalar * point) % Order
  /\ UNCHANGED result

\* evaluate(self) consumes the accumulator: nothing follows it.
Evaluate ==
  /\ result = NoResult
  /\ result' = total
  /\ UNCHANGED total

Next ==
  \/ \E point \in Points, scalar \in 0 .. Order - 1 : Accumulate(point, scalar)
  \/ Evaluate

Spec == Init /\ [][Next]_<<total, result>>
==============================================================================

------------------------------ MODULE Iteration ------------------------------
(***************************************************************************)
(* Loops over the naturals as functions: c before the first turn, and      *)
(* G[n] applied to the value before the n-th; and finite sums.             *)
(***************************************************************************)
EXTENDS Integers

Iterate(c, G) ==
  LET r[n \in Nat] == IF n = 0 THEN c ELSE G[n][r[n - 1]]
  IN  r

\* Powers of two.
TwoTo == Iterate(1, [l \in Nat |-> [v \in Nat |-> 2 * v]])

\* PartialSums(F)[n] = F[1] + ... + F[n], for F \in [Nat -> Int].
PartialSums(F) ==
  LET s[n \in Nat] == IF n = 0 THEN 0 ELSE s[n - 1] + F[n]
  IN  s
==============================================================================

------------------------------- MODULE Scalars -------------------------------
(***************************************************************************)
(* The scalars of a group: residues modulo its order, as Scalar of tom256  *)
(* (arithmetic/scalar.rs) and of curv (elliptic/curves/wrappers/scalar.rs) *)
(* hold them.                                                              *)
(***************************************************************************)
EXTENDS Integers

CONSTANT Order   \* Curve::ORDER, Scalar::group_order

Scalar == 0 .. Order - 1
=============================================================================

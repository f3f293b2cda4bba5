----------------------------- MODULE MCMultiMult -----------------------------
(* MultiMult over the group of order 3, its two generators.                  *)
EXTENDS MultiMult
MCPoints == {1, 2}
==============================================================================

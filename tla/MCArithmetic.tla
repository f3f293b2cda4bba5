----------------------------- MODULE MCArithmetic -----------------------------
(***************************************************************************)
(* The arithmetic of tom256, one of its three parts in each behaviour: the *)
(* registers of Scalar and FieldElement modulo 13, the points of the curve *)
(* y^2 = x^3 + 3 over F_7 (COEFF_A = 0 and a prime order, 13, as           *)
(* secp256k1 and Tom256k1 have them), the windowed multiplication in a     *)
(* group of order 31, whose scalars have none, one and two digits.          *)
(***************************************************************************)
EXTENDS ModularArith, ScalarMul

VARIABLES part,            \* the part that runs
          lhs, rhs, log    \* PointArith

PA == INSTANCE PointArith WITH Prime <- 7, CoeffA <- 0, CoeffB <- 3, Order <- 13, Generator <- <<1, 2>>

ASSUME ScalarMulAssumptions == /\ OrderAssumption /\ PointsAssumption /\ DigitsAssumption
                               /\ DigitsCoverScalars

-----------------------------------------------------------------------------
pointVars == <<lhs, rhs, log>>

NoPoints == lhs = 0 /\ rhs = 0 /\ log = 0

AllInit ==
  /\ Init /\ MulInit
  /\ \/ part \in {"modular", "scalar_mul"} /\ NoPoints
     \/ part = "points" /\ PA!Init

Modular        == part = "modular"    /\ Next    /\ UNCHANGED <<part, mulVars, pointVars>>
Multiplication == part = "scalar_mul" /\ MulNext /\ UNCHANGED <<part, vars, pointVars>>
PointCalls     == part = "points"     /\ PA!Next /\ UNCHANGED <<part, vars, mulVars>>

AllNext == Modular \/ Multiplication \/ PointCalls

allVars == <<part, vars, mulVars, pointVars>>

AllSpec == AllInit /\ [][AllNext]_allVars

-----------------------------------------------------------------------------
\* Whatever calls on points follow each other, the registers stay on the curve
\* and agree with the chord-and-tangent law, equal, opposite and identity
\* operands included, and the two orders of a sum give one triple, as the
\* transcripts of prover and verifier need (geometric_add, hasher.rs:20).
PointsCorrect == part = "points" => /\ PA!TypeOK /\ PA!RegistersCorrect
                                    /\ PA!StaysOnCurve /\ PA!SumsHashAlike

\* == and is_identity decide equality of group elements for every representative
\* a sequence of operations produces: MultiMult and every verifier's answer
\* depend on it (point/mod.rs:42, impl_macro.rs:102).
ComparisonsDecide == part = "points" => PA!EqualityDecides /\ PA!IdentityDecides
===============================================================================

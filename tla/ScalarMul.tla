------------------------------ MODULE ScalarMul ------------------------------
(***************************************************************************)
(* The windowed scalar multiplications of tom256 points                    *)
(* (arithmetic/point/impl_macro.rs: scalar_mul, double_mul) over the       *)
(* hexadecimal digits of the scalars (arithmetic/scalar.rs).               *)
(*                                                                         *)
(* Points are their discrete logarithms in the cyclic group of order       *)
(* Order: PointArith shows that geometric_add is addition in that group.   *)
(***************************************************************************)
EXTENDS Scalars, Sequences, Iteration

CONSTANTS Points,       \* points the callers multiply
          ScalarDigits  \* digits of a scalar's full representation (64 for U256)

OrderAssumption  == Order \in Nat \ {0}
PointsAssumption == Points \subseteq 0 .. Order - 1
DigitsAssumption == ScalarDigits \in Nat \ {0}

Group == 0 .. Order - 1
Digit == 0 .. 15          \* BASE_16_DIGITS

IDENTITY == 0
AddPoints(p, r) == (p + r) % Order
Double(p) == AddPoints(p, p)

VARIABLES point, scalar,            \* self and this_scalar
          otherPoint, otherScalar,  \* the second term of double_mul
          this, other,              \* the strings of digits the loop walks
          pos,                      \* digits consumed so far
          q,                        \* the accumulator
          pc                        \* "idle", the function running, "done"

mulVars == <<point, scalar, otherPoint, otherScalar, this, other, pos, q, pc>>

\* The number the first i digits of a string stand for.
PrefixValue(ds) == Iterate(0, [i \in Nat |-> [v \in Int |-> 16 * v + ds[i]]])
Value(ds) == PrefixValue(ds)[Len(ds)]

\* to_unpadded_string: the digits from the first that is not zero on, none for
\* the scalar zero.
Strings == UNION {[1 .. n -> Digit] : n \in 0 .. ScalarDigits}
DigitsCoverScalars == \A n \in Scalar : \E ds \in Strings : Value(ds) = n
Unpadded(n) == CHOOSE ds \in Strings :
                 Value(ds) = n /\ (ds # <<>> => ds[1] # 0)

\* pad_to_equal_len_strings, for a string whose partner has n digits.
Padded(ds, n) == IF Len(ds) < n THEN [i \in 1 .. n - Len(ds) |-> 0] \o ds ELSE ds

\* The lookup table: current starts as the identity and the point is added after
\* each digit's entry.  Mutant: before it.
LookupShifted(p) == Iterate(p, [d \in Nat |-> [c \in Group |-> AddPoints(c, p)]])
Lookup(p) == Iterate(IDENTITY, [d \in Nat |-> [c \in Group |-> AddPoints(c, p)]])

\* One window: the accumulator is doubled four times.
Window(p) == Double(Double(Double(Double(p))))

-----------------------------------------------------------------------------
MulInit ==
  /\ point = IDENTITY /\ scalar = 0 /\ otherPoint = IDENTITY /\ otherScalar = 0
  /\ this = <<>> /\ other = <<>> /\ pos = 0 /\ q = IDENTITY /\ pc = "idle"

\* point.scalar_mul(&scalar)
ScalarMul(p, s) ==
  /\ pc = "idle" /\ pc' = "scalar_mul"
  /\ point' = p /\ scalar' = s /\ this' = Unpadded(s)
  /\ q' = IDENTITY /\ pos' = 0
  /\ UNCHANGED <<otherPoint, otherScalar, other>>

\* point.double_mul(&scalar, &otherPoint, &otherScalar)
DoubleMul(p, s, p2, s2) ==
  /\ pc = "idle" /\ pc' = "double_mul"
  /\ point' = p /\ scalar' = s /\ otherPoint' = p2 /\ otherScalar' = s2
  /\ this'  = Padded(Unpadded(s), Len(Unpadded(s2)))
  /\ other' = Padded(Unpadded(s2), Len(Unpadded(s)))
  /\ q' = IDENTITY /\ pos' = 0

\* One turn of the loop of scalar_mul.
ScalarMulDigit ==
  /\ pc = "scalar_mul" /\ pos < Len(this)
  /\ q' = AddPoints(Window(q), Lookup(point)[this[pos + 1]])
  /\ pos' = pos + 1
  /\ UNCHANGED <<point, scalar, otherPoint, otherScalar, this, other, pc>>

\* One turn of the loop of double_mul: zip ends with the shorter string.
DoubleMulDigit ==
  /\ pc = "double_mul" /\ pos < Len(this) /\ pos < Len(other)
  /\ q' = AddPoints(AddPoints(Window(q), Lookup(point)[this[pos + 1]]),
                    Lookup(otherPoint)[other[pos + 1]])
  /\ pos' = pos + 1
  /\ UNCHANGED <<point, scalar, otherPoint, otherScalar, this, other, pc>>

Return ==
  /\ \/ pc = "scalar_mul" /\ pos = Len(this)
     \/ pc = "double_mul" /\ (pos = Len(this) \/ pos = Len(other))
  /\ pc' = "done"
  /\ UNCHANGED <<point, scalar, otherPoint, otherScalar, this, other, pos, q>>

MulNext ==
  \/ \E p \in Points, s \in Scalar : ScalarMul(p, s)
  \/ \E p, p2 \in Points, s, s2 \in Scalar : DoubleMul(p, s, p2, s2)
  \/ ScalarMulDigit \/ DoubleMulDigit \/ Return

MulSpec == MulInit /\ [][MulNext]_mulVars

-----------------------------------------------------------------------------
MulTypeOK ==
  /\ point \in Group /\ otherPoint \in Group /\ scalar \in Scalar /\ otherScalar \in Scalar
  /\ this \in Seq(Digit) /\ other \in Seq(Digit)
  /\ pos \in 0 .. Len(this) /\ q \in Group
  /\ pc \in {"idle", "scalar_mul", "double_mul", "done"}

\* Before every turn the accumulator is the multiple by the digits consumed, of
\* both points: no carry between windows or between the two scalars is lost.
AccumulatesPrefix ==
  q = (PrefixValue(this)[pos] * point
         + (IF other = <<>> THEN 0 ELSE PrefixValue(other)[pos]) * otherPoint) % Order

\* The strings that double_mul zips have one length, so that no digit of the
\* longer scalar is dropped or read at the wrong weight (scalar.rs:33-46).
StringsAligned ==
  /\ Value(this) = scalar /\ Value(other) = otherScalar
  /\ pc = "double_mul" => Len(this) = Len(other)
  /\ pc = "done" => pos = Len(this)

\* What the two functions return, zero and identity included: u1*G + u2*Q.
ReturnsSum ==
  pc = "done" => q = (scalar * point + otherScalar * otherPoint) % Order

\* After every digit scalar_mul and double_mul hold the multiple by the digits
\* consumed, the strings of the two scalars stay aligned, and what they return
\* is the sum of the multiples, for zero scalars too (impl_macro.rs:203-256).
ScalarMulCorrect == MulTypeOK /\ StringsAligned /\ AccumulatesPrefix /\ ReturnsSum
=============================================================================

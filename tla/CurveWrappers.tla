---------------------------- MODULE CurveWrappers ---------------------------
(***************************************************************************)
(* Point<E> and Scalar<E> of curv (elliptic/curves/wrappers) over the two  *)
(* kinds of curve library below them: secp256k1, whose keys are never zero *)
(* so that None stands for zero, and BLS12-381, whose points may lie       *)
(* outside the subgroup of the generator.  A curve is the group of         *)
(* Cofactor * GroupOrder elements; the generator is the element Cofactor,  *)
(* and the libraries compute in that group.                                *)
(***************************************************************************)
EXTENDS ByteForm, Outcomes

CONSTANTS GroupOrder,   \* CURVE_ORDER, GROUP_ORDER
          BlsCofactor,
          Coordinates,  \* of each library: the coordinates of each nonzero element
          InfinityFlag, \* of BLS12-381: a first byte from here on says that there are none
          Numbers,      \* bound: numbers that scalars are made of
          Given         \* bound: coordinates that points are made of

Libraries == {"secp256k1", "bls12_381"}
Elements(l) == 1 .. GroupOrder * (IF l = "secp256k1" THEN 1 ELSE BlsCofactor) - 1

\* The order is prime.  An element has coordinates of two bytes, which are no
\* other's, and where there is a flag the first of these bytes is below it.
ASSUME WrapAssumption ==
  /\ GroupOrder \in Nat /\ GroupOrder > 1 /\ \A d \in 2 .. GroupOrder - 1 : GroupOrder % d # 0
  /\ BlsCofactor \in Nat \ {0} /\ InfinityFlag \in 1 .. Base - 1 /\ Numbers \subseteq Int
  /\ \A l \in Libraries :
       /\ Coordinates[l] \in [Elements(l) -> (0 .. Base * Base - 1) \X (0 .. Base * Base - 1)]
       /\ \A e, f \in Elements(l) : Coordinates[l][e] = Coordinates[l][f] => e = f
  /\ Given \subseteq (0 .. Base * Base - 1) \X (0 .. Base * Base - 1)
  /\ \A e \in Elements("bls12_381") : Coordinates["bls12_381"][e][1] < InfinityFlag * Base

VARIABLES lib,               \* the library below the wrappers
          points, scalars,   \* registers of a caller: Point<E> and Scalar<E>
          logs, residues     \* history: logs[r] * GENERATOR = points[r], residues[r] = scalars[r]

wrapVars == <<lib, points, scalars, logs, residues>>

Registers == 1..2
Secp == lib = "secp256k1"
Cofactor == IF Secp THEN 1 ELSE BlsCofactor
GroupSize == GroupOrder * Cofactor
GENERATOR == Cofactor
\* What a library holds of the element e, and of the scalar s.
PointOf(e)  == IF Secp /\ e = 0 THEN None ELSE e
ScalarOf(s) == IF Secp /\ s = 0 THEN None ELSE s
Reciprocal(s) == CHOOSE t \in 1..(GroupOrder - 1) : (s * t) % GroupOrder = 1

-----------------------------------------------------------------------------
\* ECScalar and ECPoint of secp256k1: a sum that the library refuses is zero.
Ok(n) == IF n = 0 THEN None ELSE n
SecpIsZero(x) == x = None
SecpScalarAdd(x, y) == IF x = None THEN y ELSE IF y = None THEN x ELSE Ok((x + y) % GroupOrder)
SecpScalarMul(x, y) == IF None \in {x, y} THEN None ELSE (x * y) % GroupOrder
SecpNeg(x) == IF x = None THEN None ELSE GroupOrder - x
SecpScalarSub(x, y) == SecpScalarAdd(x, SecpNeg(y))
SecpInvert(x) == IF x = None THEN None ELSE Reciprocal(x)
SecpFromBigInt(n) == IF n % GroupOrder = 0 THEN None ELSE n % GroupOrder
SecpAddPoint(x, y) == IF x = None THEN y ELSE IF y = None THEN x ELSE Ok((x + y) % GroupOrder)
SecpNegPoint(x) == IF x = None THEN None ELSE GroupOrder - x
SecpSubPoint(x, y) == SecpAddPoint(x, SecpNegPoint(y))
SecpMulPoint(p, s) == IF None \in {p, s} THEN None ELSE (p * s) % GroupOrder
SecpGeneratorMul(s) == IF s = None THEN None ELSE s
SecpCheckOrder(p) == ~SecpIsZero(p)
\* Bytes are [length, number]; a key's are those of no zero.
SecpDeserialize(bytes) ==
  IF bytes.length \in {"compressed", "uncompressed"}
    THEN IF bytes.number = 0 THEN None
         ELSE IF bytes.number < GroupOrder THEN bytes.number ELSE Err
    ELSE Err
SecpDeserializeScalar(bytes) ==
  IF bytes.length = "scalar" /\ bytes.number = 0 THEN None
  ELSE IF bytes.length = "scalar" /\ bytes.number < GroupOrder THEN bytes.number ELSE Err

\* The same of BLS12-381; scalars below the order, points of the whole curve.
BlsIsZero(x) == x = 0
BlsScalar(op, x, y) == CASE op = "add" -> (x + y) % GroupOrder
                         [] op = "sub" -> (x - y) % GroupOrder
                         [] op = "mul" -> (x * y) % GroupOrder
BlsNeg(x) == (-x) % GroupOrder
BlsInvert(x) == IF x = 0 THEN None ELSE Reciprocal(x)
BlsFromBigInt(n) == n % GroupOrder
BlsPoint(op, x, y) == CASE op = "add" -> (x + y) % GroupSize
                        [] op = "sub" -> (x - y) % GroupSize
                        [] op = "mul" -> (x * y) % GroupSize
BlsNegPoint(x) == (-x) % GroupSize
BlsCheckOrder(p) == ~BlsIsZero(p) /\ (GroupOrder * p) % GroupSize = 0
BlsDeserialize(bytes) ==
  IF bytes.length \in {"compressed", "uncompressed"} /\ bytes.number < GroupSize THEN bytes.number ELSE Err
BlsDeserializeScalar(bytes) ==
  IF bytes.length = "scalar" /\ bytes.number < GroupOrder THEN bytes.number ELSE Err

\* The methods of the traits.
IsZero(x) == IF Secp THEN SecpIsZero(x) ELSE BlsIsZero(x)
CheckOrder(p) == IF Secp THEN SecpCheckOrder(p) ELSE BlsCheckOrder(p)
Deserialize(bytes) == IF Secp THEN SecpDeserialize(bytes) ELSE BlsDeserialize(bytes)
DeserializeScalar(bytes) == IF Secp THEN SecpDeserializeScalar(bytes) ELSE BlsDeserializeScalar(bytes)
FromBigInt(n) == IF Secp THEN SecpFromBigInt(n) ELSE BlsFromBigInt(n)
InverseOf(x) == IF Secp THEN SecpInvert(x) ELSE BlsInvert(x)
Serialize(p, form) == [length |-> form, number |-> IF IsZero(p) THEN 0 ELSE p]
NegPoint(x) == IF Secp THEN SecpNegPoint(x) ELSE BlsNegPoint(x)
NegScalar(x) == IF Secp THEN SecpNeg(x) ELSE BlsNeg(x)
GeneratorMul(s) == IF Secp THEN SecpGeneratorMul(s) ELSE BlsPoint("mul", GENERATOR, s)
PointFn(op, x, y) == IF ~Secp THEN BlsPoint(op, x, y)
                     ELSE CASE op = "add" -> SecpAddPoint(x, y)
                            [] op = "sub" -> SecpSubPoint(x, y)
                            [] op = "mul" -> SecpMulPoint(x, y)
ScalarFn(op, x, y) == IF ~Secp THEN BlsScalar(op, x, y)
                      ELSE CASE op = "add" -> SecpScalarAdd(x, y)
                             [] op = "sub" -> SecpScalarSub(x, y)
                             [] op = "mul" -> SecpScalarMul(x, y)

-----------------------------------------------------------------------------
\* The operators, which matrix! defines for every way to pass the operands: by
\* variant, the library's function is called on the left or on the right one, with
\* the other as its argument.
Called(variant, x, y) == IF variant \in {"o_", "r_"} THEN <<x, y>> ELSE <<y, x>>
SumVariant(lhs, rhs) == IF lhs = "owned" THEN "o_" ELSE IF rhs = "owned" THEN "_o" ELSE "r_"
DifferenceVariant(lhs, rhs) == IF lhs = "owned" THEN "o_" ELSE "r_"
ProductVariant(lhs, rhs) == IF "scalar" \in {lhs[1]}
                              THEN IF rhs[2] = "owned" THEN "_o" ELSE "_r"
                              ELSE IF lhs[2] = "owned" THEN "o_" ELSE "r_"
Variant(op, lhs, rhs) == IF op = "sub" THEN DifferenceVariant(lhs, rhs) ELSE SumVariant(lhs, rhs)

\* from_raw, which from_coords and from_bytes end in, and its two uses with expect.
FromRaw(p) == IF p = Err THEN Err ELSE IF IsZero(p) \/ CheckOrder(p) THEN p ELSE Err
FromRawExpect(p) == IF FromRaw(p) = Err THEN Panic ELSE p

\* from_coords, with coordinates of two bytes: the bytes of each, as many as
\* there are, end where the coordinate ends.
\* Mutant: they begin where it begins.
PlacedAtStart(buffer, bytes, end) ==
  [i \in DOMAIN buffer |-> IF i \in (end - 1)..(end - 2 + Len(bytes)) THEN bytes[i - end + 2]
                           ELSE buffer[i]]
Placed(buffer, bytes, end) ==
  [i \in DOMAIN buffer |-> IF i \in (end - Len(bytes) + 1)..end THEN bytes[i - end + Len(bytes)]
                           ELSE buffer[i]]
ElementAt(given) == IF \E e \in DOMAIN Coordinates[lib] : Coordinates[lib][e] = given
                      THEN CHOOSE e \in DOMAIN Coordinates[lib] : Coordinates[lib][e] = given
                      ELSE Err
\* After the tag of the uncompressed form; a longer one reaches its neighbour.
SecpFromCoords(x, y) ==
  IF Len(ToBytes(x)) > 3 \/ Len(ToBytes(y)) > 5 THEN Panic
  ELSE LET buffer == Placed(Placed(<<4, 0, 0, 0, 0>>, ToBytes(x), 3), ToBytes(y), 5)
       IN  IF buffer[1] = 4 THEN ElementAt(<<buffer[2] * Base + buffer[3], buffer[4] * Base + buffer[5]>>)
                            ELSE Err
\* The two coordinates only, whose first byte may say that the point is zero.
BlsFromCoords(x, y) ==
  IF Len(ToBytes(x)) > 2 \/ Len(ToBytes(y)) > 2 THEN Err
  ELSE LET buffer == Placed(Placed(<<0, 0, 0, 0>>, ToBytes(x), 2), ToBytes(y), 4)
       IN  IF buffer = <<InfinityFlag, 0, 0, 0>> THEN 0
           ELSE ElementAt(<<buffer[1] * Base + buffer[2], buffer[3] * Base + buffer[4]>>)
FromCoords(x, y) == IF Secp THEN SecpFromCoords(x, y) ELSE BlsFromCoords(x, y)
\* coords, x_coord and y_coord: None of the zero point.
SecpCoords(p) == IF p = None THEN None ELSE Coordinates[lib][p]
BlsCoords(p) == IF BlsIsZero(p) THEN None ELSE Coordinates[lib][p]
Coords(p) == IF Secp THEN SecpCoords(p) ELSE BlsCoords(p)

-----------------------------------------------------------------------------
WrapInit ==
  /\ lib \in Libraries
  /\ points = [r \in Registers |-> PointOf(0)] /\ logs = [r \in Registers |-> 0]
  /\ scalars = [r \in Registers |-> ScalarOf(0)] /\ residues = [r \in Registers |-> 0]

\* A result of a function that may give Err or None leaves the register alone.
WritePoint(r, p, log) == /\ points' = IF p = Err THEN points ELSE [points EXCEPT ![r] = p]
                         /\ logs' = IF log = Err THEN logs ELSE [logs EXCEPT ![r] = log % GroupOrder]
                         /\ UNCHANGED <<lib, scalars, residues>>
WriteScalar(r, s, n) == /\ scalars' = IF s = Err THEN scalars ELSE [scalars EXCEPT ![r] = s]
                        /\ residues' = IF n = Err THEN residues ELSE [residues EXCEPT ![r] = n % GroupOrder]
                        /\ UNCHANGED <<lib, points, logs>>

\* The generator multiples of the element e: how often, or Err.
LogOf(e) == IF \E k \in 0..(GroupOrder - 1) : (k * GENERATOR) % GroupSize = e
              THEN CHOOSE k \in 0..(GroupOrder - 1) : (k * GENERATOR) % GroupSize = e
              ELSE Err

\* Point::from_raw and from_raw_ref of any element; from_bytes of any bytes.
PointFromRaw(r, e) == e < GroupSize /\ WritePoint(r, FromRaw(PointOf(e)), LogOf(e))
PointFromBytes(r, bytes) ==
  WritePoint(r, FromRaw(Deserialize(bytes)),
             IF bytes.length \in {"compressed", "uncompressed"} THEN LogOf(bytes.number) ELSE Err)
\* to_bytes of a point and back.
PointReencode(a, form, r) ==
  WritePoint(r, FromRaw(Deserialize(Serialize(points[a], form))), logs[a])
\* The coordinates of a point, and the point of the coordinates.
PointRecoordinate(a, r) ==
  /\ Coords(points[a]) # None
  /\ WritePoint(r, FromRaw(FromCoords(Coords(points[a])[1], Coords(points[a])[2])), logs[a])
\* from_coords of any two numbers: the point that has them as coordinates, or the
\* zero point of BLS12-381's flag.
FlagGiven(x, y) == ~Secp /\ x = InfinityFlag * Base /\ y = 0
PointFromCoords(r, x, y) ==
  WritePoint(r, FromRaw(FromCoords(x, y)), IF FlagGiven(x, y) THEN 0 ELSE LogOf(ElementAt(<<x, y>>)))
ScalarFromBigInt(r, n) == WriteScalar(r, FromBigInt(n), n)
ScalarFromBytes(r, bytes) ==
  WriteScalar(r, DeserializeScalar(bytes),
              IF bytes.length = "scalar" /\ bytes.number < GroupOrder THEN bytes.number ELSE Err)

\* An operand is a register, by value or by reference, or the generator.
Operand(kind, a) == IF kind = "generator" THEN GENERATOR ELSE points[a]
LogOperand(kind, a) == IF kind = "generator" THEN 1 ELSE logs[a]
PointOperation(op, lhs, a, rhs, b, to) ==
  WritePoint(to, LET on == Called(Variant(op, lhs, rhs), Operand(lhs, a), Operand(rhs, b))
                 IN  PointFn(op, on[1], on[2]),
             IF op = "add" THEN LogOperand(lhs, a) + LogOperand(rhs, b)
             ELSE LogOperand(lhs, a) - LogOperand(rhs, b))
MultiplyPoint(lhs, rhs, a, s, to) ==
  WritePoint(to, LET on == IF lhs[1] = "scalar"
                             THEN Called(ProductVariant(lhs, rhs), scalars[s], points[a])
                             ELSE Called(ProductVariant(lhs, rhs), points[a], scalars[s])
                 IN  PointFn("mul", on[1], on[2]),
             logs[a] * residues[s])
MultiplyGenerator(s, to) == WritePoint(to, FromRawExpect(GeneratorMul(scalars[s])), residues[s])
NegatePoint(kind, a, to) ==
  WritePoint(to, FromRawExpect(NegPoint(Operand(kind, a))), -LogOperand(kind, a))
SumPoints(to) ==
  WritePoint(to, PointFn("add", PointFn("add", PointOf(0), points[1]), points[2]),
             logs[1] + logs[2])

Result(op, x, y) == CASE op = "add" -> x + y [] op = "sub" -> x - y [] op = "mul" -> x * y
ScalarOperation(op, lhs, a, rhs, b, to) ==
  WriteScalar(to, LET on == Called(Variant(op, lhs, rhs), scalars[a], scalars[b])
                  IN  ScalarFn(op, on[1], on[2]),
              Result(op, residues[a], residues[b]))
NegateScalar(a, to) == WriteScalar(to, NegScalar(scalars[a]), -residues[a])
InvertScalar(a, to) == WriteScalar(to, IF IsZero(scalars[a]) THEN Err ELSE InverseOf(scalars[a]),
                                   IF residues[a] = 0 THEN Err ELSE Reciprocal(residues[a]))
MultiplyScalars(to) ==
  WriteScalar(to, ScalarFn("mul", ScalarFn("mul", FromBigInt(1), scalars[1]), scalars[2]),
              residues[1] * residues[2])

Passed == {"owned", "ref"}
AllBytes == [length : {"compressed", "uncompressed", "scalar", "other"}, number : 0..(GroupOrder * BlsCofactor)]

WrapNext ==
  \/ \E to \in Registers :
       \/ \E e \in 0..(GroupOrder * BlsCofactor - 1) : PointFromRaw(to, e)
       \/ \E xy \in Given : PointFromCoords(to, xy[1], xy[2])
       \/ \E bytes \in AllBytes : PointFromBytes(to, bytes) \/ ScalarFromBytes(to, bytes)
       \/ \E n \in Numbers : ScalarFromBigInt(to, n)
       \/ SumPoints(to) \/ MultiplyScalars(to)
  \/ \E to, a, b \in Registers :
       \/ \E op \in {"add", "sub"}, lhs, rhs \in Passed \cup {"generator"} : PointOperation(op, lhs, a, rhs, b, to)
       \/ \E k1, k2 \in Passed : \/ MultiplyPoint(<<"point", k1>>, <<"scalar", k2>>, a, b, to)
                                \/ MultiplyPoint(<<"scalar", k1>>, <<"point", k2>>, a, b, to)
       \/ \E op \in {"add", "sub", "mul"}, lhs, rhs \in Passed : ScalarOperation(op, lhs, a, rhs, b, to)
  \/ \E to, a \in Registers :
       \/ \E form \in {"compressed", "uncompressed"} : PointReencode(a, form, to)
       \/ \E kind \in Passed \cup {"generator"} : NegatePoint(kind, a, to)
       \/ PointRecoordinate(a, to)
       \/ MultiplyGenerator(a, to) \/ NegateScalar(a, to) \/ InvertScalar(a, to)

WrapSpec == WrapInit /\ [][WrapNext]_wrapVars

-----------------------------------------------------------------------------
\* However points and scalars are computed one from another, a register holds
\* the library's one form of the multiple or the residue that integers modulo
\* the order give: a point is in the subgroup ("P = O or qP = O", point.rs:24),
\* no expect of arithmetic.rs panics, == decides equality, and zero is None of
\* secp256k1 whichever operation reaches it, with any way to pass operands.
\* from_coords gives the point with the coordinates, however short their bytes
\* are, and an error if there is none ("Returns error if x, y are not on curve",
\* traits.rs:154), for coordinates of at most as many bytes as the library has for
\* them: longer ones overwrite their neighbours in the buffer of secp256k1, where
\* only a debug_assert notices (secp256_k1.rs:347-354).
WrappersAgree == \A r \in Registers : /\ points[r] = PointOf((logs[r] * GENERATOR) % GroupSize)
                                      /\ scalars[r] = ScalarOf(residues[r])
=============================================================================

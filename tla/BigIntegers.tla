----------------------------- MODULE BigIntegers ----------------------------
(***************************************************************************)
(* The integers of curv, in the num-bigint build: the extended algorithm of*)
(* Euclid and the inverses it gives (arithmetic/big_native/                *)
(* ring_algorithms.rs), residues of numbers of either sign                 *)
(* (arithmetic/big_native.rs), the samplers (arithmetic/samplable.rs) and  *)
(* what the numbers are written as (traits.rs, serde_support.rs).          *)
(***************************************************************************)
EXTENDS ByteForm, Outcomes, FiniteSetsExt

CONSTANTS Operands,  \* bound: numbers given to the operations, of either sign
          Sizes      \* bound: sizes in bits for strict_sample, lengths of byte arrays

ASSUME BigIntAssumption == Operands \subseteq Int /\ Sizes \subseteq Nat

VARIABLES pc,
          a, b,      \* operands; lower and upper of a range, a size in bits
          old, now,  \* of the extended algorithm: <<gcd, of a, of b>>
          result

vars == <<pc, a, b, old, now, result>>

LeadingUnit(n) == IF n < 0 THEN -1 ELSE 1
\* / and % of num-bigint: towards zero.
Quotient(x, y)  == LeadingUnit(x) * LeadingUnit(y) * (Abs(x) \div Abs(y))
Remainder(x, y) == x - y * Quotient(x, y)
\* mod_floor: the sign of the modulus (never negative here).
ModFloor(x, m) == x % m

Gcd(x, y) == IF x = 0 /\ y = 0 THEN 0
             ELSE Max({d \in 1..(Abs(x) + Abs(y)) : x % d = 0 /\ y % d = 0})

-----------------------------------------------------------------------------
\* Residues of a number of either sign.

ModAdd(x, y, m) == ModFloor(ModFloor(x, m) + ModFloor(y, m), m)
ModSub(x, y, m) == ModFloor(ModFloor(x, m) - ModFloor(y, m) + m, m)
ModMul(x, y, m) == ModFloor(ModFloor(x, m) * ModFloor(y, m), m)
ModulusTruncated(x, m) == Remainder(x, m)
Modulus(x, m) == IF Remainder(x, m) < 0 THEN m + Remainder(x, m) ELSE Remainder(x, m)

-----------------------------------------------------------------------------
\* What a number is written as.

\* to_bytes_array: padded with leading zeros.
PaddedAfter(n, length) ==
  IF Len(ToBytes(n)) > length THEN None
  ELSE ToBytes(n) \o [i \in 1..(length - Len(ToBytes(n))) |-> 0]
ToBytesArray(n, length) ==
  IF Len(ToBytes(n)) > length THEN None
  ELSE [i \in 1..(length - Len(ToBytes(n))) |-> 0] \o ToBytes(n)
\* Serialize and Deserialize: bytes, or two hex digits of each.
HexBase == TwoTo[ByteBits \div 2]
HexDigits(bytes) == [i \in 1..(2 * Len(bytes)) |-> IF i % 2 = 1 THEN bytes[(i + 1) \div 2] \div HexBase
                                                               ELSE bytes[i \div 2] % HexBase]
HexBytes(s) == [i \in 1..(Len(s) \div 2) |-> s[2 * i - 1] * HexBase + s[2 * i]]
Serialized(n, readable) == IF readable THEN HexDigits(ToBytes(n)) ELSE ToBytes(n)
Deserialized(s, readable) ==
  IF ~readable THEN FromBytes(s)
  ELSE IF Len(s) % 2 = 1 THEN None
  ELSE FromBytes(HexBytes(s))

-----------------------------------------------------------------------------
Init == /\ pc = "idle" /\ a = 0 /\ b = 0 /\ old = <<>> /\ now = <<>> /\ result = None

\* normalized_extended_euclidian_algorithm: egcd itself, or for modulo_inverse.
Start(task, x, y) ==
  /\ pc = "idle" /\ pc' = task /\ a' = x /\ b' = y
  /\ old' = <<Abs(x), Quotient(1, LeadingUnit(x)), 0>>
  /\ now' = <<Abs(y), 0, Quotient(1, LeadingUnit(y))>>
  /\ UNCHANGED result

EuclidTurn ==
  /\ pc \in {"egcd", "inverse"} /\ now[1] # 0
  /\ LET q == Quotient(old[1], now[1])
         r == Remainder(old[1], now[1])
     IN  now' = <<Abs(r), Quotient(old[2] - q * now[2], LeadingUnit(r)),
                          Quotient(old[3] - q * now[3], LeadingUnit(r))>>
  /\ old' = now
  /\ UNCHANGED <<pc, a, b, result>>

\* mod_inv reduces the factor of a; a modulus of zero makes the reduction panic.
EuclidReturn ==
  /\ pc \in {"egcd", "inverse"} /\ now[1] = 0
  /\ pc' = IF pc = "egcd" THEN "gcd" ELSE "inverted"
  /\ result' = IF pc = "egcd" THEN old
               ELSE IF old[1] # 1 THEN None
               ELSE IF b = 0 THEN Panic
               ELSE Modulus(old[2], b)
  /\ UNCHANGED <<a, b, old, now>>

\* The samplers that draw until a number is acceptable: all below a bound that
\* sample draws the bits of.
Sampler(kind, lower, upper) ==
  /\ pc = "idle" /\ a' = lower /\ b' = upper /\ UNCHANGED <<old, now>>
  /\ IF kind \in {"below", "range", "strict_range"} /\ upper <= lower
       THEN pc' = "drawn" /\ result' = Panic
       ELSE IF kind = "strict" /\ upper = 0
       THEN pc' = "drawn" /\ result' = 0
       ELSE pc' = kind /\ UNCHANGED result

\* sample: bytes enough for the bits, shifted down to as many bits.
Excess(bits) == BytesFor(bits) * ByteBits - bits
SampleShort(bits, bytes) == bytes \div TwoTo[Excess(bits) + 1]
Sample(bits, bytes) == bytes \div TwoTo[Excess(bits)]
Drawable(bits) == 0..(BaseTo(BytesFor(bits)) - 1)

DrawnBits == IF pc = "strict" THEN b ELSE BitLength(b - a)
Accepts(n) == CASE pc \in {"below", "range"} -> n < b - a
                [] pc = "strict_range"       -> n < b - a /\ a + n > a /\ a + n < b
                [] pc = "strict"             -> BitLength(n) = b

Sampling == {"below", "range", "strict_range", "strict"}
\* The turn of a sampler's loop that returns; one that draws again changes nothing.
Draw ==
  /\ pc \in Sampling /\ pc' = "drawn" /\ UNCHANGED <<a, b, old, now>>
  /\ \E bytes \in Drawable(DrawnBits) :
       /\ Accepts(Sample(DrawnBits, bytes))
       /\ result' = a + Sample(DrawnBits, bytes)

Next ==
  \/ \E x, y \in Operands, task \in {"egcd", "inverse"} : Start(task, x, y)
  \/ \E x, y \in Operands, kind \in {"range", "strict_range"} : Sampler(kind, x, y)
  \/ \E y \in Operands : Sampler("below", 0, y)
  \/ \E size \in Sizes : Sampler("strict", 0, size)
  \/ EuclidTurn \/ EuclidReturn
  \/ Draw

\* A generator that is asked again and again some time draws an accepted number.
Fairness == WF_vars(EuclidTurn \/ EuclidReturn) /\ WF_vars(Draw)

Spec == Init /\ [][Next]_vars /\ Fairness

-----------------------------------------------------------------------------
\* At every turn of the extended algorithm both triples keep "gcd(a,b) = a*p +
\* b*q" (traits.rs:218) and the greatest common divisor is that of the
\* operands, of either sign; egcd therefore returns it, and mod_inv an inverse
\* in 0..m-1 exactly when there is one (ring_algorithms.rs:23-53,
\* big_native.rs:171-173).
BezoutHolds ==
  /\ pc \in {"egcd", "inverse"} =>
       /\ \A t \in {old, now} : t[1] = a * t[2] + b * t[3] /\ t[1] >= 0
       /\ Gcd(old[1], now[1]) = Gcd(a, b)
  /\ pc = "gcd" => result[1] = Gcd(a, b) /\ result[1] = a * result[2] + b * result[3]
  /\ pc = "inverted" /\ b > 0 =>
       IF Gcd(a, b) # 1 THEN result = None
       ELSE result \in 0..(b - 1) /\ (a * result) % b = 1 % b

\* For numbers of either sign and a positive modulus the operations give the
\* one residue in 0..m-1, whatever the sign of what % leaves
\* (big_native.rs:152-182).
ResiduesAgree ==
  pc = "idle" =>
    \A x, y \in Operands, m \in {k \in Operands : k > 0} :
       /\ ModAdd(x, y, m) = (x + y) % m /\ ModSub(x, y, m) = (x - y) % m
       /\ ModMul(x, y, m) = (x * y) % m /\ Modulus(x, m) = x % m

\* A number of either sign comes back from its bytes, an array it fits in, or
\* serde's form as its absolute value, the sign being written nowhere
\* (traits.rs:64-73, big_native.rs:54-62, serde_support.rs:9-69).
BytesKeepTheMagnitude ==
  pc = "idle" =>
    \A n \in Operands :
       /\ \A length \in Sizes \ {0} : LET array == ToBytesArray(n, length)
                               IN  IF Abs(n) < BaseTo(length)
                                     THEN Len(array) = length /\ FromBytes(array) = Abs(n)
                                     ELSE array = None
       /\ \A readable \in BOOLEAN : Deserialized(Serialized(n, readable), readable) = Abs(n)

\* For numbers of either sign the modular operations give the one residue below
\* the modulus, and bytes and documents keep the absolute value
\* (big_native.rs:54-62, 152-182, serde_support.rs:9-69).
NumbersAgree == ResiduesAgree /\ BytesKeepTheMagnitude

Wanted == CASE pc \in {"below", "range"} -> a..(b - 1)
            [] pc = "strict_range"       -> (a + 1)..(b - 1)
            [] pc = "strict"             -> {n \in 0..(TwoTo[b] - 1) : BitLength(n) = b}
\* The samplers return only numbers of the range their doc gives, and can
\* return each of them (traits.rs:175-196, samplable.rs:7-55).
SamplesTheRange ==
  pc \in Sampling =>
    {a + n : n \in {m \in {Sample(DrawnBits, bytes) : bytes \in Drawable(DrawnBits)} : Accepts(m)}} = Wanted

\* Euclid's loop ends, and a sampler with a number to return returns, if the
\* generator keeps being asked (strict_sample_range(l, l + 1) has none: it
\* neither panics nor returns).
Returns == /\ (pc \in {"egcd", "inverse"}) ~> (pc \in {"gcd", "inverted"})
           /\ (pc \in Sampling /\ Wanted # {}) ~> (pc = "drawn")
=============================================================================

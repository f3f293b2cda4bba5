------------------------------- MODULE ByteForm -------------------------------
(***************************************************************************)
(* BigInt::to_bytes and from_bytes (arithmetic/big_native.rs): the         *)
(* magnitude of a number, most significant byte first.                     *)
(***************************************************************************)
EXTENDS Iteration, Sequences

CONSTANTS Base,      \* values of a byte: 256 in the code
          ByteBits   \* bits of a byte: Base = TwoTo[ByteBits]

ASSUME ByteAssumption == ByteBits \in Nat \ {0} /\ Base = TwoTo[ByteBits]

Abs(n) == IF n < 0 THEN -n ELSE n
BitLength(n) == IF n = 0 THEN 0 ELSE CHOOSE k \in 1..Abs(n) : TwoTo[k - 1] <= Abs(n) /\ Abs(n) < TwoTo[k]

BaseTo(k) == TwoTo[k * ByteBits]
BytesFor(bits) == (bits - 1) \div ByteBits + 1
ByteLength(n) == IF n = 0 THEN 1 ELSE BytesFor(BitLength(n))
ToBytes(n) == [i \in 1..ByteLength(n) |-> (Abs(n) \div BaseTo(ByteLength(n) - i)) % Base]
FromBytes(bytes) ==
  Iterate(0, [i \in DOMAIN bytes |-> [v \in Nat |-> v * Base + bytes[i]]])[Len(bytes)]
===============================================================================

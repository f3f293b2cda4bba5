-------------------------------- MODULE Parse --------------------------------
(***************************************************************************)
(* What reaches the prover and the verifier as text (tom256/src/parse.rs): *)
(* the member's own public key, and the ring, whose entries the backend    *)
(* keeps as whole keys or as x coordinates.  Both must yield the same      *)
(* number for the same key, or a member cannot prove membership.           *)
(*                                                                         *)
(* A text is its bytes, two hexadecimal digits each, after the "0x" that   *)
(* every parser strips first; a coordinate has CoordBytes of them (32 in   *)
(* the code, so that 64, 128 and 130 digits are one coordinate, two, and   *)
(* two with a tag in front).  An entry may also have lost bytes or have one *)
(* too many: parse_ring looks at nothing but its length.                   *)
(***************************************************************************)
EXTENDS Integers, Sequences, Iteration

CONSTANTS CoordBytes,   \* bytes of a coordinate
          Bytes,        \* the values they take
          Modulus,      \* Secp256k1::PRIME_MODULUS, which is Tom256k1::ORDER
          MaxEntries    \* bound of the model: entries of a ring

ASSUME CoordAssumption   == CoordBytes \in Nat \ {0}
ASSUME BytesAssumption   == Bytes \subseteq 0 .. 255
ASSUME ModulusAssumption == Modulus \in Nat \ {0}
ASSUME EntriesAssumption == MaxEntries \in Nat

Tag == 4   \* the byte before an uncompressed key
Coordinate == [1 .. CoordBytes -> Bytes]
Key == [x : Coordinate, y : Coordinate]

VARIABLES keys,     \* the keys of the ring's members
          texts,    \* the ring's entries as text
          parsed,   \* the scalars parse_ring has pushed
          parsing   \* "store", "parse", or how parse_ring ended: "ok", "err", "panic"

parseVars == <<keys, texts, parsed, parsing>>

\* U256::from_be_hex of the first CoordBytes bytes of a text, reduced.
\* Mutant: of its last bytes.
NumberOfLast(t) ==
  Iterate(0, [i \in Nat |-> [n \in Nat |-> 256 * n + t[Len(t) - CoordBytes + i]]])[CoordBytes] % Modulus
Number(t) ==
  Iterate(0, [i \in Nat |-> [n \in Nat |-> 256 * n + t[i]]])[CoordBytes] % Modulus

\* The text of a key as wallets give it, and as its x coordinate alone.
WholeKey(k) == <<Tag>> \o k.x \o k.y
XOnly(k)    == k.x

\* What becomes of them: texts cut off behind or before the end of x, a byte too
\* many, or one byte of x that is lost.
CutTo(t, n) == SubSeq(t, 1, n)
Without(t, i) == [j \in 1 .. Len(t) - 1 |-> IF j < i THEN t[j] ELSE t[j + 1]]
Readable(k) == {CutTo(WholeKey(k), n) : n \in CoordBytes + 1 .. 2 * CoordBytes + 1} \cup {XOnly(k)}
TooShort(k) == {CutTo(WholeKey(k), n) : n \in 0 .. CoordBytes}
                 \cup {CutTo(XOnly(k), n) : n \in 0 .. CoordBytes - 1}
TooLong(k)  == {Append(WholeKey(k), b) : b \in Bytes}
Gapped(k)   == {Without(WholeKey(k), i) : i \in 2 .. CoordBytes + 1}

\* parse_str(.., Parse::Pubkey): the length is checked, the tag skipped.
ParsePubkeyX(t) == Number(SubSeq(t, 2, CoordBytes + 1))

\* trim_start_matches("04") takes off as many tags as there are.
Stripped(t) ==
  LET tags == CHOOSE n \in 0 .. Len(t) : /\ \A i \in 1 .. n : t[i] = Tag
                                         /\ n < Len(t) => t[n + 1] # Tag
  IN  SubSeq(t, tags + 1, Len(t))

\* extract_x_coordinate: too long a text is an error, too short a one a slice
\* out of bounds.
EntryVerdict(t) == IF Len(Stripped(t)) > 2 * CoordBytes THEN "err"
                   ELSE IF Len(Stripped(t)) < CoordBytes THEN "panic" ELSE "ok"

-----------------------------------------------------------------------------
Texts(k) == Readable(k) \cup TooShort(k) \cup TooLong(k) \cup Gapped(k)

ParseInit ==
  /\ keys \in UNION {[1 .. n -> Key] : n \in 0 .. MaxEntries}
  /\ texts = <<>> /\ parsed = <<>> /\ parsing = "store"

\* The backend stores the next member's key in one form or another, damaged or not.
Store ==
  /\ parsing = "store" /\ Len(texts) < Len(keys)
  /\ \E t \in Texts(keys[Len(texts) + 1]) : texts' = Append(texts, t)
  /\ UNCHANGED <<keys, parsed, parsing>>

\* parse_ring is called with the whole ring.
Call == /\ parsing = "store" /\ Len(texts) = Len(keys)
        /\ parsing' = "parse"
        /\ UNCHANGED <<keys, texts, parsed>>

\* One turn of its loop.
ParseEntry ==
  /\ parsing = "parse" /\ Len(parsed) < Len(texts)
  /\ LET t == texts[Len(parsed) + 1]
     IN  IF EntryVerdict(t) = "ok"
           THEN parsed' = Append(parsed, Number(Stripped(t))) /\ UNCHANGED parsing
           ELSE parsing' = EntryVerdict(t) /\ UNCHANGED parsed
  /\ UNCHANGED <<keys, texts>>

ParseReturn == /\ parsing = "parse" /\ Len(parsed) = Len(texts)
               /\ parsing' = "ok"
               /\ UNCHANGED <<keys, texts, parsed>>

ParseNext == Store \/ Call \/ ParseEntry \/ ParseReturn

ParseSpec == ParseInit /\ [][ParseNext]_parseVars

-----------------------------------------------------------------------------
ParseTypeOK ==
  /\ keys \in Seq(Key) /\ Len(texts) <= Len(keys) /\ Len(parsed) <= Len(texts)
  /\ parsed \in Seq(0 .. Modulus - 1)
  /\ parsing \in {"store", "parse", "ok", "err", "panic"}

\* Nothing before x, or what is left of it, is stripped but the tag.
OneTag(k, t) == k.x[1] # Tag /\ ~(Len(t) > 1 /\ t[1] = Tag /\ t[2] = Tag)

\* Whatever form an entry was stored in, if it has all of x it is the number that
\* parse_pubkey makes of the same member's key, provided the coordinate does not
\* begin like a tag (parse.rs:63-69 against parse.rs:94-98).
EntriesAreTheKeys ==
  \A i \in DOMAIN parsed :
    OneTag(keys[i], texts[i]) /\ texts[i] \in Readable(keys[i]) =>
      parsed[i] = ParsePubkeyX(WholeKey(keys[i]))

\* One entry that is too long or too short, again with that provision, ends the
\* parse: no ring is used that is shorter than the one handed in (parse.rs:57-60).
BadEntriesEndIt ==
  parsing = "ok" => /\ Len(parsed) = Len(keys)
                    /\ \A i \in DOMAIN texts :
                         OneTag(keys[i], texts[i]) =>
                           texts[i] \notin TooLong(keys[i]) \cup TooShort(keys[i])

\* The first such entry decides how: an error if it is too long, a panic of the
\* slice if less than x is left.  No other damage is noticed: a key that has lost a
\* byte of x is long enough, and passes as another number (parse.rs:65-69).
FirstBadEntryDecides ==
  parsing \in {"err", "panic"} =>
    LET i == Len(parsed) + 1
    IN  OneTag(keys[i], texts[i]) =>
          texts[i] \in IF parsing = "err" THEN TooLong(keys[i]) ELSE TooShort(keys[i])

\* Tests pubkey_extraction and parse_helpers (parse.rs:117-160) read the same x
\* coordinate from the ring's entry and from the member's key, without provision.
EveryEntryIsTheKey ==
  \A i \in DOMAIN parsed : texts[i] \in Readable(keys[i]) =>
                             parsed[i] = ParsePubkeyX(WholeKey(keys[i]))

\* Every entry that has its member's x is read as that member's key, whole, cut off
\* behind x or x alone; the first that is too long makes parse_ring return an
\* error, the first that is too short makes it panic, and nothing else ends it, unless
\* an x begins like the tag, or does so without the byte it has lost
\* (parse.rs:55-69).
RingsAreTheKeys ==
  ParseTypeOK /\ EntriesAreTheKeys /\ BadEntriesEndIt /\ FirstBadEntryDecides
=============================================================================

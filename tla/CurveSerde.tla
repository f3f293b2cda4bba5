------------------------------ MODULE CurveSerde ------------------------------
(***************************************************************************)
(* Point<E> and Scalar<E> of curv through serde (wrappers/serde_support.rs): *)
(* a document is written, possibly by someone else, and read field by field. *)
(* What calls the visitors is the format: serde_test and binary formats     *)
(* hand a value over as it is, serde_json as it was asked for.              *)
(***************************************************************************)
EXTENDS Outcomes, Sequences

CONSTANTS Compressed, Uncompressed, ScalarLength, \* lengths in bytes
          Valid,         \* bound: the numbers that encode an element
          Foreign,       \* bound: the values in another's document of a point and of a scalar
          MaxFields      \* bound: its entries

VARIABLES phase,
          sort, format,     \* "point" or "scalar", in which format
          shape, document,  \* how the fields come, and they
          written,          \* history: the element it was written from, or None
          at,               \* fields visited
          curve_name, value,\* locals of visit_map and visit_seq
          element           \* what is returned

serdeVars == <<phase, sort, format, shape, document, written, at, curve_name, value, element>>

IsHumanReadable(f) == f # "compact"

-----------------------------------------------------------------------------
\* A value: text, bytes or a sequence of bytes, so long; its bytes encode the
\* element raw and its hex digits the element hex (-1: none).
Text(name, length, raw, hex) == [form |-> "str", name |-> name, length |-> length, raw |-> raw, hex |-> hex]
BytesOf(length, n) == [form |-> "bytes", name |-> "", length |-> length, raw |-> n, hex |-> -1]
SeqOf(length, n) == [form |-> "seq", name |-> "", length |-> length, raw |-> n, hex |-> -1]
OwnName == Text("own", 9, -1, -1)
Full(k) == IF k = "point" THEN Compressed ELSE ScalarLength

Sorts == {"point", "scalar"}
EntryValues == [form : {"str", "bytes", "seq"}, name : {"own", "other", ""}, length : Nat, raw : Int, hex : Int]

ASSUME SerdeAssumption ==
  /\ {Compressed, Uncompressed, ScalarLength} \subseteq Nat \ {0} /\ Compressed < Uncompressed
  /\ Valid \subseteq Nat /\ "own" \notin {None, Err}
  /\ \A k \in Sorts : Foreign[k] \subseteq EntryValues

Entry(key, v) == [key |-> key, value |-> v]
\* Serialize: a struct of the curve's name and the bytes, in hex for a reader.
WrittenPoint(f, n) ==
  <<Entry("curve", OwnName),
    Entry("value", IF IsHumanReadable(f) THEN Text("", 2 * Compressed, -1, n) ELSE BytesOf(Compressed, n))>>
WrittenScalar(f, n) ==
  <<Entry("curve", OwnName),
    Entry("value", IF IsHumanReadable(f) THEN Text("", 2 * ScalarLength, -1, n) ELSE BytesOf(ScalarLength, n))>>
Written(k, f, n) == IF k = "point" THEN WrittenPoint(f, n) ELSE WrittenScalar(f, n)

\* The method of the visitor that the format calls for a value.
Method(f, asked, v) == CASE f # "json" -> v.form
                         [] f = "json" /\ v.form = "str" -> asked
                         [] f = "json" /\ v.form = "seq" /\ asked = "bytes" -> "seq"
                         [] OTHER -> "none"

\* from_bytes of a point and of a scalar.
ElementFromBytes(k, length, n) ==
  IF length \in (IF k = "point" THEN {Compressed, Uncompressed} ELSE {ScalarLength}) /\ n \in Valid
    THEN n ELSE Err
VisitBytes(k, v) == ElementFromBytes(k, v.length, v.raw)
\* Bytes one by one, into a buffer of the longest length; then no more.
VisitPointSeq(v) ==
  LET seq_len == IF v.length < Uncompressed THEN v.length ELSE Uncompressed
  IN  IF seq_len = Uncompressed /\ v.length > Uncompressed THEN Err
      ELSE IF seq_len # Uncompressed /\ seq_len # Compressed THEN Err
      ELSE ElementFromBytes("point", seq_len, v.raw)
VisitScalarSeq(v) == IF v.length # ScalarLength THEN Err ELSE ElementFromBytes("scalar", v.length, v.raw)
VisitPointStr(v) ==
  IF v.length \in {2 * Uncompressed, 2 * Compressed} /\ v.hex # -1
    THEN ElementFromBytes("point", v.length \div 2, v.hex) ELSE Err
VisitScalarStr(v) ==
  IF v.length = 2 * ScalarLength /\ v.hex # -1 THEN ElementFromBytes("scalar", ScalarLength, v.hex) ELSE Err

\* PointFromBytes asks by the format, ScalarFromBytes for bytes.
AskedFor(k, f) == IF k = "point" /\ IsHumanReadable(f) THEN "str" ELSE "bytes"
ValueFromBytes(k, f, v) ==
  LET method == Method(f, AskedFor(k, f), v)
  IN  CASE method = "bytes" -> VisitBytes(k, v)
        [] method = "seq" -> IF k = "point" THEN VisitPointSeq(v) ELSE VisitScalarSeq(v)
        [] method = "str" -> IF k = "point" THEN VisitPointStr(v) ELSE VisitScalarStr(v)
        [] method = "none" -> Err
CurveNameGuard(f, v) == IF Method(f, "str", v) = "str" /\ v.name = "own" THEN "own" ELSE Err

-----------------------------------------------------------------------------
SerdeInit ==
  /\ phase = "read" /\ at = 0 /\ curve_name = None /\ value = None /\ element = None
  /\ sort \in Sorts /\ format \in {"compact", "readable", "json"}
  /\ shape \in {"map", "seq"}
  /\ \/ \E n \in Valid : written = n /\ document = Written(sort, format, n)
     \/ written = None /\ document = <<>>

Fail == phase' = "done" /\ element' = Err

\* Another's document goes on by an entry; it is read as it goes.
Extend ==
  /\ phase = "read" /\ written = None /\ at = Len(document) /\ Len(document) < MaxFields
  /\ \E key \in {"curve", "value", "unknown"}, v \in Foreign[sort] : document' = Append(document, Entry(key, v))
  /\ UNCHANGED <<phase, sort, format, shape, written, at, curve_name, value, element>>

\* A turn of visit_map, for a field that is known and has not been there.
VisitCurve ==
  /\ phase = "read" /\ shape = "map" /\ at < Len(document) /\ document[at + 1].key = "curve"
  /\ IF curve_name # None \/ CurveNameGuard(format, document[at + 1].value) = Err
       THEN Fail /\ UNCHANGED <<at, curve_name>>
       ELSE /\ curve_name' = CurveNameGuard(format, document[at + 1].value) /\ at' = at + 1
            /\ UNCHANGED <<phase, element>>
  /\ UNCHANGED <<sort, format, shape, document, written, value>>
\* Mutant: a field that comes again replaces the first.
VisitValueAgain ==
  /\ phase = "read" /\ shape = "map" /\ at < Len(document) /\ document[at + 1].key = "value"
  /\ LET v == ValueFromBytes(sort, format, document[at + 1].value)
     IN  IF v = Err
           THEN Fail /\ UNCHANGED <<at, value>>
           ELSE value' = v /\ at' = at + 1 /\ UNCHANGED <<phase, element>>
  /\ UNCHANGED <<sort, format, shape, document, written, curve_name>>
VisitValue ==
  /\ phase = "read" /\ shape = "map" /\ at < Len(document) /\ document[at + 1].key = "value"
  /\ LET v == ValueFromBytes(sort, format, document[at + 1].value)
     IN  IF value # None \/ v = Err
           THEN Fail /\ UNCHANGED <<at, value>>
           ELSE value' = v /\ at' = at + 1 /\ UNCHANGED <<phase, element>>
  /\ UNCHANGED <<sort, format, shape, document, written, curve_name>>
VisitUnknown ==
  /\ phase = "read" /\ shape = "map" /\ at < Len(document) /\ document[at + 1].key = "unknown"
  /\ Fail
  /\ UNCHANGED <<sort, format, shape, document, written, at, curve_name, value>>

\* visit_seq: the curve's name, the element, and nothing more.
VisitName ==
  /\ phase = "read" /\ shape = "seq" /\ at < Len(document) /\ at = 0
  /\ LET name == CurveNameGuard(format, document[1].value)
     IN  IF name = Err THEN Fail /\ UNCHANGED <<at, curve_name>>
         ELSE curve_name' = name /\ at' = 1 /\ UNCHANGED <<phase, element>>
  /\ UNCHANGED <<sort, format, shape, document, written, value>>
VisitElement ==
  /\ phase = "read" /\ shape = "seq" /\ at < Len(document) /\ at > 0
  /\ LET v == ValueFromBytes(sort, format, document[at + 1].value)
     IN  IF at > 1 \/ v = Err THEN Fail /\ UNCHANGED <<at, value>>
         ELSE value' = v /\ at' = 2 /\ UNCHANGED <<phase, element>>
  /\ UNCHANGED <<sort, format, shape, document, written, curve_name>>

\* The end of the document; a format that tells the length tells it first.
End ==
  /\ phase = "read" /\ at = Len(document)
  /\ phase' = "done"
  /\ element' = IF None \in {curve_name, value} THEN Err ELSE value
  /\ UNCHANGED <<sort, format, shape, document, written, at, curve_name, value>>

SerdeNext == Extend \/ VisitCurve \/ VisitValue \/ VisitUnknown \/ VisitName \/ VisitElement \/ End

SerdeSpec == SerdeInit /\ [][SerdeNext]_serdeVars

-----------------------------------------------------------------------------
\* What a value says in any of the ways that serde_support.rs supports.
Lengths(k) == {Full(k)} \cup IF k = "point" THEN {Uncompressed} ELSE {}
Says(k, v, n) == IF v.form = "str" THEN v.hex = n /\ \E l \in Lengths(k) : v.length = 2 * l
                                   ELSE v.raw = n /\ v.length \in Lengths(k)

\* Another's document is read as an element only if it has the name of the own
\* curve and a value that says the element, each once, under their keys or in
\* this order (visit_map and visit_seq): not of another curve, not two values, not
\* a value cut short or with bytes to spare.  An element written is never
\* read as another one.  (The text of a JSON scalar is the exception: it is read
\* as the bytes of its characters, as ScalarFromBytes asks for bytes.)
OnlyOwnDocuments ==
  phase = "done" /\ element # Err =>
    /\ Len(document) = 2
    /\ \E i, j \in 1..2 : /\ document[i].value.name = "own"
                          /\ \/ Says(sort, document[j].value, element)
                             \/ sort = "scalar" /\ format = "json" /\ document[j].value.form = "str"
                          /\ IF shape = "seq" THEN i = 1 /\ j = 2
                             ELSE document[i].key = "curve" /\ document[j].key = "value"
    /\ written \in {None, element}

\* A point that is written reads back, in every format, and a scalar in those
\* that hand the value over as it is, whichever way the struct is laid out.
WrittenReadBack ==
  phase = "done" /\ written # None /\ (sort = "point" \/ format # "json") => element = written

\* Only a document of the own curve is read, and as the element it says, and a
\* point that was written reads back (serde_support.rs).
DocumentsDecide == OnlyOwnDocuments /\ WrittenReadBack

\* The same of a scalar, as "serializes_deserializes_scalar_in_human_readable_format"
\* (serde_support.rs:582) has it for the tokens of serde_test.
ScalarReadsBack == phase = "done" /\ written # None => element = written
===============================================================================

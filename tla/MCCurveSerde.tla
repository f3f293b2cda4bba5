----------------------------- MODULE MCCurveSerde -----------------------------
(***************************************************************************)
(* The values that documents are made of: names and texts of either curve,   *)
(* hex, bytes and sequences, a byte short or long and of either length of a  *)
(* point, of which each encodes an element or none.                          *)
(***************************************************************************)
EXTENDS CurveSerde

MCForeign ==
  [k \in {"point", "scalar"} |->
     {OwnName, Text("other", 9, -1, -1), Text("", Full(k), 1, -1)}
       \cup {Text("", 2 * l, -1, m) : l \in {Full(k), Full(k) - 1}, m \in Valid \cup {-1}}
       \cup {BytesOf(l, m) : l \in {Full(k), Uncompressed}, m \in Valid \cup {-1}}
       \cup {SeqOf(l, m) : l \in {Full(k) - 1, Full(k), Uncompressed, Uncompressed + 1}, m \in Valid}
       \cup (IF k = "point" THEN {Text("", 2 * Uncompressed, -1, m) : m \in Valid} ELSE {})]
===============================================================================

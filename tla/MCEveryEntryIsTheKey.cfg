SPECIFICATION ParseSpec
CONSTANTS
  CoordBytes = 2
  Bytes = {4, 9}
  Modulus = 2311
  MaxEntries = 2
INVARIANT
  EveryEntryIsTheKey
CHECK_DEADLOCK FALSE

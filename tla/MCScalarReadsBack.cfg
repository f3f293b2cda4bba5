SPECIFICATION SerdeSpec
CONSTANTS
  Compressed = 33
  Uncompressed = 65
  ScalarLength = 32
  Valid = {0, 1}
  Foreign <- MCForeign
  MaxFields = 3
  None = None
  Err = Err
  Panic = Panic
INVARIANTS
  ScalarReadsBack
CHECK_DEADLOCK FALSE

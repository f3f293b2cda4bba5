SPECIFICATION HashSpec
CONSTANTS
  Base = 2
  ByteBits = 1
  CodeLength = 2
  Order = 3
  MaxCounter = 3
  MaxLeaves = 5
  Inputs = {1, 2}
  Leaves = {1, 2}
  None = None
  Err = Err
  Panic = Panic
INVARIANTS
  CodesVerify
CHECK_DEADLOCK FALSE

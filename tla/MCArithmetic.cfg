SPECIFICATION AllSpec
CONSTANTS
  Width = 4
  Modulus = 13
  Registers = {r1, r2}
  Unknown = Unknown
  Order = 31
  Points = {0, 7}
  ScalarDigits = 2
INVARIANTS
  ResiduesAgree
  PowersAgree
  PointsCorrect
  ComparisonsDecide
  ScalarMulCorrect
CHECK_DEADLOCK FALSE

SPECIFICATION ExpSpec
CONSTANTS
  Prime = 7
  CoeffA = 0
  CoeffB = 3
  Order = 13
  Generator <- MCGenerator
  Exps <- MCExps
  Qs <- MCQs
  Alphas <- MCAlphas
  Offsets <- MCOffsets
  Levels <- MCLevels
  Masks <- MCMasks
  ExpMask = 5
INVARIANT
  LowerLevelsVerify
CHECK_DEADLOCK FALSE

SPECIFICATION AllSpec
CONSTANTS
  Order = 5
  Nothing = Nothing
  Err = Err
  Panic = Panic
  MaxParties = 3
  MaxThreshold = 2
  MaxPoint = 4
  MaxReshares = 1
  Secrets <- MCSecrets
  Damages <- MCDamages
  Sessions = {1, 2}
  Seeds = {1, 3}
  Fixed = {0}
  Blinds = {1}
  MaxChanged = 1
  RingOrder = 3
  HashPoint <- MCHashPoint
  Rings <- MCRings
  SignerSecrets = {1}
  Messages = {"m", "n"}
INVARIANTS
  SharesReconstruct
  SharesValidate
  ThresholdHides
  FirstMessageBinds
  PartiesAgree
  SignaturesDecide
PROPERTY
  ImplementsDealtSecret
CHECK_DEADLOCK FALSE

SPECIFICATION AllSpec
CONSTANTS
  Operands <- MCOperands
  Base = 4
  ByteBits = 2
  Sizes = {0, 1, 2, 3, 4}
  None = None
  Err = Err
  Panic = Panic
  Order = 3
  Bases = {1, 2}
  Witnesses = {0, 1, 2}
  Polys <- MCPolys
  Alphas <- MCAlphas
  Generators <- MCGenerators
  Degrees = {0, 1}
  MaxAnswer = 3
  CodeLength = 2
  MaxCounter = 3
  MaxLeaves = 5
  Inputs = {1, 2}
  Leaves = {1, 2}
  Keys = {"zero", "k"}
  MaxDepth = 2
  Compressed = 33
  Uncompressed = 65
  ScalarLength = 32
  Valid = {0, 1}
  Foreign <- MCForeign
  MaxFields = 3
  GroupOrder = 7
  BlsCofactor = 3
  InfinityFlag = 1
  Numbers <- MCNumbers
  Coordinates <- MCCoordinates
  Given <- MCGiven
INVARIANTS
  BezoutHolds
  NumbersAgree
  SamplesTheRange
  TestsDecide
  NextIsPrime
  WrappersAgree
  DocumentsDecide
  HonestProofsVerify
  TwoAnswersGiveWitness
  HashesDecide
  CircuitsDecide
PROPERTY
  Returns
CHECK_DEADLOCK FALSE

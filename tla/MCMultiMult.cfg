SPECIFICATION FairSpec
CONSTANTS
  Order = 3
  Points <- MCPoints
  NoResult = NoResult
  MaxPairs = 3
  MaxRelation = 2
INVARIANTS
  TypeOK
  KnownCoalesced
  HeapHoldsTheRest
  SumPreserved
PROPERTIES
  ReductionProgress
  ImplementsNaiveSum
  CallsReturn
CHECK_DEADLOCK FALSE

SPECIFICATION FairSpec
CONSTANTS
  PartSizes = {1, 2, 3}
  MaxObjSize = 6
  Excess = 2
  NoBuffer = NoBuffer
INVARIANTS SavedPartsAreExact OnlyTheBufferIsLost ClosedIsComplete
PROPERTIES WriteReturns
CHECK_DEADLOCK FALSE

SPECIFICATION LazySpec
CONSTANTS
  PartSizes = {2}
  MaxObjSize = 4
  Truncates = TRUE
INVARIANTS SentIsPrefix
CHECK_DEADLOCK FALSE

SPECIFICATION LazySpec
CONSTANTS
  PartSizes = {1, 2, 3}
  MaxObjSize = 5
  Truncates = FALSE
INVARIANTS SentIsPrefix AnswerIsComplete FetchesWholeParts FetchesOnlyTheRange
CHECK_DEADLOCK FALSE

SPECIFICATION Spec
CONSTANTS
  MaxTransfer = 2
  MinTransfer = 3
  Timeout = 3
  Speeds = {0, 2, 4}
  Sizes = {1, 3, 4}
  TicksPerSecond = 2
  Pieces = 2
  Slack = 1
  MaxRequests = 2
INVARIANTS NeverAheadOfSpeed OneDeadlinePerPiece AnswerIsWhole
PROPERTIES CallsEnd
CHECK_DEADLOCK FALSE

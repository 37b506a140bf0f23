CONSTANTS
  Limit = 2
  InOrder = TRUE
  Prompt = TRUE
  MaxAttempts = 2
SPECIFICATION SessionSpec
INVARIANT ReconnectIsUnderWay
CHECK_DEADLOCK FALSE

CONSTANTS
  Addresses = {a1, a2}
  Limit = 2
  Reuse = TRUE
  InOrder = TRUE
  Prompt = FALSE
SPECIFICATION FairSpec
INVARIANTS TypeOK FreedOnce StateIsTruthful
PROPERTY ReleasedIsFreed
CHECK_DEADLOCK FALSE

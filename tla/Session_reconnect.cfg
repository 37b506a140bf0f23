CONSTANTS
  Limit = 2
  InOrder = TRUE
  Prompt = TRUE
  MaxAttempts = 2
SPECIFICATION FairSpec
INVARIANTS SessionTypeOK NoStrayTimer LostSessionIsTried PhaseIsTruthful
PROPERTIES NoSecondInstance AttemptsEnd
CHECK_DEADLOCK FALSE

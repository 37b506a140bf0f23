CONSTANTS
  Addresses = {a1, a2}
  Limit = 2
  Reuse = FALSE
  InOrder = TRUE
  Prompt = TRUE
SPECIFICATION Spec
INVARIANT NoUseAfterFree
CHECK_DEADLOCK FALSE

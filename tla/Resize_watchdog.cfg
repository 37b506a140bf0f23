CONSTANTS
  Size = {wide, high, higher}
  Landscape = {wide}
  None = None
  RESIZE_MAX_RETRY = 3
  MaxRotations = 2
  MaxChanges = 3
  MaxInFlight = 3
SPECIFICATION FairSpec
INVARIANTS AsksForThisSurface
PROPERTIES EventuallyFills GivesUpUnanswered
CHECK_DEADLOCK FALSE

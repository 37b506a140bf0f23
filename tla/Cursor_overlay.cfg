CONSTANTS
  Shapes = {s1, s2}
  Clear = Clear
  InOrder = TRUE
  MaxSessions = 2
  MaxUpdates = 3
  MaxPayloads = 3
  MaxFailures = 1
SPECIFICATION FairSpec
INVARIANTS TypeOK
PROPERTIES OwnCursorStays PayloadFreedOnce ShapeArrives
CHECK_DEADLOCK FALSE

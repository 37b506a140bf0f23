CONSTANTS
  Finger = {f1, f2}
  None = None
  Place <- Places
  TAP_SLOP = 1
  DOUBLE_TAP_DIST = 1
  TWO_FINGER_TAP_SLOP = 1
  SCROLL_WHEEL_STEP = 2
  TWO_FINGER_TAP = 1
  HOLD_DELAY = 2
  TWO_FINGER_LIFT = 3
  DOUBLE_TAP = 4
SPECIFICATION FairSpec
INVARIANTS NoStuckButton WheelFollowsFinger
PROPERTIES RemoteSeesAMouse TapIsDecided
CHECK_DEADLOCK FALSE

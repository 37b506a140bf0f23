CONSTANTS
  Instances = {i1, i2, i3}
  None = None
  JS = JS
SPECIFICATION Spec
INVARIANTS TypeOK ActiveIsAlive ResizeIsExclusive WindowOutlivesDrawing
CHECK_DEADLOCK FALSE

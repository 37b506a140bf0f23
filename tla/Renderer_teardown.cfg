CONSTANTS
  Instances = {i1, i2, i3}
  None = None
  JS = JS
SPECIFICATION Spec
INVARIANT BufferOutlivesDrawing
CHECK_DEADLOCK FALSE

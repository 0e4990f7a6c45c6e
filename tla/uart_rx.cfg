SPECIFICATION Spec
CONSTANTS
  Depth = 4
  Trigger = 3
  Burst = 1
  Margin = 4
  InitLen = 5
  HighLen = 9
  BufferSize = 3
  ReadLens = {1, 8}
  MaxBytes = 14
INVARIANTS Inv NotForgotten
PROPERTIES WritesFit
CHECK_DEADLOCK FALSE

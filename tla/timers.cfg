SPECIFICATION Spec
CONSTANTS
  s = s
  p = p
  None = None
  Timers = {s, p}
  Ticks = {0, 1, 4}
  MaxTime = 5
  MaxBurst = 2
  Lead = 1
  MinPass = 1
  MaxPass = 2
  Usage <- DriverUse
  InHandlerStart = {s}
  InHandlerStop = {s}
INVARIANTS Inv StopIsFinal
PROPERTIES ImplementsTimers
CHECK_DEADLOCK FALSE

SPECIFICATION Spec
CONSTANTS
  Off = Off
  Timers <- BothTimers
  Instants <- SmallWord
  Senders = {s1, s2}
  Events = {e, f}
  Timeout = Timeout
  Any = Any
  Callbacks = {TRUE}
  Waits = {0, 2}
  Guard = 1
  MaxEvents = 3
  EarlyTimers = TRUE
  MaxTime = 4
  MaxSent = 2
  Word = 16
INVARIANTS Inv NoLostWakeup BoundedWait InOrder
PROPERTIES NoCallHangs
CHECK_DEADLOCK FALSE

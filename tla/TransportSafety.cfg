SPECIFICATION Spec
CONSTANTS
  Buffer = 2
  BatchMax = 1
  Together = 2
  PerFrame = 2
  Pending = 3
  Retries = 1
  Failures = 1
  Keys = {"key"}
  Nudges = TRUE
  MaxOut = 2
  MaxTyped = 2
  MaxLost = 2
  None = None
  Timer = Timer
INVARIANT HoldsUndelivered
INVARIANT FinishedHasAll
PROPERTY OutputIsChannel
PROPERTY InputIsExact
CHECK_DEADLOCK FALSE

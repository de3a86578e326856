SPECIFICATION FairSpec
CONSTANTS
  Buffer = 1
  BatchMax = 2
  Together = 2
  PerFrame = 2
  Pending = 3
  Retries = 1
  Failures = 1
  Keys = {"key"}
  Nudges = FALSE
  MaxOut = 2
  MaxTyped = 2
  MaxLost = 1
  None = None
  Timer = Timer
PROPERTY DirectionsArrive
PROPERTY RelayReleased
CHECK_DEADLOCK FALSE

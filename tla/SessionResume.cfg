SPECIFICATION FairSpec
CONSTANTS
  Cap = 2
  ChunkMax = 1
  Screen = 1
  MaxQueue = 4
  Limit = 3
  Probes = {2}
  MaxOut = 3
  MaxExits = 1
  MaxCrashes = 1
  MaxDrops = 1
  MaxReloads = 1
  MaxWire = 1
  None = None
  Gone = Gone
INVARIANT ResumesExactly
PROPERTY PageCatchesUp
CHECK_DEADLOCK FALSE

\* Only future entries: every pass is the sweeper's, one at a time.
SPECIFICATION Spec
CONSTANTS
  Users = {u1}
  Terms = {1}
  Ids = {a, b}
  Handlers = {h1}
  Sweeper = sweeper
  MaxPerUser = 2
  Horizon = 3
  PastTolerance = 0
  LateGrace = 1
  KeepDone = 2
  MaxRuns = 3
  Attempts = 2
  Everys = {1, 2}
  Offsets = {2}
  Shift = 1
  MaxTime = 4
  MaxFaults = 0
  MaxDrops = 0
  MaxCrashes = 0
  MaxStops = 1
SYMMETRY IdSymmetry
INVARIANT SlotsOnce

\* A "send now" request and the sweeper meet the same due entry.
SPECIFICATION Spec
CONSTANTS
  Users = {u1}
  Terms = {1}
  Ids = {a}
  Handlers = {h1}
  Sweeper = sweeper
  MaxPerUser = 2
  Horizon = 3
  PastTolerance = 0
  LateGrace = 1
  KeepDone = 2
  MaxRuns = 3
  Attempts = 2
  Everys = {1, 2}
  Offsets = {1}
  Shift = 1
  MaxTime = 4
  MaxFaults = 0
  MaxDrops = 0
  MaxCrashes = 0
  MaxStops = 0
INVARIANT SlotsOnce

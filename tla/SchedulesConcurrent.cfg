\* The sweeper and a "send now" request thread: two passes overlap freely.
SPECIFICATION Spec
CONSTANTS
  Users = {u1}
  Terms = {1}
  Ids = {a, b}
  Handlers = {h1}
  Sweeper = sweeper
  MaxPerUser = 1
  Horizon = 3
  PastTolerance = 0
  LateGrace = 1
  KeepDone = 2
  MaxRuns = 3
  Attempts = 2
  Everys = {2}
  Offsets = {1, 2}
  Shift = 1
  MaxTime = 4
  MaxFaults = 0
  MaxDrops = 0
  MaxCrashes = 0
  MaxStops = 0
SYMMETRY IdSymmetry
INVARIANT TypeOK
INVARIANT CancelIsFinal
INVARIANT LoopInWindow
PROPERTY FinishedForGood
PROPERTY LoopsKeepCount

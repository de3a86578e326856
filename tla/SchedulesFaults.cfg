\* Failing reads, writes and sockets, lost sends, a manager restart and a past loop start; the sweeper keeps running.
SPECIFICATION FairSpec
CONSTANTS
  Users = {u1}
  Terms = {1}
  Ids = {a}
  Handlers = {h1}
  Sweeper = sweeper
  MaxPerUser = 1
  Horizon = 2
  PastTolerance = 1
  LateGrace = 1
  KeepDone = 2
  MaxRuns = 3
  Attempts = 2
  Everys = {2}
  Offsets = {0, 2}
  Shift = 2
  MaxTime = 3
  MaxFaults = 2
  MaxDrops = 1
  MaxCrashes = 1
  MaxStops = 0
INVARIANT SentMeansSubmitted
PROPERTY EntriesAccountedFor

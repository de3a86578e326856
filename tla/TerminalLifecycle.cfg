SPECIFICATION FairSpec
CONSTANTS
  Tabs = {1}
  Threads = {h1, h2}
  MaxFaults = 1
  MaxActs = 3
INVARIANT ClosedStaysClosed
PROPERTY StartsBuild
PROPERTY NamesFollow
CHECK_DEADLOCK FALSE

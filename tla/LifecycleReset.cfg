SPECIFICATION Spec
CONSTANTS
  Tabs = {1}
  Threads = {h1, h2}
  MaxFaults = 1
  MaxActs = 3
INVARIANT NothingComesBack
CHECK_DEADLOCK FALSE

SPECIFICATION MCSpec
CONSTANTS
  None = None
  tabA = tabA
  tabB = tabB
  MaxLanes = 1
  MaxPerTab = 1
  Clients = {tabA}
  MaxAsked = 2
  MaxNavs = 1
  MaxFaults = 1
  NoTask = NoTask
  MaxActs = 2
  MaxMirrorFaults = 1
  Nothing = Nothing
  Frames = {winF}
  Siblings = {winS}
  Popups = {winO}
  Parent = winP
  TopSite = site1
  Sites = {site1, site2}
  MaxMessages = 3
  MaxMoves = 1
  MaxFailures = 1
  Workers = {1, 2}
  Copies = {1, 2}
  MaxEntries = 1
  MaxWaiting = 2
  MaxMishaps = 3
  Tunnels = {1, 2, 3}
  MaxConnections = 2
  MaxRelayed = 3
  MaxOpens = 4
  PoolRequests = {1, 2, 3}
  Sessions = {11, 12, 13}
  H1Tunnels = {21, 22, 23}
  MaxSockets = 2
  MaxDrops = 1
  NoSession = NoSession
  Devices = {tabA, tabB}
  Urls = {1, 2}
  Long = {2}
  Room = 1
  MaxTurns = 3
  MaxSaveFaults = 1
  Absent = Absent
  Hrefs = {1}
  MaxJournal = 2
  MaxSteps = 2
  MaxChanges = 1
  MaxDocs = 2
  MaxLost = 1
  Nil = Nil
INVARIANT PagesHaveLanes
INVARIANT SentOnce
INVARIANT ListIsTrue
INVARIANT EnterSeesTyping
 
INVARIANT WaitersHaveNothing
INVARIANT LimitIsExact
INVARIANT ConnectionsBounded
PROPERTY AloneNeverDead
PROPERTY MirrorShowsPage
PROPERTY KeptUnlessClosed
PROPERTY ScriptsSettle
CHECK_DEADLOCK FALSE

SPECIFICATION MCSpec
CONSTANTS
  MaxRetries = 2
  MaxTrouble = 3
  phone = phone
  desk = desk
  NoValue = NoValue
  Texts = {1}
  MaxLines = 4
  Depth = 3
  MaxOutput = 4
  MaxGestures = 2
  NoRow = NoRow
  Chars = {1, 2}
  MaxLen = 2
  MaxEdits = 6
  NoText = NoText
  Cells = {0, 1, 2}
  Links = {2}
  MaxTouches = 3
  NoCell = NoCell
  Windows = {w1, w2}
  Keep = 2
  Legacy = 2
  MaxMoves = 3
  MaxRuns = 3
  MaxRecords = 3
  MaxResets = 1
  NoRun = NoRun
  Boxes <- TwoFrames
  Ids <- ThreeWindows
  Drags = {100}
  MaxSteps = 3
  Unset = Unset
INVARIANT ReaderKeepsPlace
INVARIANT LineIsField
INVARIANT HandlesFrameSelection
INVARIANT LayoutReadsBack
INVARIANT RowsAreRuns
PROPERTY PageComesUp
PROPERTY FrontGetsShape
PROPERTY LoadsAnswered
PROPERTY DesksConverge
CHECK_DEADLOCK FALSE

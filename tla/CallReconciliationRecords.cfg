SPECIFICATION MCSpec
CONSTANTS
  None = None
  n1 = n1
  w1 = w1
  w2 = w2
  Calls = {1, 2}
  Events = {}
  Workers = {}
  Listener = listener
  CallOf <- OfNoEvent
  Name <- OfNoEvent
  Detail <- OfNoEvent
  OtherLegs = {}
  MaxRecords = 1
  Number <- SomeNumbers
  Cdrs = {1, 2, 3}
  CdrCall <- TheirCalls
  Leg <- TheirLegs
  Disposition <- TheirDispositions
  Near <- SomeNear
  HasLinked = TRUE
  Hangups = {"completed"}
  Writers = {w1, w2}
  MaxEvents = 2
  NoTime = None
  Logs <- SomeLogs
  Windows <- SomeWindows
  MaxLogs = 3
  Times = {0, 1, 2}
  TheTime = 3
SYMMETRY WritersAreAlike
CHECK_DEADLOCK FALSE
INVARIANTS
  RowsTellOneStory
  PeakIsFound
PROPERTIES
  RecordIsTold
  EventsStand

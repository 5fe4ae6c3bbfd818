SPECIFICATION Spec
CONSTANTS
  m = m
  p = p
  a1 = a1
  a2 = a2
  z1 = z1
  z2 = z2
  None = None
  Internal = Internal
  NoEvent = NoEvent
  NoReport = NoReport
  Main = m
  Tracker = Tracker
  Program <- MCProgram
  Addr <- MCAddr
  Size <- MCSize
  MaxQueue = 1
INVARIANTS
  QueueOrderMatchesHeap
  MapCatchesUp
  CorrectFreesAreKnown
  ReportExact
  TrackerThreadOwnsMap
PROPERTIES
  ShutdownIsFinal
  BehavesSynchronously
  ShutdownReports
  CallsReturn

SPECIFICATION FairSpec
CONSTANTS
  main = main
  other = other
  Caller <- MCCaller
  Main = main
  Worker = Worker
  Nobody = Nobody
  MaxCalls <- MCMaxCalls
  MaxDepth = 4
INVARIANTS
  TypeOK
  NoSelfDeadlock
  OwnAllocationsAreSilent
  FirstUseEnds
PROPERTIES
  TrackerCatchesUp
CHECK_DEADLOCK FALSE

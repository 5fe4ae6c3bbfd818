SPECIFICATION Spec
CONSTANTS
  e1 = e1
  e2 = e2
  e3 = e3
  p1 = p1
  p2 = p2
  w = w
  s1 = s1
  s2 = s2
  NoThread = NoThread
  NoEvent = NoEvent
  Worker = w
  Event <- MCEvent
  Pushers <- MCPushers
  Stoppers <- MCStoppers
INVARIANTS
  NoLostWakeup
  ExitedDrained
PROPERTIES
  StopEndsWorker
  ImplementsChannel
  ChannelDelivers

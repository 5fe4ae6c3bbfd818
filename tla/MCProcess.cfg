CONSTANTS
  Main = Main
  other = other
  Thread = {Main, other}
  eager = eager
  lazy = lazy
  Eager = {eager}
  Lazy = {lazy}
  Fd = {1, 2, 3}
  Stdout = 1
  Pieces = 2
  Argv <- MCArgv
  Base = {4, 5}
  Dword = 4

SPECIFICATION Spec

INVARIANTS
  StaticOwnersAreFreed
  ReportUnlessRaced
  ResolveLeavesNoTrace
  AnswerIsRight
  ArgumentsArrive
  NeverRunsUnhooked
  LauncherLeavesNothing

PROPERTIES
  NoNewCallTouchesDestroyed
  ExitEnds

CHECK_DEADLOCK FALSE

SPECIFICATION Spec
CONSTANTS
  t1 = t1
  t2 = t2
  Trace <- MCTrace
  AddressSpace = 8
  MaxLeaks = 3
INVARIANTS
  Deterministic
  TotalIsExact
CHECK_DEADLOCK FALSE

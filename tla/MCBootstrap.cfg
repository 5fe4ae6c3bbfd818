SPECIFICATION Spec
CONSTANTS
  t1 = t1
  t2 = t2
  Thread <- MCThread
  Op <- MCOp
  DlSize = 1
  MaxDepth = 4
  Size <- MCSize
  HeapAddress <- MCHeap
  BufferSize = 3
  Word = 8
  MaxServed = 2
  MaxHeld = 1
  Missing <- MCMissing
INVARIANTS
  NestingIsBounded
  OneRequestPerThread
  ServedBlocksAreDisjoint
  RealGetsItsOwn
SYMMETRY Symmetry

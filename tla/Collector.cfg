SPECIFICATION Spec
CONSTANTS
  Obj <- MCObj
  None = 0
  ObjectBytes <- MCObjectBytes
  InitialThreshold = 2
  StressGC = FALSE
  MaxBytes = 2
  MaxRoots = 2
INVARIANTS
  TypeOK
  NoDangling
  Tricolor
  ListThreadsHeap
  MarksCleared
  Accounting
  HeapBound
  NothingLeaks
PROPERTIES
  Implements
  MemoryReturns
CHECK_DEADLOCK FALSE

SPECIFICATION Spec
CONSTANTS
  Name = {"a", "f", "clock"}
  Literal <- MCLiteral
  Continuations <- NilContinuations
  Programs <- NilComparisons
  ByteCount = 10
  MaxLocals = 10
  MaxUpvalues = 10
  FramesMax = 3
  Time = 0
INVARIANT OutputIsRight
CHECK_DEADLOCK FALSE

SPECIFICATION Spec
CONSTANTS
  Name = {"a", "b", "c", "d", "e", "f", "g", "h", "i", "j", "k", "l", "y", "z", "clock"}
  Literal <- MCLiteral
  Continuations <- MCContinuations
  Programs <- MCPrograms
  ByteCount = 10
  MaxLocals = 10
  MaxUpvalues = 10
  FramesMax = 3
  Time = 0
INVARIANTS
  Verified
  WithinLimits
  HeightsAgree
  OutputIsRight
CHECK_DEADLOCK FALSE

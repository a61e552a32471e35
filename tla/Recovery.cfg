SPECIFICATION Spec
CONSTANTS
  Name = {"a", "b", "c", "d"}
  Literal <- MCLiteral
  Continuations <- MCContinuations
  ByteCount = 4
  MaxLocals = 4
  MaxUpvalues = 4
INVARIANTS
  CleanStart
  Accepts
PROPERTIES
  Terminates
CHECK_DEADLOCK FALSE

SPECIFICATION Spec
CONSTANTS
  Value = {0}
  Nil = 0
  Closure = {11, 12, 13}
  Upvalue = {21, 22, 23}
  Script = 11
  FramesMax = 2
  MaxStack = 5
VIEW InUse
ACTION_CONSTRAINT LowestFirst
INVARIANTS
  TypeOK
  GoesDown
  OpenAreListed
PROPERTIES
  Implements
CHECK_DEADLOCK FALSE

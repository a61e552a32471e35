SPECIFICATION Spec
CONSTANTS
  Obj = {1, 2, 3, 4, 5, 6, 7, 8, 9}
  None = None
  Text = {a}
  Natives = {a}
  Instructions = {"fun", "call", "setUpvalue"}
  Interactive = FALSE
  FramesMax = 2
  MaxStack = 4
  MaxCompilers = 3
  MaxConstants = 1
VIEW InUse
ACTION_CONSTRAINT LowestFirst
INVARIANTS
  TypeOK
  NoDangling
  UpvaluesOnStack
CHECK_DEADLOCK FALSE

SPECIFICATION Spec
CONSTANTS
  Obj = {1, 2, 3, 4, 5, 6}
  None = None
  Text = {a}
  Natives = {}
  Instructions = {"fun", "global", "runtimeError"}
  Interactive = TRUE
  FramesMax = 1
  MaxStack = 5
  MaxCompilers = 2
  MaxConstants = 2
ACTION_CONSTRAINT LowestFirst
INVARIANT ClosuresOutliveScopes
CHECK_DEADLOCK FALSE

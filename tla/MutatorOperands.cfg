SPECIFICATION Spec
CONSTANTS
  Obj = {1, 2, 3, 4}
  None = None
  Text = {a, b}
  Natives = {}
  Instructions = {"constant", "concatenate"}
  Interactive = FALSE
  FramesMax = 1
  MaxStack = 4
  MaxCompilers = 1
  MaxConstants = 2
ACTION_CONSTRAINT LowestFirst
INVARIANT OperandsOffStack
CHECK_DEADLOCK FALSE

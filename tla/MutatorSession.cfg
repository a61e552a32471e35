SPECIFICATION Spec
CONSTANTS
  Obj = {o1, o2, o3, o4}
  None = None
  Text = {a, b}
  Natives = {}
  Instructions = {"constant", "global", "setLocal", "operate", "concatenate", "runtimeError"}
  Interactive = TRUE
  FramesMax = 1
  MaxStack = 4
  MaxCompilers = 1
  MaxConstants = 2
SYMMETRY Addresses
INVARIANTS
  NoDangling
  Interned
  CleanBetweenCalls
PROPERTIES
  OnlyDefinitionsDefine
  Implements
CHECK_DEADLOCK FALSE

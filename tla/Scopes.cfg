SPECIFICATION Spec
CONSTANTS
  Name = {a, b}
  MaxLocals = 3
  MaxUpvalues = 1
  MaxFunctions = 3
  MaxDepth = 2
SYMMETRY Names
INVARIANTS
  TypeOK
  UpvaluesDenote
PROPERTIES
  Implements
CHECK_DEADLOCK FALSE

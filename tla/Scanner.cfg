SPECIFICATION Spec
CONSTANTS
  Text <- MCText
INVARIANTS
  TypeOK
  Tokenizes
PROPERTIES
  Terminates
CHECK_DEADLOCK FALSE

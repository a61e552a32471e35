SPECIFICATION Spec
CONSTANTS
  Key = {a, b, c, d}
  None = None
  Nil = Nil
  True = True
  Value = {Nil, True}
  HashCodes = {0, 3, 4}
  MinCapacity = 4
  MaxCapacity = 8
SYMMETRY Strings
INVARIANTS
  TypeOK
  CountIsExact
  ProbesEnd
  KeysAreFound
PROPERTIES
  Implements

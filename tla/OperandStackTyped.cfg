SPECIFICATION Spec
CONSTANTS
  MaxSizes = {0, 1, 2, 5}
  Uint = 8
  Word = 8
  Values <- LowValues
INVARIANTS
  TypeOK
  NoStaleRef
PROPERTY
  ImplementsOperandValues

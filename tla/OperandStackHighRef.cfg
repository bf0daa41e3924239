SPECIFICATION Spec
CONSTANTS
  MaxSizes = {2}
  Uint = 8
  Word = 8
  Values <- HighValues
PROPERTY
  ImplementsOperandValues

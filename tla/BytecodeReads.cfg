\* A code of two ones, in front of zeros.
SPECIFICATION CodeSpec
CONSTANTS
  Byte = {0, 1}
  Memories <- CodeAndMore
  CodeLengths = {2}
  Blocks = {1}
  Distances = {2}
PROPERTY
  ReadsItsCode
CHECK_DEADLOCK FALSE

\* One file of eight bytes; reads stop at its end only, so that nothing but the
\* code can be the reason.  Each call of Calls alone violates the property.
SPECIFICATION FileSpec
CONSTANTS
  Byte = {0, 1}
  Contents <- LongFile
  Handles = {h1}
  NULL = NULL
  NoStream = NoStream
  Blocks = {1}
  Distances = {2}
  LongMax = 10
  MayFail = FALSE
  Calls = {"ReadUint16", "ReadUint64", "Skip", "Reset", "Position", "Open"}
PROPERTY
  AnswersAreRight
CHECK_DEADLOCK FALSE

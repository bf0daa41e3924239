\* The file is a correct class, and reads stop at its end only.
SPECIFICATION Spec
CONSTANTS
  Byte = {0, 1, 2, 3, 4, 5, 7, 33, 52, 65, 66, 186, 190, 202, 254}
  Contents <- SmallestClasses
  Handles = {h1}
  NULL = NULL
  NoStream = NoStream
  Blocks = {1}
  Distances <- Forwards
  LongMax = 40
  MayFail = FALSE
  Memories <- NoMemories
  CodeLengths = {}
  Meaning <- AnyMeaning
  Spelling <- Spellings
  NUL <- ByteNUL
  Continuation <- ByteCont
  WholeClasses <- SmallestClasses
INVARIANT
  WholeClassLoads

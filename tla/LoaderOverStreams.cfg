\* Reads may stop early; offsets up to seven bytes, so that a seek is refused
\* at both ends.
SPECIFICATION Spec
CONSTANTS
  Byte = {0, 1}
  Contents <- SmallFiles
  Handles = {h1, h2}
  NULL = NULL
  NoStream = NoStream
  Blocks = {0, 1, 2}
  Distances <- BackAndForth
  LongMax = 7
  MayFail = TRUE
  Memories <- SmallMemories
  CodeLengths = {0, 2, 3}
  Meaning <- AnyMeaning
  Spelling <- Spellings
  NUL <- ByteNUL
  Continuation <- ByteCont
  WholeClasses = {}
INVARIANTS
  FileTypeOK
  NoDanglingHandle
  CodeTypeOK
  CodeIsNeverRead
  NothingLoads
PROPERTIES
  ImplementsByteStream
  LoadEnds

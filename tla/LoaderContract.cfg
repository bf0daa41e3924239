SPECIFICATION Spec
CONSTANTS
  Files <- LoaderFiles
  OkReturns <- Negative
  EofReturns = {0}
  Spelling <- Spellings
  NUL <- ByteNUL
  Continuation <- ByteCont
INVARIANTS
  TypeOK
  LoadedMeansAllRead
  MembersSeeWholePool
  EntriesHaveTheirElement
  DepthPaidByBytes
  CrashHasAReason
  ParsedByItsName
PROPERTY
  Terminates
CHECK_DEADLOCK FALSE

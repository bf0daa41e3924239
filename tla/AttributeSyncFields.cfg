SPECIFICATION SyncSpec
CONSTANTS
  Kinds <- ReadInFull
  Sizes = {0,1,2,3}
  Trailing = 12
  Files = {}
  OkReturns <- Negative
  EofReturns = {0}
  Spelling <- Spellings
  NUL <- ByteNUL
  Continuation <- ByteCont
INVARIANT
  InSync
CHECK_DEADLOCK FALSE

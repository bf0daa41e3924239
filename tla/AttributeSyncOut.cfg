SPECIFICATION SyncSpec
CONSTANTS
  Kinds <- OutOfStep
  Sizes = {2}
  Trailing = 12
  Files = {}
  OkReturns <- Negative
  EofReturns = {0}
  Spelling <- Spellings
  NUL <- ByteNUL
  Continuation <- ByteCont
INVARIANT
  InSync
CHECK_DEADLOCK FALSE

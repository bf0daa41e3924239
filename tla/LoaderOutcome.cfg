\* Each of EmptyClasses, MethodFiles and NameFiles in place of OddFiles violates
\* another conjunct.
SPECIFICATION Spec
CONSTANTS
  Files <- OddFiles
  OkReturns <- Negative
  EofReturns = {0}
  Spelling <- Spellings
  NUL <- ByteNUL
  Continuation <- ByteCont
INVARIANT
  OutcomeTellsTheFile
CHECK_DEADLOCK FALSE

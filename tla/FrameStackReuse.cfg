SPECIFICATION Spec
CONSTANTS
  t1 = t1
  f1 = f1  f2 = f2  f3 = f3
  Threads = {t1}
  Frames = {f1, f2, f3}
  StackSizes = {2}
  Word = 8
  NULL = NULL
  Reuse = "always"
INVARIANT
  OverflowReportedOnlyWhenFull

\* Two threads, stacks of none, one or three frames, four frames; an unsigned
\* int of three bits, so that a counter that wraps is far above every size.
SPECIFICATION Spec
CONSTANTS
  t1 = t1
  t2 = t2
  Threads = {t1, t2}
  Frames = {f1, f2, f3, f4}
  f1 = f1
  f2 = f2
  f3 = f3
  f4 = f4
  StackSizes = {0, 1, 3}
  Word = 8
  NULL = NULL
  Reuse = "nonempty"
INVARIANTS
  TypeOK
  ListIsCallHistory
  FreshFramesEndAList
PROPERTIES
  StackedLinksFrozen
  ImplementsCallStack

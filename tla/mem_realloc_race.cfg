SPECIFICATION Spec
CONSTANTS
  t1 = t1
  t2 = t2
  a1 = a1
  a2 = a2
  a3 = a3
  NULL = NULL
  NoThread = NoThread
  Threads <- TwoThreads
  Addr <- TwoAddrs
  Sizes <- TwoSizes
  CallocArgs <- FitAndWrap
  Wrap = 8
  Ops = {"realloc"}
INVARIANT RecordsExact

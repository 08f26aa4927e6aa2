SPECIFICATION Spec
CONSTANTS
  t1 = t1
  t2 = t2
  a1 = a1
  a2 = a2
  a3 = a3
  NULL = NULL
  NoThread = NoThread
  Threads <- TwoThreads
  Addr <- TwoAddrs
  Sizes <- OneByte
  CallocArgs <- FitAndWrap
  Wrap = 4
  Ops = {"calloc", "realloc", "external", "untraced", "deinit"}
SYMMETRY Symmetric2
INVARIANTS
  TypeOK
  HeapAgrees
  CountMatches
  BytesMatch
  LockUsable
PROPERTY ContractHeld

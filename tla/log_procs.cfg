SPECIFICATION Spec
CONSTANTS
  p1 = p1
  p2 = p2
  t1 = t1
  t2 = t2
  NoThread = NoThread
  Procs <- TwoProcs
  Threads <- TwoThreads
  ProcOf <- EachOwn
  Fds <- OneFd
  Inodes <- TwoFiles
  Limit = 1
  MaxLen = 2
  Levels <- OneLevel
  MaxFile = 2
  Ops = {"io_error", "close_error", "late", "unlink"}
INVARIANTS
  SizeBound
  LinesIntact

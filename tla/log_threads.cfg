SPECIFICATION FairSpec
CONSTANTS
  p1 = p1
  p2 = p2
  t1 = t1
  t2 = t2
  NoThread = NoThread
  Procs <- OneProc
  Threads <- TwoThreads
  ProcOf <- SameProc
  Fds <- TwoFds
  Inodes <- OneFile
  Limit = 3
  MaxLen = 2
  Levels <- TwoLevels
  MaxFile = 100
  Ops = {"short", "io_error", "host_file"}
INVARIANTS
  TypeOK
  LinesIntact
  SuccessIsLogged
  NoStray
PROPERTIES
  ClearedOnlyWhenFull
  LogLockReleased

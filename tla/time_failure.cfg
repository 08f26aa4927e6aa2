SPECIFICATION HostSpec
CONSTANTS
  Fds = {0, 1, 2}
  Retries <- SomeRetries
  TrySecs = {0, 1}
  Interfaces <- SmallInterfaces
  RouteTables <- SmallRoutes
  Cap = 8
  Replies <- SmallReplies
  Dates = {"d1", "d2"}
  Requests <- SomeRequests
  Zones = {"UTC", "CST"}
  Wrap = 65536
  Word = 64
  Permille = 10
  MaxJiffies = 3
  Second = 2
  MaxTime = 4
  Readings <- SomeReadings
  TempBuf = 4
  Garbage = {0, 10, 55}
  Exes <- SomeExes
  DirBuf = 6
  Files <- SomeFiles
  Names <- SomeNames
  Lens = {0, 1, 2, 3, 6, 8}
  Sizes = {1, 2}
INVARIANT SuccessMeansServerTime

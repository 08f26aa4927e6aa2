SPECIFICATION FairSpec
CONSTANTS
  c1 = c1
  c2 = c2
  Callers <- OneCaller
  Timeouts <- ManyTimeouts
  Tries <- ManyTries
  HostChld <- BothChld
  Failures = {"kill", "eintr"}
INVARIANTS
  TypeOK
  SignalsRestored
  ProtectedWhileRunning
  FailedMeansTimeout
  RetriesExact
PROPERTY CallReturns

SPECIFICATION Spec
CONSTANTS
  c1 = c1
  c2 = c2
  Callers <- TwoCallers
  Timeouts <- OnePoll
  Tries <- FewTries
  HostChld <- BothChld
  Failures = {}
INVARIANT SignalsRestored

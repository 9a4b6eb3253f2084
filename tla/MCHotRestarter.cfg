SPECIFICATION FairSpec
CONSTANTS
  p1 = p1
  p2 = p2
  p3 = p3
  NoPid = NoPid
  Pids <- ThreePids
  TermWait = 2
  MaxForks = 3
  GracefulTerm = TRUE
  QuietStart = TRUE
  Faults <- AnyFaults
CHECK_DEADLOCK FALSE
INVARIANTS
  FailureReported
  CleanTermReaps
  TermBounded
PROPERTIES
  Generates
  TermEnds
  FailureEnds
  HupForks

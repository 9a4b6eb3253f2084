SPECIFICATION Spec
CONSTANTS
  p1 = p1
  p2 = p2
  p3 = p3
  NoPid = NoPid
  Pids <- TwoPids
  TermWait = 1
  MaxForks = 1
  GracefulTerm = TRUE
  QuietStart = FALSE
  Faults <- NoFaults
CHECK_DEADLOCK FALSE
INVARIANT
  FailureReported

SPECIFICATION Spec
CONSTANTS
  p1 = p1
  p2 = p2
  p3 = p3
  NoPid = NoPid
  Pids <- ThreePids
  TermWait = 2
  MaxForks = 4
  GracefulTerm = FALSE
  QuietStart = FALSE
  Faults <- AnyFaults
CHECK_DEADLOCK FALSE
SYMMETRY PidSymmetry
INVARIANT
  ListedAreChildren

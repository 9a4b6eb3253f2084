SPECIFICATION Spec
CONSTANTS
  p1 = p1
  p2 = p2
  p3 = p3
  NoPid = NoPid
  Pids <- ThreePids
  Ttls <- LongTtls
  MaxBundles = 1
  Delay = 0
  Faults <- FetchFaults
  MaxFaults = 1
INVARIANT
  EveryGhostunnelRenewed

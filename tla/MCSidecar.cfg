SPECIFICATION Spec
CONSTANTS
  p1 = p1
  p2 = p2
  p3 = p3
  NoPid = NoPid
  Pids <- ThreePids
  Ttls <- LongTtls
  MaxBundles = 2
  Delay = 1
  Faults <- StoppingFaults
  MaxFaults = 2
SYMMETRY PidSymmetry
INVARIANTS
  FilesCurrent
  OneGhostunnel
  ServedSvidValid
  RunningIsWatched
PROPERTY
  LoadsCurrent

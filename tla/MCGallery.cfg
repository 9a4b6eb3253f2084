SPECIFICATION FairSpec
CONSTANTS
  Size = 3
  Kinds <- ShowKinds
  SlideTime = 1
  MaxCalls = 2
  Reasons <- TwoReasons
  Delays <- DelayKinds
  MaxPending = 2
  Host = 1
CHECK_DEADLOCK FALSE
INVARIANTS
  OneActive
  OneTimer
  NeverStuck
  SeenWhenWanted
PROPERTIES
  SlideNotCut
  JumpsMade
  Vanishes

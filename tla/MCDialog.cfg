SPECIFICATION FairSpec
CONSTANTS
  Options <- Kinds
  N = 2
  Vetoes <- ShowVetoes
CHECK_DEADLOCK FALSE
INVARIANTS
  PageRestored
  OpenIsWhole
  OneOpen
  AriaTruthful
PROPERTIES
  DragKeeps
  NotCutShort
  WindowDiscloses
  PanelsDisclose

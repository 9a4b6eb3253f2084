SPECIFICATION FairSpec
CONSTANTS
  h1 = h1
  ca1 = ca1
  noCa = noCa
  frontEnd = frontEnd
  noId = noId
  Handshakes <- OneHandshake
  CAs <- OneCA
  NoCa = noCa
  Ids <- OneId
  NoId = noId
  MaxUpdates = 2
  Editors <- AllEditors
  MaxTime = 3
  MaxEdits = 1
CHECK_DEADLOCK FALSE
INVARIANTS
  NoMissedChange
  IdentityPresented
  PeerTrusted
  RemovedIdRefused
PROPERTIES
  HandshakesEnd
  Followed

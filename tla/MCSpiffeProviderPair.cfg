SPECIFICATION Spec
CONSTANTS
  h1 = h1
  ca1 = ca1
  ca2 = ca2
  noCa = noCa
  frontEnd = frontEnd
  noId = noId
  Handshakes <- OneHandshake
  CAs <- TwoCAs
  NoCa = noCa
  Ids <- OneId
  NoId = noId
  MaxUpdates = 2
CHECK_DEADLOCK FALSE
INVARIANTS
  KeyOfChain

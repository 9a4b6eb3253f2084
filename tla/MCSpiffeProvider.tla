--------------------------- MODULE MCSpiffeProvider ---------------------------
\* An instance of SpiffeProvider for TLC.
EXTENDS SpiffeProvider

CONSTANTS h1, ca1, ca2, noCa, frontEnd, noId

OneHandshake == {h1}
TwoCAs       == {ca1, ca2}
OneId        == {frontEnd}
=============================================================================

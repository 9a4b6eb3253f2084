------------------------------ MODULE MCMutualTls ------------------------------
\* An instance of MutualTls for TLC.
EXTENDS MutualTls

CONSTANTS h1, ca1, noCa, frontEnd, noId

OneHandshake == {h1}
OneCA        == {ca1}
OneId        == {frontEnd}
AllEditors   == {"append", "truncate", "rename"}
=============================================================================

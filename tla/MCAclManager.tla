----------------------------- MODULE MCAclManager -----------------------------
\* An instance of AclManager for TLC: lists of one or two SPIFFE IDs.
EXTENDS AclManager

CONSTANTS empty, frontEnd, frontEnd2

AllLists == {empty, frontEnd, frontEnd2}
Renaming == {"rename"}
=============================================================================

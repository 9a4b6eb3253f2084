---------------------------- MODULE MCHotRestarter ----------------------------
\* Instances of HotRestarter for TLC.
EXTENDS HotRestarter, TLC

CONSTANTS p1, p2, p3

TwoPids     == {p1, p2}
ThreePids   == {p1, p2, p3}
PidSymmetry == Permutations(Pids)

NoFaults  == {}
AnyFaults == {"fork", "kill"}
=============================================================================

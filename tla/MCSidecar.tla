------------------------------ MODULE MCSidecar ------------------------------
\* Instances of Sidecar for TLC.
EXTENDS Sidecar, TLC

CONSTANTS p1, p2, p3

ThreePids == {p1, p2, p3}
PidSymmetry == Permutations(Pids)

LongTtls  == {5, 6}

StoppingFaults == {"fetch", "write", "exec", "exit", "interrupt", "kill"}
FetchFaults    == {"fetch"}
=============================================================================

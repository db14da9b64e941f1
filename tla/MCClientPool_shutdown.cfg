\* Shutdown while the peer keeps its sessions up.
CONSTANTS
    Worker = {w1}
    Sess = {s1, s2}
    Reader = {u1}
    Forward = {f1}
    MaxInbound = 0
    None = None
SPECIFICATION LiveSpec
PROPERTIES ShutdownCompletes
\* Run may return or fail.
CHECK_DEADLOCK FALSE

\* Two sources; streams to spare for the fresh flow of a source while the stale
\* readers of earlier ones are still on their way out.
CONSTANTS
    Key = {k1, k2}
    Stream = {s1, s2, s3}
    None = None
SPECIFICATION LiveSpec
INVARIANTS MappedIsWatched NoOrphan NoCrossTalk
PROPERTY Drains
\* serveUDPListener returns.
CHECK_DEADLOCK FALSE

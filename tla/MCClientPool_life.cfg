\* One worker, one user connection, a session name to spare; a session added after
\* CloseAll does not last for ever.
CONSTANTS
    Worker = {w1}
    Sess = {s1, s2}
    Reader = {u1}
    Forward = {f1}
    MaxInbound = 1
    None = None
SPECIFICATION DropSpec
INVARIANTS SessionsOwned NilMeansNone StreamsOwned NothingLeftOnReturn
PROPERTIES Heals Served UsersReleased ShutdownCompletes
\* Run may return or fail.
CHECK_DEADLOCK FALSE

\* A backoff that doubles twice and then is cut off at its maximum; a dial may be
\* abandoned while an earlier one has not come back.
CONSTANTS
    MinBackoff = 3
    MaxBackoff = 11
    StableFloor = 5
    MaxFails = 5
    Sock = {k1, k2, k3}
    DialLimit = 2
    None = None
SPECIFICATION DialerSpec
INVARIANTS BackoffGrows NoneUnattended
PROPERTY DialsAreSpaced
\* All names may be taken by dials that have not come back yet.
CHECK_DEADLOCK FALSE

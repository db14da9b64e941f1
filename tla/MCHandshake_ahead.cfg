\* A client clock ahead by the whole acceptance window: outside the margin.
CONSTANTS
    Hello = {h1, h2}
    Authentic = {h1, h2}
    Conn = {c1, c2, c3}
    TicksPerSec = 2
    ClockSkew = 1
    Ahead = 1
    Behind = 0
    MaxDelay = 0
    Horizon = 7
    None = None
SYMMETRY Symm
SPECIFICATION Spec
INVARIANT AtMostOnce
\* Every handshake may have ended and the clock reached Horizon.
CHECK_DEADLOCK FALSE

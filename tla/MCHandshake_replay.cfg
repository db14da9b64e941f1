\* Retention of nonces, inside the margin, client clocks a second ahead or behind.
CONSTANTS
    Hello = {h1, h2}
    Authentic = {h1, h2}
    Conn = {c1, c2, c3}
    TicksPerSec = 2
    ClockSkew = 3
    Ahead = 1
    Behind = 1
    MaxDelay = 1
    Horizon = 13
    None = None
SYMMETRY Symm
SPECIFICATION Spec
INVARIANTS AtMostOnce TableIsPruned StaleOnlyIfLate
\* Every handshake may have ended and the clock reached Horizon.
CHECK_DEADLOCK FALSE

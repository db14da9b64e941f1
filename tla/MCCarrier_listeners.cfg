\* The three listeners; one slot, room for one in connCh, one silent peer.
CONSTANTS
    Conn = {c1, c2, c3}
    Silent = {c3}
    Workers = 1
    Capacity = 1
    Kind = {"async", "ws", "kcp"}
SPECIFICATION LiveSpec
INVARIANTS SlotsOfWorkers NoneLost DrainedButLate
PROPERTIES Implements CloseSettled NotStalled
\* The listener may have been closed and the server have returned.
CHECK_DEADLOCK FALSE

\* One connection at a time, one handshake slot, one service and its user; a session
\* added after CloseAll does not last for ever.
CONSTANTS
    Conn = {h1}
    Sess = {s1}
    Reader = {u1}
    Service = {v1}
    Slots = 1
    MaxBacklog = 1
    MaxInbound = 1
    None = None
SPECIFICATION DropSpec
INVARIANTS SessionsOwned SlotsExact
PROPERTIES SlotsComeBack ShutdownOnceListening SessionsEnd
\* Run may return or fail.
CHECK_DEADLOCK FALSE

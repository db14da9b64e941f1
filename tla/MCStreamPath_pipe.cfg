SPECIFICATION PathSpec
CONSTANTS
    Payloads = {"web", "bad", "long"}
    TooLong = {"long"}
    ServiceMap = {"web"}
    AllowForward = TRUE
    Whitelist = {}
    Blocked = {"bad"}
    Room = 1
    Chunks = 2
INVARIANT AllOfItArrives
PROPERTY BothEndsRelease
CHECK_DEADLOCK FALSE

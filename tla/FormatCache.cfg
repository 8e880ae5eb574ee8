CONSTANTS
    Bots = {telegram, max}
    Urls = {u1}
    TTL = 3
    Timeout = 1
    MaxTime = 7
    Faults = {"redis", "ytdlp", "restart"}
    None = None
SPECIFICATION Spec
CHECK_DEADLOCK FALSE
INVARIANTS
    TypeOK
    AgeBounded

CONSTANTS
    Users = {1}
    Stream <- TheStream
    MaxDeaths = 2
    Batch = 2
    Buffer = 1
    Faults = {"net", "db", "crash", "shutdown"}
    None = None
SPECIFICATION FairSpec
CHECK_DEADLOCK FALSE
INVARIANTS
    TypeOK
    MaxLosesNothing
    TelegramLossBounded
    RefusedOnce
    ModeConverges
PROPERTIES
    InOrder
    ServedEventually

CONSTANTS
    Services = {"bot", "admin"}
    MaxVersion = 2
    MaxTries = 2
    Faults = {"db", "crash"}
    Sources = {"youtube"}
    Month <- TheMonth
    Limit = 2
    TopLimit = 1
    MaxRows = 4
    MaxUsers = 2
    None = None
SPECIFICATION Spec
CHECK_DEADLOCK FALSE
INVARIANTS
    TypeOK
    ServesMigrated
    NumbersFit
    PagingMissesNothing

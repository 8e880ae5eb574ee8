CONSTANTS
    Tabs = {t1, t2}
    Passwords = {p0, p1, p2}
    InitialPassword = p0
    MaxAttempts = 2
    MaxTokens = 3
    MaxFailures = 2
    MaxChanges = 2
    Faults = {"db", "net", "crash"}
    None = None
SPECIFICATION Spec
CHECK_DEADLOCK FALSE
SYMMETRY TabSymmetry
INVARIANTS
    TypeOK
    FormOfItsLogin
    LockNeedsFailures
    LogoutSticks
PROPERTIES
    PasswordKept

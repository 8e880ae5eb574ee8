CONSTANTS
    Jobs = {"a"}
    Workers = {w1}
    Files <- TheFiles
    VideoFiles <- TheVideoFiles
    Rank <- TheRank
    Dirs <- TheDirs
    Dir <- TheDir
    File <- TheFile
    Platform <- ThePlatform
    Size <- TheSize
    Logged = {}
    MaxRetries = 2
    Copies = 1
    Faults = {}
    None = None
SPECIFICATION Spec
CHECK_DEADLOCK FALSE
INVARIANT DeliveryLogged

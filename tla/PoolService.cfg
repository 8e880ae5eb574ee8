CONSTANTS
    Jobs = {"a", "c"}
    Workers = {w1, w2}
    Files <- TheFiles
    VideoFiles <- TheVideoFiles
    Rank <- TheRank
    Dirs <- TheDirs
    Dir <- TheDir
    File <- TheFile
    Platform <- ThePlatform
    Size <- TheSize
    Logged = {"a"}
    MaxRetries = 1
    Copies = 1
    Faults = {"redis", "crash"}
    None = None
SPECIFICATION FairSpec
CHECK_DEADLOCK FALSE
INVARIANTS
    RecordAgrees
    DeliveriesCounted
PROPERTIES
    ServiceSpec
    AnsweredEventually

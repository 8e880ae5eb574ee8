CONSTANTS
    Jobs = {"a"}
    Workers = {w1, w2}
    Files <- TheFiles
    VideoFiles <- TheVideoFiles
    Rank <- TheRank
    Dirs <- TheDirs
    Dir <- TheDir
    File <- TheFile
    Platform <- ThePlatform
    Size <- TheSize
    Logged = {"a"}
    MaxRetries = 1
    Copies = 2
    Faults = {"db", "redis", "send", "ack", "crash", "shutdown"}
    None = None
SPECIFICATION Spec
CHECK_DEADLOCK FALSE
SYMMETRY WorkerSymmetry
INVARIANTS
    TypeOK
    EntryConservation
    RecordTruthful
    AtMostOneAnswer
    NoLeftovers
    DeliveriesCounted
PROPERTIES
    FinishedStaysFinished

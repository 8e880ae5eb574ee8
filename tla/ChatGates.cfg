CONSTANTS
    Users = {1}
    Chats = {"c"}
    Urls = {"long", "reel"}
    Reels <- TheReels
    Formats = {"720", "360"}
    Offered <- TheOffered
    Account <- TheAccount
    Limits = {1}
    MaxMessages = 2
    MaxChanges = 1
    Faults = {"db", "redis", "formats", "send", "restart"}
    None = None
SPECIFICATION Spec
CHECK_DEADLOCK FALSE
INVARIANTS
    TypeOK
    JobsGated
    OneJobPerSelection

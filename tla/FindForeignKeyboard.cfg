CONSTANTS
    Users = {1}
    Chats = {"c"}
    Urls = {"long", "short"}
    Reels <- TheReels
    Formats = {"720", "360"}
    Offered <- TheOffered
    Account <- TheAccount
    Limits = {1}
    MaxMessages = 2
    MaxChanges = 0
    Faults = {}
    None = None
SPECIFICATION Spec
CHECK_DEADLOCK FALSE
INVARIANTS
    FormatOffered

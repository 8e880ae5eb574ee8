CONSTANTS
    Entries <- MCEntries
    Lines <- MCLines
    MaxLength = 5
    KeyboardSize = 3
SPECIFICATION Spec
CHECK_DEADLOCK FALSE
INVARIANTS
    TypeOK
    OffersTheBest
    OffersAll

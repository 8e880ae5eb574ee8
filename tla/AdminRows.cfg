CONSTANTS
    Users = {1}
    Sources = {"youtube"}
    Requests = {r1, r2}
    Values = {5, 10001}
    MaxLimit = 10000
    MaxModes = 1
    Faults = {"db"}
    None = None
    Edits = {e1, e2}
    Settings <- TheSettings
    FirstSettings <- TheFirst
SPECIFICATION FormsSpec
CHECK_DEADLOCK FALSE
SYMMETRY RequestSymmetry
INVARIANTS
    TypeOK
    ColumnsOwned
    SettingsOfOneForm
    AuditTells
PROPERTIES
    FormsApart

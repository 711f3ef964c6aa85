CONSTANTS
    Parts = {"pki", "plain", "protected", "catalog", "keys", "desktop", "disk", "budget", "export"}
    Serial = {"s", "t"}
    KeyOf <- Rotations
    MaxGeneration = 4
    MaxTime = 2
SPECIFICATION SuiteSpec
CHECK_DEADLOCK FALSE
INVARIANTS
    CrlNamesTheRevoked
    StoredIsTrusted
    TicketsExpire
PROPERTIES
    RevocationIsFinal
    HistoryIsKept

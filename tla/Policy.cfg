CONSTANTS
    Parts = {"plugin", "rules", "presets", "written", "drafts", "edited", "removing",
             "failing", "expiring"}
    Executions = {"e1", "e2"}
    Explicit = {"e1"}
    Contents = {"good", "bad"}
    Registered = "good"
    BrokerMayDie = TRUE
    GuardianMayDie = TRUE
SPECIFICATION SuiteSpec
CHECK_DEADLOCK FALSE
INVARIANTS
    SuccessMeansEmpty
    DecidesAsWritten
PROPERTIES
    NothingOverridden

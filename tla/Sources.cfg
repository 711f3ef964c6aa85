CONSTANTS
    Parts = {"leases", "clocked", "reads", "tokens", "grants", "logins", "mtls", "body"}
    Execs = {"x", "y"}
    SourceOf <- OneSource
    Batch = 1
    Stuck = {}
    ClockSteps = FALSE
    CanCrash = TRUE
SPECIFICATION SuiteSpec
CHECK_DEADLOCK FALSE
INVARIANTS
    LiveLeasesAreJournaled
    NothingLeftAlive
    UseIsEvidenced

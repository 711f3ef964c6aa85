CONSTANTS
    Parts = {"leases", "waiting", "tokens"}
    Execs = {"x", "y"}
    SourceOf <- PairSource
    Batch = 1
    Stuck = {"x"}
    ClockSteps = FALSE
    CanCrash = FALSE
SPECIFICATION SuiteLiveSpec
CHECK_DEADLOCK FALSE
PROPERTY CleanupEnds

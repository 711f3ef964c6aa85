CONSTANTS
    Parts = {"derived", "approvals", "channel", "pair", "hosts", "signers", "workloads", "owners", "client", "mcp"}
    Req = {"x", "y"}
    Caller <- OneCaller
    MaxPolicy = 2
    Effect <- FirstAsks
    Target <- Clouds
    Expires <- FirstEnds
    Ttl <- ShortTtl
    Short = 1
    Long = 1
    Wait = 2
    Second = 2
    Sub = 2
    MaxNow = 3
SPECIFICATION SuiteSpec
CHECK_DEADLOCK FALSE
INVARIANTS
    DeliveredIsJournaled
    IssuedIsNotBlocked
    AnswersAreTrue
    ActsAsSigned
PROPERTY UnderCurrentPolicy

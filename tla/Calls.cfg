CONSTANTS
    Parts = {"calls", "signers", "rate", "access", "local", "crowded", "signed", "owners", "profile", "limit"}
    workload = workload
    Call = {"x", "y"}
    Signer = {}
    Approval = {"a", "b"}
    Key <- OneKey
    KeyOf <- SameKey
    RuleOf <- SameRule
    NeedsApproval <- OneKey
    ExternalKey = {}
    MaxPending = 2
    MaxRequests = 2
    MaxHours = 0
    MaxPolicy = 0
    MaxLocks = 1
SPECIFICATION SuiteSpec
CHECK_DEADLOCK FALSE
INVARIANTS
    ApprovalUsedOnce
    StartsAreGranted
    CountsAreExact
    ToldIsJournaled
PROPERTIES
    NoRevival
    EndedStaysEnded

CONSTANTS
    Parts = {"calls"}
    workload = workload
    Call = {"x", "y"}
    Signer = {}
    Approval = {"a", "b"}
    Key <- OneKey
    KeyOf <- SameKey
    RuleOf <- SameRule
    NeedsApproval <- OneKey
    ExternalKey = {}
    MaxPending = 2
    MaxRequests = 1
    MaxHours = 1
    MaxPolicy = 0
    MaxLocks = 1
SPECIFICATION SuiteSpec
CHECK_DEADLOCK FALSE
INVARIANT WindowEndsWithLock

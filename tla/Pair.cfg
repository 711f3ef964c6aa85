SPECIFICATION Spec
CONSTANTS
    s1 = s1
    e1 = e1
    e2 = e2
    c1 = c1
    NoSession = NoSession
    Session = {s1}
    Connection = {c1}
    Exec <- PairExec
    SessionOf <- PairSessionOf
    ConnectionOf <- PairConnectionOf
    Metered <- NoExec
    OAuth <- PairOAuth
    MaxConnectionExecutions = 1
    MaxExecutionsPerConnection = 1
    StopCause = {"admin"}
    MaxBoots = 0
INVARIANTS
    HandoffProtected
    ClosedIsComplete
PROPERTIES
    NoEffectAfterStop
CHECK_DEADLOCK FALSE

SPECIFICATION Spec
CONSTANTS
    s1 = s1
    e1 = e1
    e2 = e2
    c1 = c1
    NoSession = NoSession
    Session = {s1}
    Connection = {c1}
    Exec <- SoloExec
    SessionOf <- LocalSessionOf
    ConnectionOf <- SoloConnectionOf
    Metered <- NoExec
    OAuth <- SoloExec
    MaxConnectionExecutions = 1
    MaxExecutionsPerConnection = 1
    StopCause = {"admin", "signal", "fault"}
    MaxBoots = 1
INVARIANTS
    EvidenceIsTrue
    LostTerminalClosesGate
PROPERTIES
    NoEffectAfterDrain
    ImplementsLedger
CHECK_DEADLOCK FALSE

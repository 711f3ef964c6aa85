SPECIFICATION FairSpec
CONSTANTS
    s1 = s1
    e1 = e1
    e2 = e2
    c1 = c1
    NoSession = NoSession
    Session = {s1}
    Connection = {c1}
    Exec <- SoloExec
    SessionOf <- SoloSessionOf
    ConnectionOf <- SoloConnectionOf
    Metered <- SoloMetered
    OAuth <- NoExec
    MaxConnectionExecutions = 1
    MaxExecutionsPerConnection = 1
    StopCause = {"admin", "signal", "fault"}
    MaxBoots = 0
PROPERTIES
    StartedIsTerminated
    StopsEnd
CHECK_DEADLOCK FALSE

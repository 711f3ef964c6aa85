CONSTANTS
    Parts = {"transport", "requests", "models", "blocks", "chat", "items", "usage"}
    PublicAddrs = {"public"}
    PrivateAddrs = {"bound", "private"}
    FakeAddrs = {"fake"}
    BoundAddrs = {"bound"}
    MaxAnswer = 2
    Defaults = 2
    Limit = 2
    Chunks = {1, 2}
    Deadline = 2
SPECIFICATION SuiteSpec
CHECK_DEADLOCK FALSE
INVARIANTS
    TransportIsScreened
    SentAsApproved
    ToldAsRecorded
    StreamsAreInspected

CONSTANTS
    Parts = {"mailbox", "idle", "proofs", "adding", "creating", "failing", "every", "logins", "minting"}
    Callers = {"a", "b"}
    Calls = {"CredentialAdd", "PkiRevokeCertificate", "DesktopAdd", "CommitAudit", "Unlock"}
    Capacity = 1
    Free = 1
    Base = 1
    Cap = 2
    IdleLock = 9
    Patience = 1
    MaxTime = 3
    MaxGuesses = 1
    StoreFails = TRUE
SPECIFICATION SuiteSpec
CHECK_DEADLOCK FALSE
INVARIANTS
    AnswersAreTrue
    RequestsAreTrue
    LoginsAreCurrent

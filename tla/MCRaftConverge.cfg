SPECIFICATION ElectedSpec
CONSTANTS
    s1 = s1
    s2 = s2
    s3 = s3
    Server <- Peers
    Value = {v1}
    Nil = Nil
    RestartGroups <- Separate
    Lossy = FALSE
    MaxTerm = 5
    MaxLog = 4
    MaxCalls = 2
    MaxRestarts = 0
    MaxInFlight = 4
INVARIANTS
    TypeOK
    NextIndexInRange
PROPERTIES
    CommitMonotone
    LogsConverge
    CommandsApplied

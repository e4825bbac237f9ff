SPECIFICATION Spec
CONSTANTS
    s1 = s1
    s2 = s2
    s3 = s3
    Server <- Peers
    Value = {v1}
    Nil = Nil
    RestartGroups <- OneProcess
    Lossy = FALSE
    MaxTerm = 5
    MaxLog = 2
    MaxCalls = 1
    MaxRestarts = 0
    MaxInFlight = 2
CONSTRAINT Directed
CHECK_DEADLOCK FALSE
INVARIANT CommittedIsReplicated

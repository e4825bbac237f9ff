SPECIFICATION RestartedSpec
CONSTANTS
    s1 = s1
    s2 = s2
    s3 = s3
    Server <- Peers
    Value = {v1}
    Nil = Nil
    RestartGroups <- Separate
    Lossy = TRUE
    MaxTerm = 5
    MaxLog = 4
    MaxCalls = 1
    MaxRestarts = 1
    MaxInFlight = 2
CONSTRAINT Bounded
CHECK_DEADLOCK FALSE
INVARIANTS
    ElectionSafety
    PersistedIsCurrent
    LeaderUnchallenged
    LogMatching
    CommittedUnlessReused

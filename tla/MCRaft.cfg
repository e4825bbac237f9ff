SPECIFICATION LogSpec
CONSTANTS
    Server = {s1, s2, s3}
    Value = {v1}
    Nil = Nil
    RestartGroups <- OneProcess
    Lossy = FALSE
    MaxTerm = 2
    MaxLog = 2
    MaxCalls = 1
    MaxRestarts = 1
    MaxElections = 2
    MaxInFlight = 2
SYMMETRY Symmetry
CONSTRAINT Bounded
CHECK_DEADLOCK FALSE
INVARIANTS
    CommittedUnlessReused
    AppliedUnlessReused
PROPERTY ImplementsLog

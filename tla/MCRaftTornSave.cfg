SPECIFICATION TornSpec
CONSTANTS
    Server = {s1, s2, s3}
    Value = {v1}
    Nil = Nil
    RestartGroups <- OneProcess
    Lossy = FALSE
    MaxTerm = 2
    MaxLog = 0
    MaxCalls = 0
    MaxRestarts = 1
SYMMETRY Symmetry
CHECK_DEADLOCK FALSE
INVARIANT ElectionSafety

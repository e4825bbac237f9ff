SPECIFICATION FairSpec
CONSTANTS
    k1 = k1
    c1 = c1
    c2 = c2
    N = 2
    Key = {k1}
    Client = {c1, c2}
    Programs <- MixedPrograms
    Nil = Nil
    MaxIndex = 3
    MaxFailures = 1
CHECK_DEADLOCK FALSE
INVARIANTS TypeOK Linearizable DeniedMeansNever AtMostOnce ReplayHeals WokenUnlessMissed WaitChansOwned LocalReadsCommitted
PROPERTY RequestsAnswered

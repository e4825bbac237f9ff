SPECIFICATION Spec
CONSTANTS
    Key = {k1}
    Value = {v1}
    Reader = {r1}
    Nil = Nil
    Short = Short
    Torn = Torn
    EnableCompaction = TRUE
    FlushSize = 1
    CompactionThreshold = 2
    MaxWrites = 3
    MaxCrashes = 1
    MaxErrors = 1
CONSTRAINTS UpToDamage ThreeWritesOrCrash ReadsBeforeFailure UpToGetEnd
CHECK_DEADLOCK FALSE
INVARIANTS LookupLatest ReadsSnapshot CrashSafe ListedComplete


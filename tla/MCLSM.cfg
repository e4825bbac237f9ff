SPECIFICATION Spec
CONSTANTS
    Key = {k1, k2}
    Value = {v1, v2}
    Reader = {r1}
    Nil = Nil
    Short = Short
    Torn = Torn
    EnableCompaction = FALSE
    FlushSize = 3
    CompactionThreshold = 2
    MaxWrites = 4
    MaxCrashes = 2
    MaxErrors = 1
SYMMETRY Symmetry
CHECK_DEADLOCK FALSE
INVARIANTS TypeOK LookupLatest CrashSafe ListedComplete WalSupply
CONSTRAINTS ReadsBeforeCrash TwoFailures UpToDamage
PROPERTIES TablesImmutable ImplementsMap

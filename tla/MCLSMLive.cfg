SPECIFICATION FairSpec
CONSTANTS
    Key = {k1}
    Value = {}
    Reader = {}
    Nil = Nil
    Short = Short
    Torn = Torn
    EnableCompaction = TRUE
    FlushSize = 1
    CompactionThreshold = 2
    MaxWrites = 3
    MaxCrashes = 0
    MaxErrors = 1
CHECK_DEADLOCK FALSE
PROPERTIES FlushCompletes CompactionCatchesUp

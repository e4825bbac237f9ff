SPECIFICATION Spec
CONSTANTS
    Key = {k1}
    Value = {v1, v2}
    Reader = {}
    Nil = Nil
    Short = Short
    Torn = Torn
    EnableCompaction = TRUE
    FlushSize = 1
    CompactionThreshold = 2
    MaxWrites = 3
    MaxCrashes = 0
    MaxErrors = 0
SYMMETRY Symmetry
CHECK_DEADLOCK FALSE
INVARIANT NewToOld

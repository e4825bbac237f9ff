SPECIFICATION Spec
CONSTANTS
    Key = {k1, k2}
    Value = {v1, v2}
    Reader = {}
    Nil = Nil
    Short = Short
    Torn = Torn
    EnableCompaction = FALSE
    FlushSize = 2
    CompactionThreshold = 2
    MaxWrites = 2
    MaxCrashes = 0
    MaxErrors = 0
SYMMETRY Symmetry
CHECK_DEADLOCK FALSE
INVARIANT DurableWhileWriting

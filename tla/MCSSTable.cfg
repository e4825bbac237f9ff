SPECIFICATION Spec
CONSTANTS
    Key = {1, 2, 3}
    Value = {1, 9}
    Nil = Nil
    BlockSize = 18
    CompactionThreshold = 2
    MaxWrites = 5
INVARIANTS TypeOK MemTableExact BlocksTile GetExact MergeExact
CHECK_DEADLOCK FALSE

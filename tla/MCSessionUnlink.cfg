\* LevelDB removes the inputs of a compaction in any order.
CONSTANTS
    Key = {k1, k2}
    Dir = {d1, d2}
    NoDir = NoDir
    Mode = "copy-reuse"
    OldestFirst = FALSE
    InOrder = TRUE
    MaxIncrementals = 1
    MaxWrites = 3
    MaxFile = 4
    MaxFaults = 0
SPECIFICATION Spec
INVARIANT DeletedStaysDeleted
CHECK_DEADLOCK FALSE

\* Two keys, one of them in a table from the start; two more writes; a flush, and a
\* compaction that leaves nothing; one copy, read or apply that fails by itself.
CONSTANTS
    Key = {k1, k2}
    Dir = {d1, d2}
    NoDir = NoDir
    Mode = "copy-reuse"
    OldestFirst = TRUE
    InOrder = FALSE
    MaxIncrementals = 2
    MaxWrites = 3
    MaxFile = 4
    MaxFaults = 1
SPECIFICATION Spec
SYMMETRY KeySymmetry
INVARIANTS TypeOK AsFreshAsTheListing NoTempLeak BackstopHolds
 
CHECK_DEADLOCK FALSE

\* One key and one write, but a compaction with an output and a fault.
CONSTANTS
    Key = {k1}
    Dir = {d1, d2}
    NoDir = NoDir
    Mode = "copy-reuse"
    OldestFirst = TRUE
    InOrder = TRUE
    MaxIncrementals = 1
    MaxWrites = 2
    MaxFile = 5
    MaxFaults = 1
SPECIFICATION Spec
PROPERTY NoticedIsServed
CHECK_DEADLOCK FALSE

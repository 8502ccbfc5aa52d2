\* A write that lands between the copy of the log and the probe.
CONSTANTS
    Key = {k1}
    Dir = {d1, d2}
    NoDir = NoDir
    Mode = "copy-reuse"
    OldestFirst = TRUE
    InOrder = TRUE
    MaxIncrementals = 1
    MaxWrites = 2
    MaxFile = 4
    MaxFaults = 0
SPECIFICATION Spec
INVARIANT SeenIsServed
CHECK_DEADLOCK FALSE

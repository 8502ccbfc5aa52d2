\* Two workers, three tables named out of order, two chunks; one message that cannot
\* be posted; enough errors for both workers to die and one to be told twice.
CONSTANTS
    w1 = w1
    w2 = w2
    Worker = {w1, w2}
    Made <- MCMade
    Listing <- MCListing
    Job <- MCJob
    NoJob = NoJob
    NChunks = 2
    MaxUnpostable = 1
    MaxFaults = 3
SPECIFICATION Spec
INVARIANTS TypeOK NoJobIsLost SameAsSerial NoStragglers
PROPERTIES NeverReused ReturnsFromALivingPool
CHECK_DEADLOCK FALSE

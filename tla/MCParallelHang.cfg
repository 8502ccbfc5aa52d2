\* The same instance: both workers fail, then the chunks wait for a pool without workers.
CONSTANTS
    w1 = w1
    w2 = w2
    Worker = {w1, w2}
    Made <- MCMade
    Listing <- MCListing
    Job <- MCJob
    NoJob = NoJob
    NChunks = 2
    MaxUnpostable = 1
    MaxFaults = 3
SPECIFICATION Spec

PROPERTY AlwaysReturns
CHECK_DEADLOCK FALSE

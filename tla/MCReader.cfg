SPECIFICATION Spec
CHECK_DEADLOCK FALSE
CONSTANTS
    Block = 5
    BlockEntries = 3
    Digits = 3
    Opening <- MCOpening
    Batches <- MCBatches
    MaxBatches = 3
    FirstFile = 2
    MaxFile = 4
    Tears = {0, 3}
INVARIANTS
    
    AsyncIsSync
    
PROPERTIES
    ReuseIsFresh
    PrefixIsColdFold
    SignatureIsSound
    ChangesAreAbove
    

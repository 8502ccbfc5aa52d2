SPECIFICATION Spec
CHECK_DEADLOCK FALSE
CONSTANTS
    Chain = {"a", "b"}
    Conv = {"v"}
    Plain <- MCPlain
    ConvOf <- MCConvOf
    Opening <- MCOpening
    Writes <- MCWrites
    Targets = {0, 1}
    MaxWrites = 5
    MaxDirs = 3
    MaxFaults = 1
INVARIANTS
    TypeOK
    FileIsRebuild
    SigsAreSound
    OneStoreFile
PROPERTIES
    NeverMutated

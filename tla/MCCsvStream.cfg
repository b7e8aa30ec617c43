SPECIFICATION FairSpec
CONSTANTS
    Jobs = 2
    Files <- MCFiles
    MaxRows = 2
    MaxChunk = 2
INVARIANTS
    TypeOK
    NilIsWhole
    NilEndsDownload
    NoMutualWait
PROPERTIES
    ImplementsSheetJob
    EveryStepCounts
    EveryJobReturns

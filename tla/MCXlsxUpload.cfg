SPECIFICATION FairSpec
CONSTANTS
    MaxChunks = 4
INVARIANTS
    TypeOK
    StoredIsWhole
    LocationEndsWriter
    NoMutualWait
PROPERTIES
    WriterEnds
    ImplementsUpload
    EveryStepCounts

SPECIFICATION Spec
CONSTANTS
    Jobs = 2
    Files <- MCFiles
    MaxRows = 2
    MaxChunk = 2
INVARIANTS
    CancelledIsError

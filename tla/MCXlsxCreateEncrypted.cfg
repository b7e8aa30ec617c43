SPECIFICATION Spec
CONSTANTS
    w1 = w1
    w2 = w2
    dataset = dataset
    filtered = filtered
    unnamed = unnamed
    oversized = oversized
    None = None
    Worker = {w1}
    Message = {dataset}
    Event <- MCEvent
    Name <- MCName
    Instance <- MCInstance
    FilterOutput <- MCFilterOutput
    MaxAllowedRowCount = 2
    CommitOnError = FALSE
    MaxAttempts = 1
    MaxFaults = 0
INVARIANTS
    EncryptedCsvExports

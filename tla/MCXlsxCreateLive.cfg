SPECIFICATION FairSpec
CONSTANTS
    w1 = w1
    w2 = w2
    dataset = dataset
    filtered = filtered
    unnamed = unnamed
    oversized = oversized
    None = None
    Worker = {w1, w2}
    Message = {filtered, oversized}
    Event <- MCEvent
    Name <- MCName
    Instance <- MCInstance
    FilterOutput <- MCFilterOutput
    MaxAllowedRowCount = 2
    CommitOnError = TRUE
    MaxAttempts = 4
    MaxFaults = 2
PROPERTIES
    EveryMessageSettles

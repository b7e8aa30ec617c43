SPECIFICATION SystemSpec
CONSTANTS
    w1 = w1
    w2 = w2
    dataset = dataset
    None = None
    Worker = {w1, w2}
    Message = {dataset}
    Event <- MCEvent
    Name = {"v1"}
    Instance = {"i1"}
    FilterOutput = {""}
    MaxAllowedRowCount = 2
    CommitOnError = TRUE
    MaxAttempts = 4
    MaxFaults = 1
    MaxShutdowns = 2
INVARIANTS
    SystemTypeOK
PROPERTIES
    EveryMessageSettles

SPECIFICATION Spec
CONSTANTS
    w1 = w1
    w2 = w2
    dataset = dataset
    filtered = filtered
    unnamed = unnamed
    oversized = oversized
    None = None
    Worker = {w1, w2}
    Message = {dataset, unnamed}
    Event <- MCEvent
    Name <- MCName
    Instance <- MCInstance
    FilterOutput <- MCFilterOutput
    MaxAllowedRowCount = 2
    CommitOnError = FALSE
    MaxAttempts = 3
    MaxFaults = 2
SYMMETRY Workers
INVARIANTS
    TypeOK
    OnlyWholeWorkbooks
    NoPrerelease
    PublicLinksStand
    CommittedIsExportedOrReported
    IsolatedExportConsistent
    LinksLead
PROPERTIES
    ImplementsExports

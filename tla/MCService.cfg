SPECIFICATION FairSpec
CONSTANT Dependency = {"datasetAPI", "filterAPI"}
INVARIANTS
    TypeOK
    NilIsGraceful
PROPERTIES
    NothingTakenAfterStop
    TakesOnlyWhenHealthy
    StopEndsProcess
    HealthyServiceConsumes
    ImplementsProcess

SPECIFICATION LoopSpec
CONSTANTS
    Limit = 3
    MappingSize = 8
    DataCapacity = 16
    MmioCapacity = 8
    IoExits <- MCIoExits
    MmioExits <- MCMmioExits
    DataCounts = {0, 16, 17}
INVARIANTS
    TraceIsWhole
    ExhaustionHidesNothing
PROPERTY
    ReentryFindsResponse
CHECK_DEADLOCK FALSE

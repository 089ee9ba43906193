SPECIFICATION ChainSpec
CHECK_DEADLOCK FALSE
CONSTANTS
    QueueSize = 3
    Memory = {0, 1, 2, 3, 4}
    Free = {1, 2, 3}
    Descriptors <- MCDescriptors
    Drivers <- MCDrivers
    HeaderLength = 2
    StatusLength = 1
    DescriptorSize = 2
    MaxIndirect = 4
    SectorSize = 2
    Capacity = 2
INVARIANTS
    ResolvesExactlyRequests

SPECIFICATION Spec
CONSTANTS
    Capacity = 2
    Values <- TwoValues
    Initial <- AllA
    Torn = Torn
    Payloads <- TwoPayloads
    Requests <- GoodRequests
    QueueSize = 1
    IndexModulus = 2
    MaxInFlight = 1
    FileBacked = TRUE
    Legacy = FALSE
INVARIANTS
    AckedIsDurable
PROPERTIES
    ImplementsBlockStore

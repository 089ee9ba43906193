SPECIFICATION LiveSpec
CONSTANTS
    Capacity = 2
    Values <- TwoValues
    Initial <- AllA
    Torn = Torn
    Payloads <- TwoPayloads
    Requests <- GoodRequests
    QueueSize = 2
    IndexModulus = 4
    MaxInFlight = 1
    FileBacked = FALSE
    Legacy = FALSE
PROPERTIES
    PublishedIsServed

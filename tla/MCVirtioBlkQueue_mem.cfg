SPECIFICATION Spec
CONSTANTS
    Capacity = 2
    Values <- TwoValues
    Initial <- AllA
    Torn = Torn
    Payloads <- OnePayload
    Requests <- AllRequests
    QueueSize = 2
    IndexModulus = 4
    MaxInFlight = 2
    FileBacked = FALSE
    Legacy = TRUE
INVARIANTS
    ChainsAreConserved
    CompletionIsAnnounced
PROPERTIES
    ReadsReturnAcked

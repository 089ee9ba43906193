SPECIFICATION RegistersSpec
CONSTANTS
    SupportedFeatures = {"VERSION_1", "INDIRECT_DESC"}
    LowWords = {{}, {"INDIRECT_DESC"}}
    HighWords = {{}, {"VERSION_1"}, {"VERSION_1", "HIGH_OTHER"}}
    FeatureSelects = {0, 1, 2}
    QueueSelects = {0, 1}
    QueueSizes = {0, 3, 4, 8}
    HalfWords = {0, 1}
    QueueMaxSize = 8
    IndexModulus = 3
INVARIANTS
    WorkNeedsNegotiation
    ReadyDeviceCapture
PROPERTIES
    NegotiationIsStable

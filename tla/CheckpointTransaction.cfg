SPECIFICATION FairSpec
CONSTANTS
    IndexModulus = 3
    MaxCaptures = 3
    Wiped = wiped
INVARIANTS
    RequestsSurvive
    CompletionsInterrupt
    RegistrationsAccounted
PROPERTIES
    DevicesRestoredLast
    RequestsComplete

\* Every vCPU ends in HLT, so every run stops.
SPECIFICATION Spec
CONSTANT Fixtures <- Suite
CHECK_DEADLOCK FALSE
INVARIANTS NoFalseFailure ReturnsWhole AckMeansDone WatchdogNeverProves SourceHoldsLine
PROPERTIES CapturedBetweenInstructions RestoredWhole LineFollowsCompletedStore AnnouncedAfterPublished MainReturns

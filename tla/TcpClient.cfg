SPECIFICATION Spec
CONSTANTS
    MaxSockets = 2
    MaxOutages = 1
    MaxCalls = 4
    Programs <- OrderlyPrograms
INVARIANTS AttemptIsSound NothingDeadIsUsed
PROPERTIES StopSticks ConnectsInTheEnd
CHECK_DEADLOCK FALSE

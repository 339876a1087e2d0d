SPECIFICATION Spec
CONSTANTS
    Threads = {t1}
    Usages <- OrderlyUsages
    HighWaterMark = 2
    MaxCalls = 3
    MaxLen = 2
INVARIANTS ClosedOnce WireInOrder
PROPERTY DisconnectedIsFinal
CHECK_DEADLOCK FALSE

SPECIFICATION Spec
CONSTANTS
    Threads = {}
    Usages <- StopReadAndClose
    HighWaterMark = 2
    MaxCalls = 2
    MaxLen = 1
INVARIANT ClosedOnce
CHECK_DEADLOCK FALSE

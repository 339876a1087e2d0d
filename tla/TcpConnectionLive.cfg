SPECIFICATION FairSpec
CONSTANTS
    Threads = {t1}
    Usages <- EndingUsages
    HighWaterMark = 2
    MaxCalls = 3
    MaxLen = 2
PROPERTIES ShutdownCompletes ClosedIsForgotten
CHECK_DEADLOCK FALSE

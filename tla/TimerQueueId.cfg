SPECIFICATION Spec
CONSTANTS
    Addresses = {1, 2}
    Intervals = {0, 1}
    Delays = {0}
    Threads = {t1}
    MaxTime = 2
    MaxTimers = 2
INVARIANT IdReadWhileLive
CHECK_DEADLOCK FALSE

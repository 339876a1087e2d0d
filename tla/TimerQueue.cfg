SPECIFICATION Spec
CONSTANTS
    Addresses = {1, 2}
    Intervals = {0, 1}
    Delays = {0, 2}
    Threads = {t1}
    MaxTime = 3
    MaxTimers = 2
INVARIANTS SetsAgree TimerfdCovers CancelledStaysOut
PROPERTY OnlyOwnCancel
CHECK_DEADLOCK FALSE

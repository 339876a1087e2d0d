SPECIFICATION Spec
CONSTANTS
    LoopThread = loop
    Producers = {loop, t1}
    Posters = {loop, t1}
    Elements <- MCElements
    Size = 8
    Vacant = Vacant
    LockFree = TRUE
    MaxTasks = 2
    MaxQuits = 0
PROPERTY TailOnlyForward
CHECK_DEADLOCK FALSE

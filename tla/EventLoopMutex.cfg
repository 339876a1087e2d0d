SPECIFICATION ThreadSpec
CONSTANTS
    LoopThread = loop
    Producers = {loop, t1, t2}
    Posters = {loop, t1, t2}
    Elements <- MCElements
    Size = 2
    Vacant = Vacant
    LockFree = FALSE
    MaxTasks = 2
    MaxQuits = 1
INVARIANTS NoLostWakeup RunInOrder
CHECK_DEADLOCK FALSE

SPECIFICATION ThreadFairSpec
CONSTANTS
    LoopThread = loop
    Producers = {loop, t1}
    Posters = {t1}
    Elements <- MCElements
    Size = 3
    Vacant = Vacant
    LockFree = TRUE
    MaxTasks = 4
    MaxQuits = 1
INVARIANTS SlotsRespected ShadowsAreSafe QuitsLiveLoop
PROPERTIES FifoSpec TasksRun DestructorReturnsOnceLooping
CHECK_DEADLOCK FALSE

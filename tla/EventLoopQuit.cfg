SPECIFICATION Spec
CONSTANTS
    LoopThread = loop
    Producers = {loop, t1}
    Posters = {loop, t1}
    Elements <- MCElements
    Size = 2
    Vacant = Vacant
    LockFree = FALSE
    MaxTasks = 1
    MaxQuits = 1
INVARIANT QuitWakes
CHECK_DEADLOCK FALSE

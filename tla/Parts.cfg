SPECIFICATION Spec
CONSTANTS
    SmallSize = 4  LargeSize = 6  DropLimit = 2  RollSize = 7  MaxLines = 6
    Messages <- LogMessages
    Threads = {"t1", "t2", "t3"}
    InitSize = 1  MaxSize = 2  RedisSize = 2  MaxLogins = 4  MaxScans = 1
    PoolWorkers = {"w1", "w2"}
    MaxTasks = 3
    kCheapPrepend = 2  InitialSize = 3  ExtraSize = 2  MaxBytes = 10
    Methods = {"GET", "POST"}
    Patterns <- RoutePatterns
    Paths <- RoutePaths
    Wild = {":x", ":y"}
    MaxRoutes = 3
    MaxClients = 3  ThreadNums = {0, 2}  MaxFds = 3  MaxOpens = 1
    buf_size = 2
    Uploads <- UploadsOfTwo
INVARIANTS LinesInOrder PoolsAccounted TasksRunOnce BufferIsQueue RouteIsBest ServerInOrder
PROPERTIES WorkEnds ServerProgress FieldsArrive
CHECK_DEADLOCK FALSE

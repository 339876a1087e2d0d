SPECIFICATION Spec
CONSTANTS
    MaxHeaderLen = 2
    FileLen = 3
    StaticFiles = {"/style.css", "/index.html"}
    IdleTimeouts = TRUE
    Streams <- AllStreams
INVARIANTS TakesARequest LengthIsDeclared AnswersFollowInput LoginAgrees
CHECK_DEADLOCK FALSE

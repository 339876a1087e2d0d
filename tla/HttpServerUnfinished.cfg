SPECIFICATION Spec
CONSTANTS
    MaxHeaderLen = 2
    FileLen = 3
    StaticFiles = {"/style.css", "/index.html"}
    IdleTimeouts = FALSE
    Streams <- Singles
INVARIANT UnfinishedIsNotRefused
CHECK_DEADLOCK FALSE

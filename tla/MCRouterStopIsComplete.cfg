CONSTANTS
    r1 = r1
    r2 = r2
    r3 = r3
    None = None
    Requests <- ThreeRequests
    EchoEnabled = TRUE
    CanFail = FALSE
    MaxStarts = 1
CHECK_DEADLOCK FALSE
SPECIFICATION Spec
PROPERTIES StopIsComplete

CONSTANTS
    r1 = r1
    r2 = r2
    r3 = r3
    None = None
    Requests <- ThreeRequests
    EchoEnabled = TRUE
    CanFail = TRUE
    MaxStarts = 2
CHECK_DEADLOCK FALSE
SPECIFICATION Spec
INVARIANTS CanBeStopped

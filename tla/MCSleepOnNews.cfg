CONSTANTS
    ula = ula
    jan = jan
    rob = rob
    ewa = ewa
    v1 = v1
    v2 = v2
    Pusher = Pusher
    None = None
    Subscribers <- OneSubscriber
    Readers <- OneReader
    Values <- TwoValues
    Tolerance <- WideTolerance
    MinTolerance = 1
    Patience = 3
    MaxRefreshes = 1
    MaxRecall = 1
    CanFail = FALSE
    CanPush = FALSE
    MaxTime = 4
SPECIFICATION PromptSpec
INVARIANT NoSleepOnNews

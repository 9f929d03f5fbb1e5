CONSTANTS
    ula = ula
    jan = jan
    rob = rob
    ewa = ewa
    v1 = v1
    v2 = v2
    Pusher = Pusher
    None = None
    Subscribers <- TwoSubscribers
    Readers <- NoReaders
    Values <- TwoValues
    Tolerance <- SmallTolerance
    MinTolerance = 1
    Patience = 2
    MaxRefreshes = 2
    MaxRecall = 1
    CanFail = TRUE
    CanPush = TRUE
    MaxTime = 3
SPECIFICATION FairSpec
PROPERTY EveryRequestEnds
INVARIANT SingleFlight

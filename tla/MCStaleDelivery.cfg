CONSTANTS
    ula = ula
    jan = jan
    rob = rob
    ewa = ewa
    v1 = v1
    v2 = v2
    Pusher = Pusher
    None = None
    Subscribers <- TwoSubscribers
    Readers <- OneReader
    Values <- TwoValues
    Tolerance <- WideTolerance
    MinTolerance = 1
    Patience = 2
    MaxRefreshes = 1
    MaxRecall = 1
    CanFail = FALSE
    CanPush = FALSE
    MaxTime = 4
SPECIFICATION Spec
SYMMETRY ValuesAlike
PROPERTY DeliversNews

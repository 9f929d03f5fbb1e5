CONSTANTS
    ula = ula
    jan = jan
    rob = rob
    ewa = ewa
    v1 = v1
    v2 = v2
    Pusher = Pusher
    None = None
    Subscribers <- OneSubscriber
    Readers <- TwoReaders
    Values <- TwoValues
    Tolerance <- WideTolerance
    MinTolerance = 1
    Patience = 2
    MaxRefreshes = 1
    MaxRecall = 1
    CanFail = TRUE
    CanPush = FALSE
    MaxTime = 3
SPECIFICATION Spec
SYMMETRY Alike
PROPERTY NeverOlder

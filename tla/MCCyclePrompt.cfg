CONSTANTS
    ula = ula
    jan = jan
    rob = rob
    ewa = ewa
    v1 = v1
    v2 = v2
    Pusher = Pusher
    None = None
    Subscribers <- TwoSubscribers
    Readers <- OneReader
    Values <- TwoValues
    Tolerance <- MixedTolerance
    MinTolerance = 1
    Patience = 3
    MaxRefreshes = 2
    MaxRecall = 1
    CanFail = TRUE
    CanPush = TRUE
    MaxTime = 4
SPECIFICATION PromptSpec
SYMMETRY ValuesAlike
INVARIANTS
    TypeOK
    InTime
PROPERTY DeliversNews

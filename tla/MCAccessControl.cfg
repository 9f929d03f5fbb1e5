CONSTANTS
    anna = anna
    piotr = piotr
    NoUser = NoUser
    NoTime = NoTime
    Users <- MCUsers
    Addresses <- MCAddresses
    WhiteList <- MCWhiteList
    BlackList <- MCBlackList
    CutoffList <- MCCutoffList
    Timeouts <- AskedTimeouts
    Queries <- TwoQueries
    Tolerances <- OneTolerance
    DefaultControlTime = 1
    MaxControlTime = 1
    MaxTime = 2
SPECIFICATION Spec
SYMMETRY UsersAlike
INVARIANTS
    TypeOK
    ReservationBounded
    ReportConsistent
PROPERTIES
    NoTakeover
    CutoffHolds
    OwnerOnly
    AccessAnswerIsTrue
    KeepsRegister

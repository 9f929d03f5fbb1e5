CONSTANTS
    anna = anna
    piotr = piotr
    NoUser = NoUser
    NoTime = NoTime
    Users <- MCUsers
    Addresses <- MCAddresses
    WhiteList <- MCWhiteList
    BlackList <- MCBlackList
    CutoffList <- MCCutoffList
    Timeouts <- AskedTimeouts
    Queries <- TwoQueries
    Tolerances <- OneTolerance
    DefaultControlTime = 1
    MaxControlTime = 1
    MaxTime = 2
SPECIFICATION Spec
PROPERTY TakenMeansControl

CONSTANTS
    u1 = u1
    u2 = u2
    u3 = u3
    u4 = u4
    NoId = NoId
    Users <- MCUsers
    RequestedMin = 2
SPECIFICATION FairSpec
INVARIANTS
    IInv
    UniqueIds
PROPERTY
    DrainsWhenQuiet

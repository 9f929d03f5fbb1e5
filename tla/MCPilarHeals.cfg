CONSTANTS
    get = get
    slew = slew
    park = park
    i1 = i1
    i2 = i2
    i3 = i3
    n1 = n1
    n2 = n2
    n3 = n3
    None = None
    Commands <- TwoCommands
    Moves <- OneMove
    Ids <- TwoIds
    Connections <- ThreeConnections
    PoolSize = 1
SPECIFICATION BusySpec
PROPERTIES Heals

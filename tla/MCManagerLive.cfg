SPECIFICATION FairSpec
CONSTANTS
    c1 = c1
    c2 = c2
    a1 = a1
    TotalLength = 3
    PieceLength = 2
    BlockSize = 1
    Peers = {a1}
    NoPeer = NoPeer
    MaxAvailability = 0
    Clients = {c1}
    NoClient = NoClient
    AddressOf <- OnePeer
    Has <- AllHaveAll
    Haves = {}
    BufferedMsgs <- TwoBuffered
    MaxOutstanding = 2
    InMessagesCap = 1
    StorageCap = 1
    Corrupt = FALSE
    DiskFaults = FALSE
PROPERTIES KeepsContract EventLoopReturns 
CHECK_DEADLOCK FALSE

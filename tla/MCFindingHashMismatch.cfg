SPECIFICATION ManagerSpec
CONSTANTS
    c1 = c1
    c2 = c2
    a1 = a1
    TotalLength = 1
    PieceLength = 1
    BlockSize = 1
    Peers = {a1}
    NoPeer = NoPeer
    MaxAvailability = 0
    Clients = {c1}
    NoClient = NoClient
    AddressOf <- OnePeer
    Has <- AllHaveAll
    Haves = {}
    BufferedMsgs <- NoneBuffered
    MaxOutstanding = 1
    InMessagesCap = 1
    StorageCap = 1
    Corrupt = TRUE
    DiskFaults = FALSE
INVARIANTS DoneMeansComplete
CHECK_DEADLOCK FALSE

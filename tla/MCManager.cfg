SPECIFICATION ManagerSpec
CONSTANTS
    c1 = c1
    c2 = c2
    a1 = a1
    TotalLength = 1
    PieceLength = 1
    BlockSize = 1
    Peers = {a1}
    NoPeer = NoPeer
    MaxAvailability = 0
    Clients = {c1, c2}
    NoClient = NoClient
    AddressOf <- Redialed
    Has <- AllHaveAll
    Haves = {0, 1}
    BufferedMsgs <- OneBuffered
    MaxOutstanding = 1
    InMessagesCap = 1
    StorageCap = 1
    Corrupt = TRUE
    DiskFaults = TRUE
INVARIANTS ManagerInv DoneClosedOnce WrittenOnce RegisteredIsActive
SYMMETRY ClientSymmetry
CHECK_DEADLOCK FALSE

SPECIFICATION Spec
CONSTANTS
    TotalLength = 3
    PieceLength = 2
    BlockSize = 1
    Peers = {p1, p2}
    NoPeer = NoPeer
    MaxAvailability = 3
SYMMETRY PeerSymmetry
INVARIANTS TypeOK CountersExact PieceFlagExact PendingOwned AvailabilityCovers
PROPERTY ReceivedBlockKept

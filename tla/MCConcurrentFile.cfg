SPECIFICATION FairSpec
CONSTANTS
    TotalLength = 3
    PieceLength = 1
    BlockSize = 1
    Workers = {w1, w2}
    MaxRetries = 3
INVARIANTS TypeOK NoWorkLost SendsNeverWait
PROPERTIES KeepsContract Returns WorkersEnd
CHECK_DEADLOCK FALSE

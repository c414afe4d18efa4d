SPECIFICATION FairWriteSpec
CONSTANTS
    Blocks = {b1}
    NoBlock = NoBlock
    MaxOutstanding = 1
    MaxStalls = 1
    WriteCap = 1
    MsgCap = 1
    PlainIds = {"unchoke", "keepalive"}
    MaxBuffered = 1
    EndGame = TRUE
INVARIANTS TypeOK NoRequestForgotten StallingPeerDropped
PROPERTIES ClosedEndsLoops LateIsReported SilentPeerDropped
CHECK_DEADLOCK FALSE

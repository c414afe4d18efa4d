SPECIFICATION FairSpec
CONSTANTS
    Blocks = 2
PROPERTY AcceptedPeerGetsBitfield
CHECK_DEADLOCK FALSE

SPECIFICATION CommandFairSpec
CONSTANTS
    Peers = {w, p}
    NoPeer = NoPeer
    Watched = w
    MaxDials = 2
    MetaPieces = 2
    Blocks = 2
    MaxAttempts = 2
    Greetings = {"extension", "unchoke", "choke"}
INVARIANTS CommandInv ErrorMeansAllFailed HonestPeerMatches NeverStarved
PROPERTIES CommandEnds
CHECK_DEADLOCK FALSE

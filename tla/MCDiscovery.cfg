SPECIFICATION DiscoveryFairSpec
CONSTANTS
    MaxRetries = 2
    ConnIds = {i1, i2}
    NoConn = NoConn
    HttpTrackers = {h1}
    Endpoints = {e1, e2}
    MaxFound = 1
    MaxLookedUp = 2
INVARIANTS CallInv DiscoveredExact
PROPERTIES DiscoveryReturns
CHECK_DEADLOCK FALSE

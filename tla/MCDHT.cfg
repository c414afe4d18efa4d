SPECIFICATION FairSpec
CONSTANTS
    IdBits = 3
    SelfID <- Self111
    BucketSize = 2
    Nodes <- FourNodes
    None = None
    BootstrapNodes <- TwoBootstraps
    Target <- Target010
    Alpha = 2
    K = 3
    MaxIterations = 3
    MaxNamed = 2
INVARIANTS TableInv ClosestHeardAsked
PROPERTIES LookupReturns
CHECK_DEADLOCK FALSE

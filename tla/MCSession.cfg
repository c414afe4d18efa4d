SPECIFICATION Spec
CONSTANTS
    Addresses = {p1, p2, p3, p4}
    Width = 6
    MaxBackoff = 31
    BlacklistAt = 2
    MaxFailures = 3
    Slots = {s1, s2}
    NoAddress = NoAddress
    MaxConnections = 1
    MaxClients = 1
INVARIANTS SessionInv ConnectionsBounded BackoffDoubles
PROPERTIES BlacklistKept
SYMMETRY Symmetry
CHECK_DEADLOCK FALSE

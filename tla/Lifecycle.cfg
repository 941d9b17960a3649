SPECIFICATION FairSpec
CONSTANTS
    Peers = {p1, p2}
    Static = {s1}
    Clients = {c1, c2}
    None = None
    PollInterval = 3
    PollTimeout = 2
    SettleTime = 1
    Grace = 2
INVARIANTS PollsInOrder
PROPERTIES StartsAnyway ShutdownEnds DiscoveryConverges
CHECK_DEADLOCK FALSE

CONSTANTS
    Clients = {c1, c2, c3, c4}
    Closer = closer
    min_connections = 1
    max_connections = 2
SPECIFICATION FairSpec
INVARIANTS
    PoolAccounting
    NoLostWakeup
    ClosedMeansEmpty
PROPERTIES
    HandedOutClean
    CloseTerminates
    ImplementsLeasePool

\* The connection breaks during COMMIT.
CONSTANTS
    Devices = {1, 2}
    Owner <- TwoOwners
    Requests <- PairRequests
    Threads = {t1}
    Readers = {}
    PageSize = 1
    MaxAttempts = 3
    MaxRequests = 1
    alice = alice
    bob = bob
    m1 = m1
    m2 = m2
    packetA = packetA
    packetB = packetB
SPECIFICATION Spec
PROPERTIES
    LostCommitIsReported

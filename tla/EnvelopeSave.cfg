\* Two threads race over one pair of devices, which may be revoked.
CONSTANTS
    Devices = {1, 2}
    Owner <- TwoOwners
    Requests <- PairRequests
    Threads = {t1, t2}
    Readers = {}
    PageSize = 1
    MaxAttempts = 2
    MaxRequests = 3
    alice = alice
    bob = bob
    m1 = m1
    m2 = m2
    packetA = packetA
    packetB = packetB
SPECIFICATION Spec
SYMMETRY Symmetry
INVARIANTS
    TypeOK
    SequenceDense
    AnswerNamesStoredRow
PROPERTIES
    ImplementsPairLog

\* Device 2 pages through the envelopes of two senders while they are written.
CONSTANTS
    Devices = {1, 2, 3}
    Owner <- TwoOwners
    Requests <- InboxRequests
    Threads = {t1, t2}
    Readers = {2}
    PageSize = 1
    MaxAttempts = 1
    MaxRequests = 2
    alice = alice
    bob = bob
    m1 = m1
    m2 = m2
    packetA = packetA
    packetB = packetB
SPECIFICATION FairSpec
INVARIANTS
    CursorNeverSkips
    ReceivedMeansSaved
PROPERTIES
    NothingAfterRevocation
    EnvelopesArrive

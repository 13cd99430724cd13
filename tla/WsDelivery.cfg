\* One worker whose one descriptor is reused by two devices, one message under way.
CONSTANTS
    NumWorkers = 1
    Devices = {d1, d2}
    Fds = {f1}
    Revokes = {r1}
    MaxAccepts = 2
    MaxMessages = 1
    MaxSocketEvents = 1
SPECIFICATION FairSpec
INVARIANTS
    NoMisdelivery
PROPERTIES
    RevokedSessionsClose

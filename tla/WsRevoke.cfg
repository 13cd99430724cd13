\* Two workers, a device with two connections, revoked twice.
CONSTANTS
    NumWorkers = 2
    Devices = {d1}
    Fds = {f1, f2}
    Revokes = {r1, r2}
    MaxAccepts = 3
    MaxMessages = 0
    MaxSocketEvents = 0
SPECIFICATION Spec
SYMMETRY Symmetry
INVARIANTS
    TypeOK
    DirectoryNamesLiveSessions
    ConfirmedMeansGone
    ReusedDescriptorIsClean
    CompletionOnce

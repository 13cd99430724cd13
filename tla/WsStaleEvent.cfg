\* One worker, two descriptors: an event reported for a session that a handler
\* earlier in the same batch removed meets the session that got its descriptor.
CONSTANTS
    NumWorkers = 1
    Devices = {d1}
    Fds = {f1, f2}
    Revokes = {}
    MaxAccepts = 3
    MaxMessages = 0
    MaxSocketEvents = 1
SPECIFICATION Spec
PROPERTIES
    RemovedSessionsEventIgnored

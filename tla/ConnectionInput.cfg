\* Fourteen clients; heartbeat_interval_ 30 s and pong_timeout_ 10 s in periods of the
\* timer, 5 s.
CONSTANTS
  Streams <- MCStreams
  CutOffsets = {1, 2, 4, 10}
  PingTicks = 6
  PongTicks = 2
SPECIFICATION Spec
INVARIANTS RequestParsedExactly FramesReadAsSent
PROPERTIES EarlyFramesHandled DeadPeerRemoved
CHECK_DEADLOCK FALSE

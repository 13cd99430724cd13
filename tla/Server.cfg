\* An HTTP worker, two WebSocket workers, two business threads and a request; a stop, or
\* an exception of running(), at any time.
CONSTANTS
  Workers = {w1}
  Fds = {1, 2}
  MaxQueue = 1
  MaxUpgrades = 1
  WsWorkers = {x1, x2}
  BizThreads = {b1, b2}
  Messages = {m1}
SPECIFICATION ServerSpec
INVARIANTS DescriptorsHaveOneOwner NothingOutlivesWhatItUses AnsweredOnce
PROPERTIES AcceptedTasksFinish FullQueueDrains ShutdownTerminates
CHECK_DEADLOCK FALSE

\* One upgraded connection whose descriptor is given to the next client.
CONSTANTS
  Workers = {w1, w2}
  Fds = {1, 2, 3, 4}
  MaxQueue = 2
  MaxUpgrades = 1
SPECIFICATION Spec
INVARIANT StopInterruptsEverySession
CHECK_DEADLOCK FALSE

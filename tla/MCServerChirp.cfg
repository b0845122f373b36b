\* Two devices, one of them stale.
CONSTANTS
  Devices = {d, e}
  MaxRdids = 2
  MaxRunning = 2
SPECIFICATION Spec
INVARIANT OnlineIsHeard
CHECK_DEADLOCK FALSE

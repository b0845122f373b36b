\* Two leases: two devices at a time, or one that starts over.
CONSTANTS
  Devices = {d, e}
  MaxRdids = 2
  MaxRunning = 2
SPECIFICATION Spec
INVARIANTS    MatedOnce
PROPERTY CallsEnd
CHECK_DEADLOCK FALSE

\* Queues of one packet each, and the heartbeat thread for both timers: the fly
\* thread does nothing it does not do.
SPECIFICATION Spec
CONSTANTS
  DispatchCapacity = 1
  TxCapacity = 1
  MaxGoodbyes = 1
  Timers = {"heartbeat"}
INVARIANTS NoLostWakeup
PROPERTIES JamsLast PacketsAreTaken LineIsServed
CHECK_DEADLOCK FALSE

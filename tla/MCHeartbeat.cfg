\* Every pair of thresholds up to the default PING_THRESHOLD.
SPECIFICATION WatchSpec
CONSTANT MaxPing = 8
INVARIANTS ReturnsTellStatus 

SPECIFICATION Spec
CONSTANTS
  Sensors = {a, b}
  Addresses = {"1"}
  Worlds <- MCWorlds
  DEFAULTSNIPSIZE = 2
  FRAG_BUF_SZ = 2
  TimeoutRounds = 3
SYMMETRY SensorSymmetry
INVARIANTS HalvesBelongTogether 
CHECK_DEADLOCK FALSE

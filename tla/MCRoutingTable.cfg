\* Two sensor slots.  Two nodes at a time, the router or not among them, every
\* health of the shortest heartbeat, one payload type, and leftovers in a new node
\* that name a slot or none.
SPECIFICATION TableSpec
CONSTANTS
  N = 5
  Word = 6
  NoNode = NoNode
  PingThreshold = 1
  StaleThreshold = 1
  Garbage = {2, 5}
  Gdts = {{"PECKING"}}
INVARIANTS AllocCountsNodes RdidUnique RdidFindsDevice SearchEnds SensorsCanBeFreed UniformStrictness
PROPERTY LeasesAreStable

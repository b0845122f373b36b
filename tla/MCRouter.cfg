\* The router with one sensor at a time: a table of five slots.
SPECIFICATION Spec
CONSTANTS
  N = 5
  Word = 6
  NoNode = NoNode
  PingThreshold = 2
  StaleThreshold = 1
  Garbage = {5}
  Gdts = {}
  Kinds = {"EYEBALLING", "PECKING", "SINGING", "MOCKING", "PEACOCKING", "NESTING", "SQUAWKING", "HEARTBEAT", "CHIRPING", "SERVSTATUS", "FLYING"}
INVARIANTS StepsInOrder
PROPERTIES DeparturesAreAnnounced OnlineIsNews RejectionHandled OnlyLeasedAreLost
VIEW View

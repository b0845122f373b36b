\* Chirps of devices that may not chirp yet.
SPECIFICATION Spec
CONSTANTS
  N = 5
  Word = 6
  NoNode = NoNode
  PingThreshold = 2
  StaleThreshold = 1
  Garbage = {5}
  Gdts = {}
  Kinds = {"EYEBALLING", "PECKING", "SINGING", "MOCKING", "PEACOCKING", "NESTING", "SQUAWKING", "HEARTBEAT", "CHIRPING", "SERVSTATUS", "FLYING"}
PROPERTY UnexpectedAreDropped
VIEW View

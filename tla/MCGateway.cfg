\* Three sensors, of which two may be joined at a time; garbage in a new node
\* makes the table take an rdid from the pool.
SPECIFICATION Spec
CONSTANTS
  N = 6
  Word = 7
  NoNode = NoNode
  NoDevice = NoDevice
  MaxKnown = 1
  PingThreshold = 1
  StaleThreshold = 1
  Garbage = {0, 2}
  Gdts = {}
  ByteValues = 5
  IdSize = 2
  ServerIdSize = 2
  KeySize = 3
  PrintedKey = 2
  LabelSize = 2
  UnitsSize = 1
  ChirpSize = 2
INVARIANTS AnswersFindTheirDevice PeckNamesItsSensor ReadsBack

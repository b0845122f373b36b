\* One sensor and its radio.  The table and the slots of the radio are not used.
SPECIFICATION Spec
CONSTANTS
  DEFAULTSNIPSIZE = 1
  FRAG_BUF_SZ = 1
  TimeoutRounds = 3
  HeardTypes = {"FLY", "PECK", "SING", "NEST", "SQUAWK", "DENY_SENSOR", "SERVER_RESPOND",
                "NETWORK_DISCONNECTS_SENSOR", "HEARTBEAT_ROUTER_TO_SENSOR"}
INVARIANTS JoinedTogether
PROPERTIES AnswersWhatIsAsked LostEdgeLasts HandedOver KeepsAnswering
CHECK_DEADLOCK FALSE

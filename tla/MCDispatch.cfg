\* Every interleaving of the calls of three threads on rings of 4 slots: one
\* thread only produces, one only consumes, one (the dispatch thread) does both.
CONSTANTS
  producer = producer
  dispatcher = dispatcher
  consumer = consumer
  Threads = {producer, dispatcher, consumer}
  Producers = {producer, dispatcher}
  Consumers = {dispatcher, consumer}
  Observers = {}
  m1 = m1
  m2 = m2
  Message = {m1, m2}
  Size = 4
  Nothing = Nothing
  Nobody = Nobody
SPECIFICATION Spec
INVARIANTS TokensConserved NoOverwrite
PROPERTIES StoredPacketsStay ImplementsFifo
SYMMETRY PacketSymmetry

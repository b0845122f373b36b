\* Two blocking producers and one consumer that also reads queueSize.
CONSTANTS
  p1 = p1
  p2 = p2
  c = c
  Threads = {p1, p2, c}
  Producers = {p1, p2}
  Consumers = {c}
  Observers = {c}
  m1 = m1
  Message = {m1}
  Size = 3
  Nothing = Nothing
  Nobody = Nobody
SPECIFICATION FairSpec
INVARIANT SoleConsumerSizeExact
PROPERTIES OldestIsConsumed SomeEnqueueProceeds

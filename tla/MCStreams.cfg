\* Two clients of two jobs, polled in batches.
SPECIFICATION FairSpec
CONSTANTS
  Streams = {s1, s2}
  Jobs = {j1, j2}
  MaxEvents = 2
  BatchSize = 1
  StreamLimit = 2
INVARIANTS
  DeliveredInOrder
  CompleteMeansAll
  OneWakeUp
PROPERTIES
  StreamCloses
CHECK_DEADLOCK FALSE

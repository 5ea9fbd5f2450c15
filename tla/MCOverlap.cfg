\* A heartbeat lost during the provider call.
SPECIFICATION Spec
CONSTANTS
  NumStages = 1
  MaxJobs = 2
  RetryLimit = 1
  Handlers = {h1, h2}
  Readers = {}
  MaxVersions = 1
  Concurrency = 2
  RegenerationLimit = 0
  LocalUnlimited = FALSE
  TrendInspired = FALSE
  MaxFaults = 1
SYMMETRY Symmetry
INVARIANTS
  NoOverlap
CHECK_DEADLOCK FALSE

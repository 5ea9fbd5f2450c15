\* One job delivered up to three times to two handlers, the second delivery
\* possibly while the first is still at work, and three failures.
SPECIFICATION FairSpec
CONSTANTS
  NumStages = 1
  MaxJobs = 1
  RetryLimit = 2
  Handlers = {h1, h2}
  Readers = {r1}
  MaxVersions = 1
  Concurrency = 2
  RegenerationLimit = 0
  LocalUnlimited = FALSE
  TrendInspired = FALSE
  MaxFaults = 3
INVARIANTS
  AtMostOnePaidCall
PROPERTIES
  ImplementsPaidStage
  ActiveJobEnds
CHECK_DEADLOCK FALSE

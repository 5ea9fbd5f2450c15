\* Two stages and three drafts, also of a project with content from before
\* versions existed: no failures of the environment, a trend whose risk changes.
SPECIFICATION Spec
CONSTANTS
  NumStages = 2
  MaxJobs = 5
  RetryLimit = 0
  Handlers = {h1}
  Readers = {}
  MaxVersions = 3
  Concurrency = 1
  RegenerationLimit = 1
  LocalUnlimited = FALSE
  TrendInspired = TRUE
  MaxFaults = 0
SYMMETRY Symmetry
INVARIANTS
  AtMostOneActiveJob
  ActiveJobFitsDraft
  PublishedVersionHasResult
  RepeatedResultsBounded
CHECK_DEADLOCK FALSE

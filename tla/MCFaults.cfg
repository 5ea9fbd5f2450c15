\* Two overlapping handlers, two jobs of a one-stage pipeline, two failures
\* of the environment, a trend whose risk changes.
SPECIFICATION Spec
CONSTANTS
  NumStages = 1
  MaxJobs = 2
  RetryLimit = 1
  Handlers = {h1, h2}
  Readers = {r1}
  MaxVersions = 1
  Concurrency = 2
  RegenerationLimit = 1
  LocalUnlimited = FALSE
  TrendInspired = TRUE
  MaxFaults = 2
SYMMETRY Symmetry
INVARIANTS
  GeneratingHasActiveJob
  IdleProjectMatchesDraft
  EndedJobHasNoOpenRun
  ResultIffSucceeded
  ContentFromLatestResult
  WindowFindsOwnRuns
PROPERTIES
  TerminalIsFinal
CHECK_DEADLOCK FALSE

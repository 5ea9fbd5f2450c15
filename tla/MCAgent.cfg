\* One agent and two JSON requests of the same process.
SPECIFICATION FairSpec
CONSTANTS
  AgentRuns = {a1}
  LlmRuns = {l1, l2}
  Drafts = {d1}
  NoDraft = NoDraft
  MaxSteps = 2
  MaxAttempts = 2
  MaxCalls = 3
  MaxToolCalls = 3
  CallsPerStep = 2
INVARIANTS
  RecordedCostWasPaid
  CallsWithinBudget
PROPERTIES
  AcceptedDraftEndsCalls
  CallsEnd
CHECK_DEADLOCK FALSE

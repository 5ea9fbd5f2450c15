\* One source of each kind in turn, two boards, every kind of answer, and waits
\* below and above what a retry agrees to.
CONSTANTS
  Boards = 2
  Batches = 2
  Interval = 2
  Backoff = 1
  Asks = {0, 2, 4}
  Cap = 3
SPECIFICATION FairSpec
PROPERTIES
  WaitsAsTold
  FetchEnds

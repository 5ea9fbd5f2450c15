\* Two projects, two jobs in a row or one in each project, and one pending request
\* for a job altogether, whichever screen asked for it.
SPECIFICATION FairSpec
CONSTANTS
  Projects = {p1, p2}
  Jobs = {j1, j2}
  Ops = {o1}
  None = None
INVARIANTS
  OneTransport
  GeneratingHasCause
PROPERTIES
  GeneratingEnds
CHECK_DEADLOCK FALSE
